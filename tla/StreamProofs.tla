----------------------------- MODULE StreamProofs -----------------------------
(***************************************************************************)
(* The streams of a session, for every width of the numbers, every depth   *)
(* and every behaviour of the network: the circular order of SeqNum agrees *)
(* with the order of the messages, the two ends of a reliable stream keep  *)
(* what they must and implement the channel, and a best-effort stream      *)
(* hands on only what is newer.                                            *)
(***************************************************************************)
EXTENDS ReliableStream, BestEffortStream, FiniteSetTheorems, TLAPS

-----------------------------------------------------------------------------
(* The order of the numbers                                                *)

\* What division gives: every number is a whole number of turns and a residue.
LEMMA Turns ==
    ASSUME NEW n \in Nat
    PROVE  \E q \in Nat : /\ n % Modulus \in Residues
                          /\ n = (Modulus * q) + (n % Modulus)
  <1>1. Modulus \in Nat /\ Modulus > 0
    BY HalfAssumption DEF Modulus
  <1> HIDE DEF Modulus
  <1>2. n \div Modulus \in Nat BY <1>1
  <1>3. n = (Modulus * (n \div Modulus)) + (n % Modulus) BY <1>1
  <1>4. n % Modulus \in Residues BY <1>1 DEF Residues
  <1> QED BY <1>2, <1>3, <1>4

\* Numbers on one turn, or on neighbouring turns, are all that Half allows.
LEMMA Neighbours ==
    ASSUME NEW p \in Nat, NEW q \in Nat,
           NEW r \in Residues, NEW s \in Residues,
           (Modulus * p) + r < (Modulus * q) + s + Half,
           (Modulus * q) + s < (Modulus * p) + r + Half
    PROVE  p = q \/ p = q + 1 \/ q = p + 1
  <1>1. Modulus \in Nat /\ Modulus > 0 /\ Half \in Nat /\ Modulus = Half + Half
    BY HalfAssumption DEF Modulus
  <1>2. r \in Int /\ s \in Int /\ 0 <= r /\ r < Modulus /\ 0 <= s /\ s < Modulus
    BY <1>1 DEF Residues
  <1> HIDE DEF Modulus, Residues
  <1>3. CASE p >= q + 2
    <2> DEFINE d == p - (q + 2)
    <2>1. d \in Nat /\ p = q + 2 + d BY <1>3
    <2>2. Modulus * d >= 0 BY <1>1, <2>1
    <2>3. Modulus * p = Modulus * q + 2 * Modulus + Modulus * d
      BY <1>1, <2>1
    <2> QED BY <1>1, <1>2, <2>2, <2>3
  <1>4. CASE q >= p + 2
    <2> DEFINE d == q - (p + 2)
    <2>1. d \in Nat /\ q = p + 2 + d BY <1>4
    <2>2. Modulus * d >= 0 BY <1>1, <2>1
    <2>3. Modulus * q = Modulus * p + 2 * Modulus + Modulus * d
      BY <1>1, <2>1
    <2> QED BY <1>1, <1>2, <2>2, <2>3
  <1> QED BY <1>3, <1>4

\* operator< on the residues of two numbers less than Half apart is < on the
\* numbers: however often the 16 bits have wrapped, the streams' comparisons
\* mean what the protocol means by them.
THEOREM CircularOrder ==
    ASSUME NEW a \in Nat, NEW b \in Nat, a < b + Half, b < a + Half
    PROVE  Lt(a % Modulus, b % Modulus) <=> a < b
  <1>1. Modulus \in Nat /\ Half \in Nat /\ Modulus = Half + Half
    BY HalfAssumption DEF Modulus
  <1> DEFINE r == a % Modulus
             s == b % Modulus
  <1>2. PICK p \in Nat : r \in Residues /\ a = (Modulus * p) + r
    BY Turns
  <1>3. PICK q \in Nat : s \in Residues /\ b = (Modulus * q) + s
    BY Turns
  <1>4. r \in Int /\ s \in Int /\ 0 <= r /\ r < Modulus /\ 0 <= s /\ s < Modulus
    BY <1>1, <1>2, <1>3 DEF Residues
  <1> HIDE DEF r, s, Modulus
  <1>5. p = q \/ p = q + 1 \/ q = p + 1
    BY <1>2, <1>3, Neighbours
  <1>6. CASE p = q
    BY <1>1, <1>2, <1>3, <1>4, <1>6 DEF Lt, r, s
  <1>7. CASE p = q + 1
    <2>1. Modulus * p = Modulus * q + Modulus BY <1>1, <1>7
    <2> QED BY <1>1, <1>2, <1>3, <1>4, <2>1 DEF Lt, r, s
  <1>8. CASE q = p + 1
    <2>1. Modulus * q = Modulus * p + Modulus BY <1>1, <1>8
    <2> QED BY <1>1, <1>2, <1>3, <1>4, <2>1 DEF Lt, r, s
  <1> QED BY <1>5, <1>6, <1>7, <1>8

-----------------------------------------------------------------------------
(* Arithmetic of residues                                                  *)

LEMMA ModulusIsEven == Modulus \in Nat /\ Half \in Nat /\ Half > 1 /\ Modulus = Half + Half
  BY HalfAssumption DEF Modulus

\* A number that is whole turns and a residue has that residue.
LEMMA ResidueIsUnique ==
    ASSUME NEW q \in Nat, NEW r \in Residues
    PROVE  ((Modulus * q) + r) % Modulus = r
  <1> DEFINE n == (Modulus * q) + r
             t == n % Modulus
  <1>1. Modulus \in Nat /\ Modulus > 0 /\ r \in Nat /\ r < Modulus
    BY ModulusIsEven DEF Residues
  <1>2. n \in Nat
    BY <1>1
  <1>3. PICK p \in Nat : t \in Residues /\ n = (Modulus * p) + t
    BY <1>2, Turns
  <1>4. t \in Nat /\ t < Modulus
    BY <1>1, <1>3 DEF Residues
  <1> HIDE DEF Modulus, t
  <1>5. CASE p = q
    BY <1>1, <1>3, <1>4, <1>5 DEF t
  <1>6. CASE p > q
    <2> DEFINE d == p - (q + 1)
    <2>1. d \in Nat /\ p = q + 1 + d
      BY <1>6
    <2>2. Modulus * p = Modulus * q + Modulus + Modulus * d /\ Modulus * d >= 0
      BY <1>1, <2>1
    <2> QED BY <1>1, <1>3, <1>4, <2>2
  <1>7. CASE p < q
    <2> DEFINE d == q - (p + 1)
    <2>1. d \in Nat /\ q = p + 1 + d
      BY <1>7
    <2>2. Modulus * q = Modulus * p + Modulus + Modulus * d /\ Modulus * d >= 0
      BY <1>1, <2>1
    <2> QED BY <1>1, <1>3, <1>4, <2>2
  <1> QED BY <1>5, <1>6, <1>7

LEMMA ResidueType == \A n \in Nat : Residue(n) \in Residues /\ Residue(n) \in Nat /\ Residue(n) < Modulus
  BY Turns, ModulusIsEven DEF Residue, Residues

\* Adding less than a turn to a residue.
LEMMA ResidueOfSum ==
    ASSUME NEW n \in Nat, NEW i \in Nat, i < Modulus
    PROVE  /\ (Residue(n) + i) % Modulus = Residue(n + i)
           /\ Residue(n + i) = IF Residue(n) + i < Modulus THEN Residue(n) + i
                               ELSE Residue(n) + i - Modulus
  <1> DEFINE r == Residue(n)
  <1>1. Modulus \in Nat /\ Modulus > 0 /\ r \in Nat /\ r < Modulus
    BY ResidueType, ModulusIsEven
  <1>2. PICK q \in Nat : n = (Modulus * q) + r
    BY Turns DEF Residue
  <1> HIDE DEF r, Modulus
  <1>3. CASE r + i < Modulus
    <2>1. r + i \in Residues /\ n + i = (Modulus * q) + (r + i) /\ r + i = (Modulus * 0) + (r + i)
      BY <1>1, <1>2, <1>3 DEF Residues
    <2>2. (n + i) % Modulus = r + i
      BY <2>1, ResidueIsUnique
    <2>3. (r + i) % Modulus = r + i
      BY <2>1, ResidueIsUnique
    <2> QED BY <1>3, <2>2, <2>3 DEF r, Residue
  <1>4. CASE ~(r + i < Modulus)
    <2> DEFINE t == r + i - Modulus
    <2>1. t \in Residues /\ t \in Nat
      BY <1>1, <1>4 DEF Residues
    <2>2. n + i = (Modulus * (q + 1)) + t /\ r + i = (Modulus * 1) + t
      BY <1>1, <1>2, <2>1
    <2> HIDE DEF t
    <2>3. (n + i) % Modulus = t
      BY <2>1, <2>2, ResidueIsUnique
    <2>4. (r + i) % Modulus = t
      BY <2>1, <2>2, ResidueIsUnique
    <2> QED BY <1>4, <2>3, <2>4 DEF r, Residue, t
  <1> QED BY <1>3, <1>4

\* operator+ on residues.
LEMMA PlusResidue == ASSUME NEW n \in Nat, NEW i \in 0 .. Half - 1
                     PROVE  Plus(Residue(n), i) = Residue(n + i)
  <1>1. i \in Nat /\ i < Modulus
    BY ModulusIsEven
  <1> QED BY <1>1, ResidueOfSum DEF Plus

\* Numbers on less than a turn have residues of their own.
LEMMA ResiduesDiffer ==
    ASSUME NEW a \in Nat, NEW b \in Nat, a < b, b - a < Modulus
    PROVE  Residue(a) # Residue(b)
  <1> DEFINE i == b - a
  <1>1. i \in Nat /\ i > 0 /\ i < Modulus /\ b = a + i
    BY ModulusIsEven
  <1>2. Residue(b) = IF Residue(a) + i < Modulus THEN Residue(a) + i ELSE Residue(a) + i - Modulus
    BY <1>1, ResidueOfSum
  <1>3. Residue(a) \in Nat /\ Modulus \in Nat
    BY ResidueType, ModulusIsEven
  <1> QED BY <1>1, <1>2, <1>3

\* operator- on residues.
LEMMA MinusResidue ==
    ASSUME NEW a \in Nat, NEW b \in Nat, a <= b, b - a < Modulus
    PROVE  Minus(Residue(b), Residue(a)) = b - a
  <1> DEFINE i == b - a
  <1>1. i \in Nat /\ i < Modulus /\ b = a + i
    BY ModulusIsEven
  <1>2. Residue(b) = IF Residue(a) + i < Modulus THEN Residue(a) + i ELSE Residue(a) + i - Modulus
    BY <1>1, ResidueOfSum
  <1>3. Residue(a) \in Nat /\ Residue(a) < Modulus /\ Residue(b) \in Nat /\ Modulus \in Nat
    BY ResidueType, ModulusIsEven
  <1> QED BY <1>1, <1>2, <1>3 DEF Minus

\* A full turn changes nothing.
LEMMA ResidueOfTurn == \A n \in Nat : Residue(n + Modulus) = Residue(n)
  <1> SUFFICES ASSUME NEW n \in Nat PROVE Residue(n + Modulus) = Residue(n)
    OBVIOUS
  <1>1. PICK q \in Nat : Residue(n) \in Residues /\ n = (Modulus * q) + Residue(n)
    BY Turns DEF Residue
  <1>2. Modulus \in Nat /\ Residue(n) \in Nat
    BY ModulusIsEven, ResidueType
  <1> HIDE DEF Modulus
  <1>3. n + Modulus = (Modulus * (q + 1)) + Residue(n)
    BY <1>1, <1>2
  <1>4. ((Modulus * (q + 1)) + Residue(n)) % Modulus = Residue(n)
    BY <1>1, ResidueIsUnique
  <1> QED BY <1>3, <1>4 DEF Residue

\* The number of the message before n, which has none when n is 0.
Before(n) == Residue(n + Modulus - 1)

LEMMA BeforeNumbers ==
    ASSUME NEW n \in Nat
    PROVE  /\ Before(n) \in Residues
           /\ \A i \in 1 .. Half - 1 : Plus(Before(n), i) = Residue(n + i - 1)
           /\ \A i \in 0 .. Half - 1 : Plus(Before(n), i) = Before(n + i)
           /\ n > 0 => Before(n) = Residue(n - 1)
  <1>1. Modulus \in Nat /\ n + Modulus - 1 \in Nat
    BY ModulusIsEven
  <1>2. Before(n) \in Residues
    BY <1>1, ResidueType DEF Before
  <1>3. \A i \in 0 .. Half - 1 : Plus(Before(n), i) = Residue(n + Modulus - 1 + i)
    BY <1>1, PlusResidue DEF Before
  <1>4. \A i \in 1 .. Half - 1 : Plus(Before(n), i) = Residue(n + i - 1)
    <2> SUFFICES ASSUME NEW i \in 1 .. Half - 1 PROVE Plus(Before(n), i) = Residue(n + i - 1)
      OBVIOUS
    <2>1. n + i - 1 \in Nat /\ n + Modulus - 1 + i = (n + i - 1) + Modulus /\ i \in 0 .. Half - 1
      BY <1>1, ModulusIsEven
    <2> QED BY <1>3, <2>1, ResidueOfTurn
  <1>5. \A i \in 0 .. Half - 1 : Plus(Before(n), i) = Before(n + i)
    <2> SUFFICES ASSUME NEW i \in 0 .. Half - 1 PROVE Plus(Before(n), i) = Before(n + i)
      OBVIOUS
    <2>1. n + Modulus - 1 + i = n + i + Modulus - 1
      BY <1>1
    <2> QED BY <1>3, <2>1 DEF Before
  <1>6. n > 0 => Before(n) = Residue(n - 1)
    <2>1. n > 0 => n - 1 \in Nat /\ n + Modulus - 1 = (n - 1) + Modulus
      BY <1>1
    <2> QED BY <2>1, ResidueOfTurn DEF Before
  <1> QED BY <1>2, <1>4, <1>5, <1>6

\* The order of numbers counted from before the first message.
LEMMA OrderBefore ==
    ASSUME NEW a \in Nat, NEW b \in Nat, a < b + Half, b < a + Half
    PROVE  /\ Lt(Residue(a), Residue(b)) <=> a < b
           /\ Lt(Before(a), Before(b)) <=> a < b
           /\ b + 1 < a + Half => /\ Lt(Before(a), Residue(b)) <=> a <= b
                                  /\ Lt(Residue(b), Before(a)) <=> b + 1 < a
  <1>1. Modulus \in Nat /\ Half \in Nat /\ Modulus = Half + Half /\ Half > 1
    BY ModulusIsEven
  <1> DEFINE p == a + Modulus - 1
             q == b + Modulus - 1
             t == b + Modulus
  <1>2. p \in Nat /\ q \in Nat /\ t \in Nat
    BY <1>1
  <1>3. Residue(t) = Residue(b)
    BY ResidueOfTurn
  <1>4. p < q + Half /\ q < p + Half /\ p < t + Half
    BY <1>1
  <1>5. (p < q <=> a < b) /\ (p < t <=> a <= b) /\ (t < p <=> b + 1 < a)
    BY <1>1
  <1>6. Lt(Residue(a), Residue(b)) <=> a < b
    BY CircularOrder DEF Residue
  <1>7. Lt(Residue(p), Residue(q)) <=> p < q
    <2> HIDE DEF p, q
    <2> QED BY <1>2, <1>4, CircularOrder DEF Residue
  <1>8. t < p + Half => (Lt(Residue(p), Residue(t)) <=> p < t) /\ (Lt(Residue(t), Residue(p)) <=> t < p)
    <2> HIDE DEF p, t
    <2> QED BY <1>2, <1>4, CircularOrder DEF Residue
  <1>9. t < p + Half <=> b + 1 < a + Half
    BY <1>1
  <1> QED BY <1>3, <1>5, <1>6, <1>7, <1>8, <1>9 DEF Before

\* The number before a message against the number of another.
LEMMA OrderMixed ==
    ASSUME NEW a \in Nat, NEW b \in Nat, a <= b + Half, b + 1 < a + Half
    PROVE  /\ Lt(Before(a), Residue(b)) <=> a <= b
           /\ Lt(Residue(b), Before(a)) <=> b + 1 < a
  <1>1. Modulus \in Nat /\ Half \in Nat /\ Modulus = Half + Half /\ Half > 1
    BY ModulusIsEven
  <1> DEFINE p == a + Modulus - 1
             t == b + Modulus
  <1>2. p \in Nat /\ t \in Nat /\ p < t + Half /\ t < p + Half
    BY <1>1
  <1>3. Residue(t) = Residue(b)
    BY ResidueOfTurn
  <1>4. (p < t <=> a <= b) /\ (t < p <=> b + 1 < a)
    BY <1>1
  <1>5. (Lt(Residue(p), Residue(t)) <=> p < t) /\ (Lt(Residue(t), Residue(p)) <=> t < p)
    <2> HIDE DEF p, t
    <2> QED BY <1>2, CircularOrder DEF Residue
  <1> QED BY <1>3, <1>4, <1>5 DEF Before

\* The residues of less than a turn of messages.
LEMMA ResiduesCount ==
    ASSUME NEW a \in Nat, NEW b \in Nat, a <= b, b - a < Modulus
    PROVE  /\ IsFiniteSet({Residue(n) : n \in a .. b - 1})
           /\ Cardinality({Residue(n) : n \in a .. b - 1}) = b - a
  <1> DEFINE N == a .. b - 1
             R == {Residue(n) : n \in N}
             f == [n \in N |-> Residue(n)]
  <1>1. IsFiniteSet(N) /\ Cardinality(N) = b - a
    <2>1. IsFiniteSet(N) /\ Cardinality(N) = IF a > b - 1 THEN 0 ELSE (b - 1) - a + 1
      BY FS_Interval
    <2> QED BY <2>1
  <1>2. \A m, n \in N : Residue(m) = Residue(n) => m = n
    <2> SUFFICES ASSUME NEW m \in N, NEW n \in N, m < n PROVE Residue(m) # Residue(n)
      OBVIOUS
    <2>1. m \in Nat /\ n \in Nat /\ n - m < Modulus
      BY ModulusIsEven
    <2> QED BY <2>1, ResiduesDiffer
  <1>3. f \in Bijection(N, R)
    <2>1. f \in [N -> R] /\ \A n \in N : f[n] = Residue(n)
      OBVIOUS
    <2>2. \A r \in R : \E n \in N : f[n] = r
      OBVIOUS
    <2> HIDE DEF f, N, R
    <2>3. \A m, n \in N : f[m] = f[n] => m = n
      BY <1>2, <2>1
    <2> QED BY <2>1, <2>2, <2>3 DEF Bijection, Injection, Surjection, IsInjective
  <1>4. ExistsBijection(N, R)
    BY <1>3 DEF ExistsBijection
  <1> HIDE DEF N, R
  <1>5. IsFiniteSet(R) /\ Cardinality(R) = Cardinality(N)
    BY <1>1, <1>4, FS_Bijection
  <1> QED BY <1>1, <1>5 DEF R, N

\* Numbers below a bound have a greatest one.
LEMMA GreatestNumber == ASSUME NEW N \in Nat, NEW S \in SUBSET (0 .. N), S # {} PROVE Max(S) \in S
  <1> DEFINE Above(k) == k + 1 .. N
             T == {Above(k) : k \in S}
  <1>1. \A k \in S : Above(k) \subseteq Nat /\ IsFiniteSet(Above(k))
    BY FS_Interval
  <1>2. T \subseteq FiniteSubsetsOf(Nat) /\ T # {}
    BY <1>1 DEF FiniteSubsetsOf
  <1> DEFINE R == StrictSubsetOrdering(Nat)
  <1>3. PICK B \in T : \A C \in T : ~ (<<C, B>> \in R)
    <2>1. IsWellFoundedOn(R, FiniteSubsetsOf(Nat))
      BY FS_StrictSubsetOrderingWellFounded
    <2> HIDE DEF R, T
    <2> QED BY <1>2, <2>1, WFMin
  <1>4. PICK x \in S : B = Above(x)
    BY <1>3
  <1>5. ASSUME NEW y \in S, ~(x >= y) PROVE FALSE
    <2>1. x \in 0 .. N /\ y \in 0 .. N /\ x < y
      BY <1>5
    <2>2. y \in Above(x) /\ y \notin Above(y) /\ Above(y) \subseteq Above(x)
      BY <2>1
    <2>3. <<Above(y), Above(x)>> \in R
      BY <1>1, <2>1, <2>2 DEF StrictSubsetOrdering
    <2>4. Above(y) \in T
      OBVIOUS
    <2> HIDE DEF R, T, Above
    <2> QED BY <1>3, <1>4, <2>3, <2>4
  <1> QED BY <1>5 DEF Max

-----------------------------------------------------------------------------
(* The reliable stream in absolute numbers                                 *)

\* The first message not pushed yet, and the first not handed over yet.
PushedTo == base + pushed
HandedTo == base + Len(handed)

\* The packet carries the number of message f, and is younger than the
\* numbers take to come round.
SentFor(packet, f) ==
    /\ packet.first = Residue(f)
    /\ packet.sentAt \in 0 .. pushed
    /\ base + packet.sentAt <= f + MaxOutstanding
    /\ pushed - packet.sentAt < Half - MaxOutstanding

\* The sender keeps the messages from u on, and has sent those before s.  What
\* it announces as its first message the receiver has.
Sender(u, s) ==
    /\ base <= u /\ u <= s /\ s <= PushedTo
    /\ PushedTo - u <= MaxOutstanding
    /\ u <= HandedTo
    /\ last_unacked = Before(PushedTo) /\ last_sent = Before(s) /\ first_unacked = Residue(u)
    /\ messages = [r \in DOMAIN messages |-> messages[r]]
    /\ DOMAIN messages = {Residue(n) : n \in u .. PushedTo - 1}
    /\ \A n \in u .. PushedTo - 1 : messages[Residue(n)] = n
    /\ \A h \in heartbeats : \E f \in base .. u : SentFor(h, f)

\* What waits at the receiver lies in the window after the message m.
Waits(map, m) ==
    \A r \in DOMAIN map :
        \E n \in m .. m + Depth - 1 : n < PushedTo /\ r = Residue(n) /\ map[r] = n

Receiver ==
    /\ handed \in Seq(Nat) /\ Len(handed) <= pushed
    /\ \A i \in 1 .. Len(handed) : handed[i] = base + i - 1
    /\ last_handled = Before(HandedTo) /\ last_announced \in Residues
    /\ Waits(in_messages, HandedTo)

Network ==
    /\ \A n \in data : n \in base .. PushedTo - 1 /\ PushedTo - n <= Half
    /\ heartbeats \subseteq Control
    /\ \A a \in acknacks : /\ a.nacks \subseteq 0 .. NackBits - 1
                           /\ \E f \in base .. HandedTo : SentFor(a, f)

StreamIInv ==
    /\ base \in Bases /\ pushed \in 0 .. MaxPackets
    /\ Receiver /\ Network
    /\ \E u, s \in Nat : Sender(u, s)

\* What the constants say of each other.
LEMMA StreamNumbers ==
    /\ Depth \in Nat /\ Depth > 0 /\ MaxFrags \in Nat /\ MaxFrags > 0
    /\ MaxOutstanding \in Nat /\ MaxOutstanding < Half /\ Depth <= MaxOutstanding
    /\ MaxFrags <= MaxOutstanding /\ MaxOutstanding = Depth - 1 + MaxFrags
    /\ Modulus \in Nat /\ Half \in Nat /\ Modulus = Half + Half /\ Half > 1
    /\ Bases \subseteq Nat /\ MaxPackets \in Nat
  BY StreamAssumption, ModulusIsEven DEF MaxOutstanding

LEMMA StreamStart == StreamInit => StreamIInv
  <1> SUFFICES ASSUME StreamInit PROVE StreamIInv
    OBVIOUS
  <1>1. base \in Nat /\ PushedTo = base /\ HandedTo = base
    BY StreamNumbers DEF StreamInit, PushedTo, HandedTo
  <1>2. Sender(base, base)
    <2>1. base .. PushedTo - 1 = {}
      BY <1>1
    <2>2. Residue(base + Modulus - 1) = Before(base)
      BY DEF Before
    <2>3. DOMAIN messages = {}
      BY DEF StreamInit, NoMessages
    <2>4. PushedTo - base <= MaxOutstanding
      BY <1>1, StreamNumbers
    <2> QED BY <1>1, <2>1, <2>2, <2>3, <2>4 DEF Sender, StreamInit
  <1>3. Receiver
    <2>1. Before(base) \in Residues /\ last_handled = Before(base) /\ last_announced = Before(base)
      BY <1>1, BeforeNumbers DEF StreamInit, Before
    <2>2. DOMAIN in_messages = {}
      BY DEF StreamInit, NoMessages
    <2> QED BY <1>1, <2>1, <2>2 DEF Receiver, StreamInit, Waits
  <1>4. Network
    BY DEF Network, StreamInit
  <1>5. base \in Bases /\ pushed \in 0 .. MaxPackets
    BY StreamNumbers DEF StreamInit
  <1> QED BY <1>1, <1>2, <1>3, <1>4, <1>5 DEF StreamIInv

\* What every step relies on.
LEMMA Located ==
    ASSUME StreamIInv
    PROVE  /\ base \in Nat /\ pushed \in Nat /\ PushedTo \in Nat /\ HandedTo \in Nat
           /\ base <= HandedTo /\ HandedTo <= PushedTo
           /\ PushedTo - HandedTo <= MaxOutstanding
  <1>1. base \in Nat /\ pushed \in Nat /\ Len(handed) \in Nat /\ Len(handed) <= pushed
    BY StreamNumbers DEF StreamIInv, Receiver
  <1>2. PICK u, s \in Nat : Sender(u, s)
    BY DEF StreamIInv
  <1>3. PushedTo - u <= MaxOutstanding /\ u <= HandedTo
    BY <1>2 DEF Sender
  <1> QED BY <1>1, <1>3, StreamNumbers DEF PushedTo, HandedTo

\* A packet that is sent now.
LEMMA SentNow ==
    ASSUME StreamIInv, NEW packet, NEW f \in Nat, packet.first = Residue(f), packet.sentAt = pushed,
           PushedTo <= f + MaxOutstanding
    PROVE  SentFor(packet, f)
  BY Located, StreamNumbers DEF SentFor, PushedTo

\* The numbers of the sender and the receiver lie within half a turn.
LEMMA SenderNumbers ==
    ASSUME StreamIInv, NEW u \in Nat, NEW s \in Nat, Sender(u, s)
    PROVE  /\ base <= u /\ u <= s /\ s <= PushedTo /\ u <= HandedTo
           /\ PushedTo - u <= MaxOutstanding
           /\ window_open <=> PushedTo < u + Depth
           /\ Lt(last_sent, last_unacked) <=> s < PushedTo
           /\ Plus(last_sent, 1) = Residue(s)
  <1>1. base <= u /\ u <= s /\ s <= PushedTo /\ u <= HandedTo /\ PushedTo - u <= MaxOutstanding
    BY DEF Sender
  <1>2. PushedTo \in Nat
    BY Located
  <1> DEFINE P == PushedTo
             b == u + Depth - 1
  <1>3. b \in Nat /\ P < b + Half /\ b < P + Half /\ b + 1 < P + Half
    BY <1>1, <1>2, StreamNumbers
  <1>4. Plus(first_unacked, Depth - 1) = Residue(b)
    <2>1. Depth - 1 \in 0 .. Half - 1 /\ u + (Depth - 1) = b
      BY StreamNumbers
    <2> QED BY <2>1, PlusResidue DEF Sender
  <1>5. Lt(Before(P), Residue(b)) <=> P <= b
    <2> HIDE DEF P, b
    <2> QED BY <1>2, <1>3, OrderBefore DEF P
  <1>6. window_open <=> P <= b
    BY <1>4, <1>5 DEF window_open, Sender
  <1>7. window_open <=> PushedTo < u + Depth
    BY <1>2, <1>6, StreamNumbers
  <1>8. Lt(Before(s), Before(P)) <=> s < P
    <2>1. s < P + Half /\ P < s + Half
      BY <1>1, <1>2, StreamNumbers
    <2> HIDE DEF P
    <2> QED BY <1>2, <2>1, OrderBefore DEF P
  <1>9. Plus(Before(s), 1) = Residue(s)
    <2>1. 1 \in 1 .. Half - 1 /\ s + 1 - 1 = s
      BY StreamNumbers
    <2> QED BY <2>1, BeforeNumbers
  <1> QED BY <1>1, <1>7, <1>8, <1>9 DEF Sender

\* Packets that stay in flight while messages are pushed.
LEMMA StillFresh ==
    ASSUME StreamIInv, NEW frags \in 1 .. MaxFrags, push_submessage(frags)
    PROVE  /\ Network'
           /\ \A u \in Nat : (\A h \in heartbeats : \E f \in base .. u : SentFor(h, f))
                 => \A h \in heartbeats' : \E f \in base .. u : SentFor(h, f)'
  <1>0. base \in Nat /\ pushed \in Nat /\ pushed' \in Nat /\ pushed <= pushed'
    BY Located, StreamNumbers DEF push_submessage
  <1>1. base \in Nat /\ pushed \in Nat /\ pushed' \in Nat /\ pushed <= pushed' /\ base' = base
    BY Located, StreamNumbers DEF push_submessage
  <1>2. /\ PushedTo \in Nat /\ PushedTo' \in Nat /\ PushedTo' = base + pushed'
        /\ PushedTo <= PushedTo' /\ HandedTo' = HandedTo
    BY <1>1 DEF PushedTo, HandedTo, push_submessage, input_stream
  <1>3. ASSUME NEW packet, NEW f \in Nat, SentFor(packet, f), FreshControl(packet)
        PROVE  SentFor(packet, f)'
    BY <1>1, <1>3 DEF SentFor, FreshControl
  <1>4. \A n \in data' : n \in base .. PushedTo' - 1 /\ PushedTo' - n <= Half
    <2> SUFFICES ASSUME NEW n \in data' PROVE n \in base .. PushedTo' - 1 /\ PushedTo' - n <= Half
      OBVIOUS
    <2>1. n \in data /\ FreshData(n)
      BY DEF push_submessage
    <2>2. n \in base .. PushedTo - 1
      BY <2>1 DEF StreamIInv, Network
    <2>3. base + pushed' - n <= Half
      BY <2>1 DEF FreshData
    <2>4. base <= n /\ n <= PushedTo - 1 /\ n \in Int
      BY <1>1, <1>2, <2>2
    <2>5. n <= PushedTo' - 1
      BY <1>2, <2>4
    <2>6. PushedTo' - n <= Half
      BY <1>0, <1>2, <2>3, <2>4
    <2> QED BY <1>2, <2>4, <2>5, <2>6, Located
  <1>5. heartbeats' \subseteq Control'
    <2>1. heartbeats' \subseteq heartbeats
      BY DEF push_submessage
    <2>2. Control \subseteq Control'
      BY <1>1 DEF Control
    <2> QED BY <2>1, <2>2 DEF StreamIInv, Network
  <1>6. \A a \in acknacks' : /\ a.nacks \subseteq 0 .. NackBits - 1
                             /\ \E f \in base .. HandedTo : SentFor(a, f)'
    <2> SUFFICES ASSUME NEW a \in acknacks'
                 PROVE  /\ a.nacks \subseteq 0 .. NackBits - 1
                        /\ \E f \in base .. HandedTo : SentFor(a, f)'
      OBVIOUS
    <2>1. a \in acknacks /\ FreshControl(a)
      BY DEF push_submessage
    <2>2. a.nacks \subseteq 0 .. NackBits - 1
      BY <2>1 DEF StreamIInv, Network
    <2>3. PICK f \in base .. HandedTo : SentFor(a, f)
      BY <2>1 DEF StreamIInv, Network
    <2>4. f \in Nat
      BY Located, <2>3
    <2> QED BY <1>3, <2>1, <2>2, <2>3, <2>4
  <1>7. Network'
    BY <1>1, <1>2, <1>4, <1>5, <1>6 DEF Network
  <1>8. ASSUME NEW u \in Nat, \A h \in heartbeats : \E f \in base .. u : SentFor(h, f),
               NEW h \in heartbeats'
        PROVE  \E f \in base .. u : SentFor(h, f)'
    <2>1. h \in heartbeats /\ FreshControl(h)
      BY DEF push_submessage
    <2>2. PICK f \in base .. u : SentFor(h, f)
      BY <1>8, <2>1
    <2>3. f \in Nat
      BY <1>1
    <2> QED BY <1>3, <2>1, <2>2, <2>3
  <1> QED BY <1>7, <1>8

\* What waits at the receiver may go on waiting.
LEMMA MoreWait ==
    ASSUME StreamIInv, HandedTo' = HandedTo, in_messages' = in_messages, PushedTo' \in Nat,
           PushedTo <= PushedTo'
    PROVE  Waits(in_messages, HandedTo)'
  <1> SUFFICES ASSUME NEW r \in DOMAIN in_messages
               PROVE  \E n \in HandedTo .. HandedTo + Depth - 1 :
                         n < PushedTo' /\ r = Residue(n) /\ in_messages[r] = n
    BY DEF Waits
  <1>1. PICK n \in HandedTo .. HandedTo + Depth - 1 :
             n < PushedTo /\ r = Residue(n) /\ in_messages[r] = n
    BY DEF StreamIInv, Receiver, Waits
  <1>2. n < PushedTo'
    BY <1>1, Located, StreamNumbers
  <1> QED BY <1>1, <1>2

\* push_submessage numbers what it is given from PushedTo on.
LEMMA PushKeeps ==
    ASSUME StreamIInv, NEW frags \in 1 .. MaxFrags, push_submessage(frags)
    PROVE  StreamIInv' /\ pushed' = pushed + frags /\ UNCHANGED <<base, handed>>
  <1>1. PICK u, s \in Nat : Sender(u, s)
    BY DEF StreamIInv
  <1> DEFINE P == PushedTo
             Q == PushedTo'
  <1>2. /\ base \in Nat /\ pushed \in Nat /\ P \in Nat /\ frags \in Nat /\ 1 <= frags /\ frags <= MaxFrags
        /\ base' = base /\ pushed' = pushed + frags /\ P = base + pushed /\ Q = P + frags
    BY Located, StreamNumbers DEF push_submessage, PushedTo
  <1>3. u <= s /\ s <= P /\ P < u + Depth /\ base <= u /\ u <= HandedTo
    BY <1>1, SenderNumbers DEF push_submessage
  <1>4. Q \in Nat /\ Q - u <= MaxOutstanding /\ s <= Q /\ P < Q
    BY <1>2, <1>3, StreamNumbers
  <1>5. \A i \in 1 .. frags : Plus(last_unacked, i) = Residue(P + i - 1)
    <2>1. \A i \in 1 .. frags : i \in 1 .. Half - 1
      BY <1>2, StreamNumbers
    <2> QED BY <1>1, <1>2, <2>1, BeforeNumbers DEF Sender
  <1>6. last_unacked' = Before(Q)
    <2>1. frags \in 0 .. Half - 1 /\ P + frags = Q
      BY <1>2, StreamNumbers
    <2> HIDE DEF P, Q
    <2>2. Plus(Before(P), frags) = Before(Q)
      BY <1>2, <2>1, BeforeNumbers
    <2> QED BY <1>1, <2>2 DEF Sender, push_submessage, P
  <1>7. DOMAIN messages' = {Residue(n) : n \in u .. Q - 1}
    <2>1. DOMAIN messages' = {Residue(n) : n \in u .. P - 1} \cup {Residue(P + i - 1) : i \in 1 .. frags}
      BY <1>1, <1>5 DEF push_submessage, Sender
    <2>2. ASSUME NEW n \in u .. Q - 1, ~(n \in u .. P - 1) PROVE \E i \in 1 .. frags : n = P + i - 1
      <3>1. n - P + 1 \in 1 .. frags /\ n = P + (n - P + 1) - 1
        BY <1>2, <1>3, <2>2
      <3> QED BY <3>1
    <2>3. \A i \in 1 .. frags : P + i - 1 \in u .. Q - 1
      BY <1>2, <1>3
    <2>4. u .. P - 1 \subseteq u .. Q - 1
      BY <1>2, <1>3
    <2> HIDE DEF P, Q
    <2> QED BY <2>1, <2>2, <2>3, <2>4
  <1>8. ASSUME NEW n \in u .. Q - 1 PROVE messages'[Residue(n)] = n
    <2>1. Residue(n) \in DOMAIN messages'
      BY <1>7
    <2>2. CASE n < P
      <3>1. n \in u .. P - 1
        BY <1>2, <1>3, <2>2
      <3>2. Residue(n) \in DOMAIN messages /\ messages[Residue(n)] = n
        BY <1>1, <3>1 DEF Sender
      <3> QED BY <2>1, <3>2 DEF push_submessage
    <2>3. CASE n >= P
      <3>1. Residue(n) \notin DOMAIN messages
        <4> SUFFICES ASSUME NEW m \in u .. P - 1 PROVE Residue(m) # Residue(n)
          BY <1>1 DEF Sender
        <4>1. m \in Nat /\ n \in Nat /\ m < n /\ n - m < Modulus
          BY <1>2, <1>3, <1>4, <2>3, StreamNumbers
        <4> QED BY <4>1, ResiduesDiffer
      <3>2. messages'[Residue(n)] = P + Minus(Residue(n), last_unacked) - 1
        BY <1>2, <2>1, <3>1 DEF push_submessage
      <3>3. Minus(Residue(n), last_unacked) = n - P + 1
        <4> DEFINE x == P + Modulus - 1
                   y == n + Modulus
        <4>1. x \in Nat /\ y \in Nat /\ x <= y /\ y - x < Modulus /\ y - x = n - P + 1 /\ n \in Nat
          BY <1>2, <1>3, <1>4, <2>3, StreamNumbers
        <4>2. Residue(y) = Residue(n) /\ Residue(x) = last_unacked
          BY <1>1, <4>1, ResidueOfTurn DEF Before, Sender
        <4> HIDE DEF x, y
        <4> QED BY <4>1, <4>2, MinusResidue
      <3> QED BY <1>2, <3>2, <3>3
    <2> QED BY <1>2, <2>2, <2>3
  <1>9. Network' /\ \A h \in heartbeats' : \E f \in base .. u : SentFor(h, f)'
    BY <1>1, StillFresh DEF Sender
  <1>10. Sender(u, s)'
    <2>1. last_sent' = Before(s) /\ first_unacked' = Residue(u) /\ HandedTo' = HandedTo
      BY <1>1 DEF Sender, push_submessage, HandedTo, input_stream
    <2>2. messages' = [r \in DOMAIN messages' |-> messages'[r]]
      BY DEF push_submessage
    <2> QED BY <1>2, <1>3, <1>4, <1>6, <1>7, <1>8, <1>9, <2>1, <2>2 DEF Sender
  <1>11. Receiver'
    <2>1. HandedTo' = HandedTo /\ UNCHANGED input_stream /\ base' = base
      BY DEF push_submessage, HandedTo, input_stream
    <2>2. Waits(in_messages, HandedTo)'
      BY <1>2, <1>4, <2>1, MoreWait DEF input_stream
    <2>3. Receiver /\ Len(handed) \in Nat
      BY DEF StreamIInv, Receiver
    <2>4. Len(handed) <= pushed'
      BY <1>2, <2>3 DEF Receiver
    <2> QED BY <2>1, <2>2, <2>3, <2>4 DEF Receiver, input_stream
  <1>12. base' \in Bases /\ pushed' \in 0 .. MaxPackets
    BY <1>2 DEF StreamIInv, push_submessage
  <1> QED BY <1>2, <1>9, <1>10, <1>11, <1>12 DEF StreamIInv, push_submessage, input_stream

\* What a step of one end leaves alone.
LEMMA ReceiverRests ==
    ASSUME StreamIInv, UNCHANGED <<base, pushed, input_stream>>
    PROVE  /\ Receiver' /\ base' \in Bases /\ pushed' \in 0 .. MaxPackets
           /\ PushedTo' = PushedTo /\ HandedTo' = HandedTo
           /\ \A packet, f : SentFor(packet, f) => SentFor(packet, f)'
  <1>1. PushedTo' = PushedTo /\ HandedTo' = HandedTo
    BY DEF PushedTo, HandedTo, input_stream
  <1>2. Waits(in_messages, HandedTo)'
    BY <1>1, Located, MoreWait DEF input_stream
  <1>3. Receiver'
    BY <1>1, <1>2 DEF Receiver, StreamIInv, input_stream
  <1>4. \A packet, f : SentFor(packet, f) => SentFor(packet, f)'
    BY DEF SentFor
  <1> QED BY <1>1, <1>3, <1>4 DEF StreamIInv

LEMMA SenderRests ==
    ASSUME StreamIInv, UNCHANGED <<base, pushed, output_stream>>, heartbeats' \subseteq heartbeats,
           HandedTo' \in Nat, HandedTo <= HandedTo'
    PROVE  /\ \E u, s \in Nat : Sender(u, s)'
           /\ base' \in Bases /\ pushed' \in 0 .. MaxPackets /\ PushedTo' = PushedTo
           /\ \A packet, f : SentFor(packet, f) => SentFor(packet, f)'
  <1>1. PushedTo' = PushedTo
    BY DEF PushedTo
  <1>2. PICK u, s \in Nat : Sender(u, s)
    BY DEF StreamIInv
  <1>3. \A packet, f : SentFor(packet, f) => SentFor(packet, f)'
    BY DEF SentFor
  <1>4. u <= HandedTo'
    BY <1>2, Located DEF Sender
  <1>5. \A h \in heartbeats' : \E f \in base .. u : SentFor(h, f)'
    BY <1>2, <1>3 DEF Sender
  <1>6. Sender(u, s)'
    BY <1>1, <1>2, <1>4, <1>5 DEF Sender, output_stream
  <1> QED BY <1>1, <1>3, <1>6 DEF StreamIInv

\* A message that get_next_message or an acknowledgement sends.
LEMMA SendsKept ==
    ASSUME StreamIInv, NEW u \in Nat, NEW s \in Nat, Sender(u, s), NEW r \in DOMAIN messages
    PROVE  messages[r] \in base .. PushedTo - 1 /\ PushedTo - messages[r] <= Half
  <1>1. PICK n \in u .. PushedTo - 1 : r = Residue(n)
    BY DEF Sender
  <1>2. messages[r] = n
    BY <1>1 DEF Sender
  <1>3. n \in base .. PushedTo - 1 /\ PushedTo - n <= Half
    BY <1>1, Located, SenderNumbers, StreamNumbers
  <1> QED BY <1>2, <1>3

LEMMA NextKeeps == ASSUME StreamIInv, get_next_message PROVE StreamIInv'
  <1>1. PICK u, s \in Nat : Sender(u, s)
    BY DEF StreamIInv
  <1>2. /\ s < PushedTo /\ u <= s /\ last_sent' = Residue(s) /\ PushedTo \in Nat /\ base <= u
    BY <1>1, SenderNumbers, Located DEF get_next_message
  <1>3. /\ Receiver' /\ base' \in Bases /\ pushed' \in 0 .. MaxPackets
        /\ PushedTo' = PushedTo /\ HandedTo' = HandedTo
        /\ \A packet, f : SentFor(packet, f) => SentFor(packet, f)'
    BY ReceiverRests DEF get_next_message
  <1>4. Before(s + 1) = Residue(s)
    <2>1. s + 1 \in Nat /\ s + 1 > 0 /\ s + 1 - 1 = s
      OBVIOUS
    <2> QED BY <2>1, BeforeNumbers
  <1>5. Sender(u, s + 1)'
    <2>1. s + 1 <= PushedTo /\ u <= s + 1
      BY <1>2
    <2>2. /\ UNCHANGED <<base, messages, last_unacked, first_unacked, heartbeats>>
      BY DEF get_next_message
    <2>3. \A h \in heartbeats' : \E f \in base .. u : SentFor(h, f)'
      BY <1>1, <1>3, <2>2 DEF Sender
    <2> QED BY <1>1, <1>2, <1>3, <1>4, <2>1, <2>2, <2>3 DEF Sender
  <1>6. Network'
    <2>1. last_sent' \in DOMAIN messages
      <3>1. s \in u .. PushedTo - 1
        BY <1>2
      <3> QED BY <1>1, <1>2, <3>1 DEF Sender
    <2>2. \A n \in data' : n \in base .. PushedTo - 1 /\ PushedTo - n <= Half
      BY <1>1, <2>1, SendsKept DEF get_next_message, StreamIInv, Network
    <2>3. UNCHANGED <<base, pushed, heartbeats, acknacks>>
      BY DEF get_next_message
    <2>4. heartbeats' \subseteq Control'
      BY <2>3 DEF StreamIInv, Network, Control
    <2>5. \A a \in acknacks' : /\ a.nacks \subseteq 0 .. NackBits - 1
                               /\ \E f \in base .. HandedTo : SentFor(a, f)'
      BY <1>3, <2>3 DEF StreamIInv, Network
    <2> QED BY <1>3, <2>2, <2>3, <2>4, <2>5 DEF Network
  <1>7. s + 1 \in Nat
    OBVIOUS
  <1> QED BY <1>3, <1>5, <1>6, <1>7 DEF StreamIInv

\* HEARTBEATs announce what the sender keeps from.
LEMMA HeartbeatKeeps == ASSUME StreamIInv, fill_heartbeat PROVE StreamIInv'
  <1>1. PICK u, s \in Nat : Sender(u, s)
    BY DEF StreamIInv
  <1> DEFINE h == [first |-> first_unacked, last |-> last_unacked, sentAt |-> pushed]
  <1>2. /\ Receiver' /\ base' \in Bases /\ pushed' \in 0 .. MaxPackets
        /\ PushedTo' = PushedTo /\ HandedTo' = HandedTo
        /\ \A packet, f : SentFor(packet, f) => SentFor(packet, f)'
    BY ReceiverRests DEF fill_heartbeat
  <1>3. heartbeats' \subseteq heartbeats \cup {h}
    BY DEF fill_heartbeat, Transmit
  <1>4. h \in Control
    <2>1. first_unacked \in Residues /\ last_unacked \in Residues
      BY <1>1, ResidueType, BeforeNumbers, Located DEF Sender
    <2>2. pushed \in 0 .. pushed
      BY Located
    <2> QED BY <2>1, <2>2 DEF Control
  <1>5. u \in base .. u /\ SentFor(h, u)
    <2>1. PushedTo <= u + MaxOutstanding /\ u \in base .. u
      BY <1>1, SenderNumbers, Located, StreamNumbers
    <2>2. h.first = Residue(u) /\ h.sentAt = pushed
      BY <1>1 DEF Sender
    <2> HIDE DEF h
    <2> QED BY <2>1, <2>2, SentNow
  <1> HIDE DEF h
  <1>6. UNCHANGED <<base, pushed, output_stream, data, acknacks>>
    BY DEF fill_heartbeat
  <1>7. Sender(u, s)'
    <2>1. \A p \in heartbeats' : \E f \in base .. u : SentFor(p, f)'
      BY <1>1, <1>2, <1>3, <1>5 DEF Sender
    <2> QED BY <1>1, <1>2, <1>6, <2>1 DEF Sender, output_stream
  <1>8. Network'
    <2>1. heartbeats' \subseteq Control'
      BY <1>3, <1>4, <1>6 DEF StreamIInv, Network, Control
    <2>2. \A a \in acknacks' : /\ a.nacks \subseteq 0 .. NackBits - 1
                               /\ \E f \in base .. HandedTo : SentFor(a, f)'
      BY <1>2, <1>6 DEF StreamIInv, Network
    <2> QED BY <1>2, <1>6, <2>1, <2>2 DEF StreamIInv, Network
  <1> QED BY <1>2, <1>7, <1>8 DEF StreamIInv

\* What an acknowledgement acknowledges.
LEMMA AcknackNumbers ==
    ASSUME StreamIInv, NEW u \in Nat, NEW s \in Nat, Sender(u, s), NEW a, NEW f \in Nat,
           SentFor(a, f), f <= HandedTo
    PROVE  /\ credible(a.first) <=> f <= s
           /\ u < f => /\ acked_by(a.first) = {Residue(n) : n \in u .. f - 1}
                       /\ Cardinality(acked_by(a.first)) = f - u
                       /\ Plus(first_unacked, f - u) = Residue(f)
           /\ f <= u => /\ acked_by(a.first) = {}
                        /\ Cardinality(acked_by(a.first)) = 0
                        /\ Plus(first_unacked, 0) = Residue(u)
  <1> DEFINE P == PushedTo
  <1>1. /\ u <= s /\ s <= P /\ P <= u + MaxOutstanding /\ u <= HandedTo /\ HandedTo <= P
        /\ P \in Nat /\ HandedTo \in Nat
    BY SenderNumbers, Located, StreamNumbers
  <1>2. P < f + Half
    <2>1. base \in Nat /\ pushed \in Nat /\ a.sentAt \in Nat /\ P = base + pushed
      BY Located DEF SentFor, PushedTo
    <2>2. base + a.sentAt <= f + MaxOutstanding /\ pushed - a.sentAt < Half - MaxOutstanding
      BY DEF SentFor
    <2> HIDE DEF P
    <2> QED BY <2>1, <2>2, StreamNumbers
  <1>3. /\ s < f + Half /\ f < s + Half /\ u < f + Half /\ f < u + Half
    BY <1>1, <1>2, StreamNumbers
  <1>4. a.first = Residue(f) /\ first_unacked = Residue(u) /\ Plus(last_sent, 1) = Residue(s)
    BY SenderNumbers DEF SentFor, Sender
  <1>5. credible(a.first) <=> f <= s
    <2>1. Lt(Residue(s), Residue(f)) <=> s < f
      BY <1>3, OrderBefore
    <2> QED BY <1>4, <2>1 DEF credible, Le, Gt
  <1>6. Gt(a.first, first_unacked) <=> u < f
    <2>1. Lt(Residue(u), Residue(f)) <=> u < f
      BY <1>3, OrderBefore
    <2> QED BY <1>4, <2>1 DEF Gt
  <1>7. ASSUME u < f
        PROVE  /\ acked_by(a.first) = {Residue(n) : n \in u .. f - 1}
               /\ Cardinality(acked_by(a.first)) = f - u
               /\ Plus(first_unacked, f - u) = Residue(f)
    <2>1. f - u \in 0 .. Half - 1 /\ u + (f - u) = f /\ f - u < Modulus /\ u <= f
      BY <1>3, <1>7, StreamNumbers
    <2>2. Minus(a.first, first_unacked) = f - u
      BY <1>4, <2>1, MinusResidue
    <2>3. \A i \in 0 .. f - u - 1 : Plus(first_unacked, i) = Residue(u + i)
      <3>1. \A i \in 0 .. f - u - 1 : i \in 0 .. Half - 1
        BY <2>1, StreamNumbers
      <3> QED BY <1>4, <3>1, PlusResidue
    <2>4. acked_by(a.first) = {Residue(u + i) : i \in 0 .. f - u - 1}
      BY <1>6, <1>7, <2>2, <2>3 DEF acked_by
    <2>5. {Residue(u + i) : i \in 0 .. f - u - 1} = {Residue(n) : n \in u .. f - 1}
      <3>1. \A i \in 0 .. f - u - 1 : u + i \in u .. f - 1
        OBVIOUS
      <3>2. \A n \in u .. f - 1 : n - u \in 0 .. f - u - 1 /\ u + (n - u) = n
        OBVIOUS
      <3> QED BY <3>1, <3>2
    <2>6. Cardinality({Residue(n) : n \in u .. f - 1}) = f - u
      BY <2>1, ResiduesCount
    <2>7. Plus(Residue(u), f - u) = Residue(f)
      BY <2>1, PlusResidue
    <2> QED BY <1>4, <2>4, <2>5, <2>6, <2>7
  <1>8. ASSUME f <= u
        PROVE  /\ acked_by(a.first) = {}
               /\ Cardinality(acked_by(a.first)) = 0
               /\ Plus(first_unacked, 0) = Residue(u)
    <2>1. acked_by(a.first) = {}
      BY <1>6, <1>8 DEF acked_by
    <2>2. Plus(Residue(u), 0) = Residue(u)
      <3>1. 0 \in 0 .. Half - 1 /\ u + 0 = u
        BY StreamNumbers
      <3> QED BY <3>1, PlusResidue
    <2> QED BY <1>4, <2>1, <2>2, FS_EmptySet
  <1> QED BY <1>5, <1>7, <1>8

\* process_acknack moves the window to the acknowledged message, which the
\* receiver has, and never back.
LEMMA AcknackKeeps ==
    ASSUME StreamIInv, NEW a \in acknacks, process_acknack(a) PROVE StreamIInv'
  <1>1. PICK u, s \in Nat : Sender(u, s)
    BY DEF StreamIInv
  <1>2. PICK f \in base .. HandedTo : SentFor(a, f)
    BY DEF StreamIInv, Network
  <1>3. f \in Nat /\ f <= HandedTo /\ base <= f
    BY Located
  <1>4. /\ Receiver' /\ base' \in Bases /\ pushed' \in 0 .. MaxPackets
        /\ PushedTo' = PushedTo /\ HandedTo' = HandedTo
        /\ \A packet, g : SentFor(packet, g) => SentFor(packet, g)'
    BY ReceiverRests DEF process_acknack
  <1>5. UNCHANGED <<base, pushed, last_unacked, last_sent, input_stream, heartbeats>>
    BY DEF process_acknack
  <1>6. \E v \in Nat : Sender(v, s)'
    <2>1. CASE credible(a.first) /\ u < f
      <3>1. /\ f <= s /\ messages' = Erase(messages, {Residue(n) : n \in u .. f - 1})
            /\ first_unacked' = Residue(f)
        <4>1. /\ f <= s /\ acked_by(a.first) = {Residue(n) : n \in u .. f - 1}
              /\ Plus(first_unacked, Cardinality(acked_by(a.first))) = Residue(f)
          <5>1. /\ credible(a.first) <=> f <= s
                /\ u < f => /\ acked_by(a.first) = {Residue(n) : n \in u .. f - 1}
                            /\ Cardinality(acked_by(a.first)) = f - u
                            /\ Plus(first_unacked, f - u) = Residue(f)
            BY <1>1, <1>2, <1>3, AcknackNumbers
          <5> QED BY <2>1, <5>1
        <4>2. /\ messages' = Erase(messages, acked_by(a.first))
              /\ first_unacked' = Plus(first_unacked, Cardinality(acked_by(a.first)))
          BY <2>1 DEF process_acknack, update_from_acknack
        <4> QED BY <4>1, <4>2
      <3>2. /\ u <= s /\ s <= PushedTo /\ PushedTo - u <= MaxOutstanding /\ PushedTo \in Nat /\ base <= u
            /\ base \in Nat
        BY <1>1, SenderNumbers, Located
      <3>3. PushedTo - f <= MaxOutstanding /\ base <= f
        BY <1>3, <2>1, <3>2, StreamNumbers
      <3>4. \A m \in u .. f - 1, n \in f .. PushedTo - 1 : Residue(m) # Residue(n)
        <4> SUFFICES ASSUME NEW m \in u .. f - 1, NEW n \in f .. PushedTo - 1 PROVE Residue(m) # Residue(n)
          OBVIOUS
        <4>1. m \in Nat /\ n \in Nat /\ m < n /\ n - m < Modulus
          BY <1>3, <3>2, StreamNumbers
        <4> QED BY <4>1, ResiduesDiffer
      <3>5. u .. PushedTo - 1 = (u .. f - 1) \cup (f .. PushedTo - 1)
        BY <1>3, <2>1, <3>1, <3>2
      <3>6. DOMAIN messages = {Residue(n) : n \in u .. PushedTo - 1}
        BY <1>1 DEF Sender
      <3>7. DOMAIN messages' = {Residue(n) : n \in f .. PushedTo - 1}
        <4>1. DOMAIN messages' = DOMAIN messages \ {Residue(n) : n \in u .. f - 1}
          BY <3>1 DEF Erase
        <4> QED BY <3>4, <3>5, <3>6, <4>1
      <3>8. \A n \in f .. PushedTo - 1 : messages'[Residue(n)] = n
        <4> SUFFICES ASSUME NEW n \in f .. PushedTo - 1 PROVE messages'[Residue(n)] = n
          OBVIOUS
        <4>1. messages[Residue(n)] = n
          BY <1>1, <3>5 DEF Sender
        <4>2. Residue(n) \in DOMAIN messages \ {Residue(m) : m \in u .. f - 1}
          BY <3>4, <3>5, <3>6
        <4> QED BY <3>1, <4>1, <4>2 DEF Erase
      <3>9. \A h \in heartbeats' : \E g \in base .. f : SentFor(h, g)'
        <4> SUFFICES ASSUME NEW h \in heartbeats PROVE \E g \in base .. f : SentFor(h, g)
          BY <1>4, <1>5
        <4>1. PICK g \in base .. u : SentFor(h, g)
          BY <1>1 DEF Sender
        <4>2. g \in base .. f
          BY <1>3, <2>1, <3>2
        <4> QED BY <4>1, <4>2
      <3>10. messages' = [r \in DOMAIN messages' |-> messages'[r]]
        BY <3>1 DEF Erase
      <3>11. Sender(f, s)'
        BY <1>1, <1>3, <1>4, <1>5, <3>1, <3>2, <3>3, <3>7, <3>8, <3>9, <3>10 DEF Sender
      <3> QED BY <1>3, <3>11
    <2>2. CASE ~(credible(a.first) /\ u < f)
      <3>1. messages' = messages /\ first_unacked' = first_unacked
        <4>1. CASE ~credible(a.first)
          BY <4>1 DEF process_acknack, update_from_acknack
        <4>2. CASE credible(a.first)
          <5>1. f <= u
            BY <1>3, <2>2, <4>2
          <5>2. messages' = Erase(messages, {}) /\ first_unacked' = Residue(u)
            BY <1>1, <1>2, <1>3, <4>2, <5>1, AcknackNumbers DEF process_acknack, update_from_acknack
          <5>3. messages = [q \in DOMAIN messages |-> messages[q]]
            BY <1>1 DEF Sender
          <5> QED BY <1>1, <5>2, <5>3 DEF Sender, Erase
        <4> QED BY <4>1, <4>2
      <3>2. \A h \in heartbeats' : \E g \in base .. u : SentFor(h, g)'
        BY <1>1, <1>4, <1>5 DEF Sender
      <3>3. Sender(u, s)'
        BY <1>1, <1>4, <1>5, <3>1, <3>2 DEF Sender
      <3> QED BY <3>3
    <2> QED BY <2>1, <2>2
  <1>7. Network'
    <2>1. \A n \in data' : n \in base .. PushedTo - 1 /\ PushedTo - n <= Half
      BY <1>1, SendsKept DEF process_acknack, StreamIInv, Network
    <2>2. heartbeats' \subseteq Control'
      BY <1>5 DEF StreamIInv, Network, Control
    <2>3. acknacks' \subseteq acknacks
      BY DEF process_acknack, Received
    <2>4. \A b \in acknacks' : /\ b.nacks \subseteq 0 .. NackBits - 1
                               /\ \E g \in base .. HandedTo : SentFor(b, g)'
      BY <1>4, <2>3 DEF StreamIInv, Network
    <2> QED BY <1>4, <1>5, <2>1, <2>2, <2>4 DEF Network
  <1> QED BY <1>4, <1>6, <1>7 DEF StreamIInv

-----------------------------------------------------------------------------
(* The receiver                                                            *)

\* The window of push_message in absolute numbers.
LEMMA WindowNumbers ==
    ASSUME StreamIInv, NEW n \in data
    PROVE  /\ n \in Nat /\ n < PushedTo
           /\ in_window(Residue(n)) <=> (HandedTo <= n /\ n < HandedTo + Depth)
  <1> DEFINE H == HandedTo
             P == PushedTo
  <1>1. /\ H \in Nat /\ P \in Nat /\ base \in Nat /\ H <= P /\ P <= H + MaxOutstanding
    BY Located, StreamNumbers
  <1>2. n \in Nat /\ n < P /\ P <= n + Half
    <2>1. n \in base .. PushedTo - 1 /\ PushedTo - n <= Half
      BY DEF StreamIInv, Network
    <2> QED BY <1>1, <2>1, StreamNumbers
  <1>3. last_handled = Before(H)
    BY DEF StreamIInv, Receiver
  <1> HIDE DEF H, P
  <1>4. Lt(Before(H), Residue(n)) <=> H <= n
    <2>1. H <= n + Half /\ n + 1 < H + Half
      BY <1>1, <1>2, StreamNumbers
    <2> QED BY <1>1, <1>2, <2>1, OrderMixed
  <1>5. Plus(Before(H), Depth) = Before(H + Depth)
    <2>1. Depth \in 0 .. Half - 1
      BY StreamNumbers
    <2> QED BY <1>1, <2>1, BeforeNumbers
  <1>6. H <= n => (Lt(Before(H + Depth), Residue(n)) <=> H + Depth <= n)
    <2> SUFFICES ASSUME H <= n PROVE Lt(Before(H + Depth), Residue(n)) <=> H + Depth <= n
      OBVIOUS
    <2>1. H + Depth \in Nat /\ H + Depth <= n + Half /\ n + 1 < H + Depth + Half
      BY <1>1, <1>2, StreamNumbers
    <2> QED BY <1>2, <2>1, OrderMixed
  <1>7. in_window(Residue(n)) <=> H <= n /\ ~(H + Depth <= n)
    BY <1>3, <1>4, <1>5, <1>6 DEF in_window, Gt, Le
  <1>8. ~(H + Depth <= n) <=> n < H + Depth
    BY <1>1, <1>2, StreamNumbers
  <1> QED BY <1>2, <1>7, <1>8 DEF H, P

\* The map with the message that arrived.
LEMMA KeptWaits ==
    ASSUME StreamIInv, NEW n \in data
    PROVE  Waits(IF in_window(Residue(n)) THEN Insert(in_messages, Residue(n), n) ELSE in_messages, HandedTo)
  <1>1. Waits(in_messages, HandedTo)
    BY DEF StreamIInv, Receiver
  <1>2. CASE in_window(Residue(n)) /\ Residue(n) \notin DOMAIN in_messages
    <2> DEFINE kept == [q \in DOMAIN in_messages \cup {Residue(n)} |->
                           IF q = Residue(n) THEN n ELSE in_messages[q]]
    <2>1. n \in HandedTo .. HandedTo + Depth - 1 /\ n < PushedTo
      <3>1. n \in Nat /\ n < PushedTo /\ HandedTo <= n /\ n < HandedTo + Depth
        BY <1>2, WindowNumbers
      <3> QED BY <3>1, Located, StreamNumbers
    <2>2. Waits(kept, HandedTo)
      BY <1>1, <2>1 DEF Waits
    <2> QED BY <1>2, <2>2 DEF Insert
  <1>3. CASE ~(in_window(Residue(n)) /\ Residue(n) \notin DOMAIN in_messages)
    BY <1>1, <1>3 DEF Insert
  <1> QED BY <1>2, <1>3

\* What the pop_message loop takes are the messages from HandedTo on.
LEMMA PopsInOrder ==
    ASSUME StreamIInv, NEW kept, Waits(kept, HandedTo)
    PROVE  LET k == poppable(kept)
           IN  /\ k \in 0 .. Depth
               /\ \A i \in 1 .. k : /\ Plus(last_handled, i) = Residue(HandedTo + i - 1)
                                    /\ kept[Plus(last_handled, i)] = HandedTo + i - 1
               /\ Plus(last_handled, k) = Before(HandedTo + k)
               /\ HandedTo + k <= PushedTo
  <1> DEFINE H == HandedTo
             P == PushedTo
             k == poppable(kept)
             W == H .. H + Depth - 1
             S == {j \in 0 .. Cardinality(DOMAIN kept) : \A i \in 1 .. j : Plus(last_handled, i) \in DOMAIN kept}
  <1>1. H \in Nat /\ P \in Nat /\ H <= P
    BY Located
  <1>2. Cardinality(DOMAIN kept) \in 0 .. Depth
    <2> DEFINE R == {Residue(m) : m \in W}
    <2>1. DOMAIN kept \subseteq R
      BY DEF Waits
    <2>2. IsFiniteSet(R) /\ Cardinality(R) = Depth
      <3> DEFINE b == H + Depth
      <3>1. b \in Nat /\ H <= b /\ b - H < Modulus /\ b - H = Depth
        BY <1>1, StreamNumbers
      <3> HIDE DEF b, H
      <3>2. IsFiniteSet({Residue(m) : m \in H .. b - 1}) /\ Cardinality({Residue(m) : m \in H .. b - 1}) = Depth
        BY <1>1, <3>1, ResiduesCount
      <3>3. W = H .. b - 1
        BY <1>1, StreamNumbers DEF b
      <3> HIDE DEF W
      <3> QED BY <3>2, <3>3
    <2> HIDE DEF R
    <2>3. IsFiniteSet(DOMAIN kept) /\ Cardinality(DOMAIN kept) <= Cardinality(R)
      BY <2>1, <2>2, FS_Subset
    <2>4. Cardinality(DOMAIN kept) \in Nat
      BY <2>3, FS_CardinalityType
    <2> QED BY <2>2, <2>3, <2>4, StreamNumbers
  <1>3. k \in S
    <2> DEFINE N == Cardinality(DOMAIN kept)
    <2>1. N \in Nat /\ 0 \in S
      BY <1>2
    <2>2. S \in SUBSET (0 .. N) /\ S # {}
      BY <2>1
    <2>3. k = Max(S)
      BY DEF poppable
    <2> HIDE DEF S, N, k
    <2> QED BY <2>1, <2>2, <2>3, GreatestNumber
  <1>4. k \in 0 .. Depth /\ \A i \in 1 .. k : Plus(last_handled, i) \in DOMAIN kept
    <2> HIDE DEF k
    <2> QED BY <1>2, <1>3, StreamNumbers
  <1>5. last_handled = Before(H)
    BY DEF StreamIInv, Receiver
  <1> HIDE DEF k, S, H, P
  <1>6. \A i \in 1 .. k : Plus(last_handled, i) = Residue(H + i - 1)
    <2>1. \A i \in 1 .. k : i \in 1 .. Half - 1
      BY <1>4, StreamNumbers
    <2> QED BY <1>1, <1>5, <2>1, BeforeNumbers
  <1>7. ASSUME NEW i \in 1 .. k PROVE kept[Plus(last_handled, i)] = H + i - 1 /\ H + i - 1 < P
    <2>1. Residue(H + i - 1) \in DOMAIN kept
      BY <1>4, <1>6
    <2>2. PICK m \in H .. H + Depth - 1 : /\ m < P /\ Residue(H + i - 1) = Residue(m)
                                          /\ kept[Residue(H + i - 1)] = m
      BY <2>1 DEF Waits, H, P
    <2>3. /\ m \in Nat /\ H + i - 1 \in Nat
          /\ m - (H + i - 1) < Modulus /\ (H + i - 1) - m < Modulus
      BY <1>1, <1>4, StreamNumbers
    <2>4. m = H + i - 1
      <3> DEFINE j == H + i - 1
      <3>1. ~(m < j) /\ ~(j < m)
        <4> HIDE DEF j
        <4> QED BY <2>2, <2>3, ResiduesDiffer DEF j
      <3> QED BY <2>3, <3>1
    <2> QED BY <1>6, <2>2, <2>4
  <1>8. Plus(last_handled, k) = Before(H + k)
    <2>1. k \in 0 .. Half - 1
      BY <1>4, StreamNumbers
    <2> QED BY <1>1, <1>5, <2>1, BeforeNumbers
  <1>9. H + k <= P
    <2>1. CASE k = 0
      BY <1>1, <2>1
    <2>2. CASE k # 0
      <3>1. k \in 1 .. k
        BY <1>4, <2>2, StreamNumbers
      <3>2. H + k - 1 < P
        BY <1>7, <3>1
      <3> QED BY <1>1, <1>4, <3>2, StreamNumbers
    <2> QED BY <2>1, <2>2
  <1>10. k \in 0 .. Depth
    BY <1>4
  <1> QED BY <1>6, <1>7, <1>8, <1>9, <1>10 DEF H, P, k

\* An ACKNACK asks for what follows the messages handed over.
LEMMA AcknackSent ==
    ASSUME StreamIInv, NEW H \in Nat, HandedTo <= H, H <= PushedTo, NEW kept, NEW announced
    PROVE  LET a == fill_acknack(kept, Before(H), announced)
           IN  SentFor(a, H) /\ a.nacks \subseteq 0 .. NackBits - 1
  <1> DEFINE a == fill_acknack(kept, Before(H), announced)
  <1>1. Plus(Before(H), 1) = Residue(H)
    <2>1. 1 \in 1 .. Half - 1 /\ H + 1 - 1 = H
      BY StreamNumbers
    <2> QED BY <2>1, BeforeNumbers
  <1>2. a.first = Residue(H) /\ a.sentAt = pushed /\ a.nacks \subseteq 0 .. NackBits - 1
    BY <1>1 DEF fill_acknack
  <1>3. PushedTo <= H + MaxOutstanding
    BY Located, StreamNumbers
  <1> HIDE DEF a
  <1>4. SentFor(a, H)
    BY <1>2, <1>3, SentNow
  <1> QED BY <1>2, <1>4 DEF a

\* The network after a step of the receiver.
LEMMA NetworkRests ==
    ASSUME StreamIInv, UNCHANGED <<base, pushed>>, data' \subseteq data, heartbeats' \subseteq heartbeats,
           HandedTo' \in Nat, HandedTo <= HandedTo',
           \A a \in acknacks' \ acknacks : SentFor(a, HandedTo') /\ a.nacks \subseteq 0 .. NackBits - 1
    PROVE  Network'
  <1>1. PushedTo' = PushedTo /\ Control' = Control
    BY DEF PushedTo, Control
  <1>2. \A packet, f : SentFor(packet, f) => SentFor(packet, f)'
    BY DEF SentFor
  <1>3. \A a \in acknacks' : /\ a.nacks \subseteq 0 .. NackBits - 1
                             /\ \E f \in base .. HandedTo' : SentFor(a, f)'
    <2> SUFFICES ASSUME NEW a \in acknacks'
                 PROVE  /\ a.nacks \subseteq 0 .. NackBits - 1
                        /\ \E f \in base .. HandedTo' : SentFor(a, f)'
      OBVIOUS
    <2>1. CASE a \in acknacks
      <3>1. a.nacks \subseteq 0 .. NackBits - 1
        BY <2>1 DEF StreamIInv, Network
      <3>2. PICK f \in base .. HandedTo : SentFor(a, f)
        BY <2>1 DEF StreamIInv, Network
      <3>3. f \in base .. HandedTo'
        BY <3>2, Located
      <3> QED BY <1>2, <3>1, <3>2, <3>3
    <2>2. CASE a \notin acknacks
      <3>1. HandedTo' \in base .. HandedTo'
        BY Located
      <3> QED BY <1>2, <2>2, <3>1
    <2> QED BY <2>1, <2>2
  <1>4. \A n \in data' : n \in base .. PushedTo' - 1 /\ PushedTo' - n <= Half
    BY <1>1 DEF StreamIInv, Network
  <1>5. heartbeats' \subseteq Control'
    BY <1>1 DEF StreamIInv, Network
  <1> QED BY <1>3, <1>4, <1>5 DEF Network

\* process_input_packet hands over what has become contiguous, and nothing else.
LEMMA DataKeeps ==
    ASSUME StreamIInv, NEW n \in data, process_data(n)
    PROVE  /\ StreamIInv' /\ UNCHANGED <<base, pushed>>
           /\ \E k \in Nat : /\ HandedTo + k <= PushedTo
                             /\ handed' = handed \o [i \in 1 .. k |-> HandedTo + i - 1]
  <1> DEFINE r == Residue(n)
             kept == IF in_window(r) THEN Insert(in_messages, r, n) ELSE in_messages
             k == poppable(kept)
             H == HandedTo
  <1>1. Waits(kept, H)
    BY KeptWaits
  <1>2. /\ UNCHANGED <<base, pushed, output_stream, heartbeats>>
        /\ data' \subseteq data
        /\ last_announced' = IF in_window(r) /\ Gt(r, last_announced) THEN r ELSE last_announced
        /\ last_handled' = Plus(last_handled, k)
        /\ handed' = handed \o [i \in 1 .. k |-> kept[[j \in 1 .. k |-> Plus(last_handled, j)][i]]]
        /\ in_messages' = Erase(kept, {[j \in 1 .. k |-> Plus(last_handled, j)][i] : i \in 1 .. k})
        /\ acknacks' = Transmit(acknacks, fill_acknack(in_messages', last_handled', last_announced'))
    BY DEF process_data, Received
  <1> HIDE DEF kept
  <1>3. /\ k \in 0 .. Depth
        /\ \A i \in 1 .. k : Plus(last_handled, i) = Residue(H + i - 1) /\ kept[Plus(last_handled, i)] = H + i - 1
        /\ Plus(last_handled, k) = Before(H + k) /\ H + k <= PushedTo
    BY <1>1, PopsInOrder
  <1> HIDE DEF k
  <1>4. /\ handed' = handed \o [i \in 1 .. k |-> H + i - 1]
        /\ in_messages' = Erase(kept, {Residue(H + i - 1) : i \in 1 .. k})
        /\ last_handled' = Before(H + k)
    BY <1>2, <1>3
  <1>5. /\ H \in Nat /\ k \in Nat /\ H + k \in Nat /\ base \in Nat /\ pushed \in Nat /\ Len(handed) \in Nat
        /\ PushedTo = base + pushed /\ H = base + Len(handed) /\ handed \in Seq(Nat)
        /\ \A i \in 1 .. Len(handed) : handed[i] = base + i - 1
    BY <1>3, Located, StreamNumbers DEF StreamIInv, Receiver, PushedTo, HandedTo
  <1> DEFINE more == [i \in 1 .. k |-> H + i - 1]
  <1>6. more \in Seq(Nat) /\ Len(more) = k /\ \A i \in 1 .. k : more[i] = H + i - 1
    BY <1>5
  <1> HIDE DEF more
  <1>7. /\ handed' \in Seq(Nat) /\ Len(handed') = Len(handed) + k
        /\ \A i \in 1 .. Len(handed) + k : handed'[i] = IF i <= Len(handed) THEN handed[i] ELSE more[i - Len(handed)]
    BY <1>4, <1>5, <1>6 DEF more
  <1>8. HandedTo' = H + k
    BY <1>2, <1>5, <1>7 DEF HandedTo
  <1>9. \A i \in 1 .. Len(handed') : handed'[i] = base + i - 1
    <2> SUFFICES ASSUME NEW i \in 1 .. Len(handed) + k PROVE handed'[i] = base + i - 1
      BY <1>7
    <2>1. CASE i <= Len(handed)
      <3>1. handed'[i] = handed[i]
        BY <1>7, <2>1
      <3>2. i \in 1 .. Len(handed)
        BY <1>5, <2>1
      <3> QED BY <1>5, <3>1, <3>2
    <2>2. CASE i > Len(handed)
      <3>1. i - Len(handed) \in 1 .. k
        BY <1>5, <2>2
      <3> QED BY <1>5, <1>6, <1>7, <2>2, <3>1
    <2> QED BY <1>5, <2>1, <2>2
  <1>10. Waits(in_messages', H + k)
    <2>1. \A q \in DOMAIN in_messages' : /\ q \in DOMAIN kept /\ in_messages'[q] = kept[q]
                                         /\ \A i \in 1 .. k : q # Residue(H + i - 1)
      BY <1>4 DEF Erase
    <2> SUFFICES ASSUME NEW q \in DOMAIN in_messages'
                 PROVE  \E m \in H + k .. H + k + Depth - 1 :
                           m < PushedTo /\ q = Residue(m) /\ in_messages'[q] = m
      BY DEF Waits
    <2>2. PICK m \in H .. H + Depth - 1 : m < PushedTo /\ q = Residue(m) /\ kept[q] = m
      BY <1>1, <2>1 DEF Waits
    <2>3. ASSUME m < H + k PROVE FALSE
      <3>1. m - H + 1 \in 1 .. k /\ m = H + (m - H + 1) - 1
        BY <1>5, <2>3
      <3> QED BY <2>1, <2>2, <3>1
    <2>4. m \in H + k .. H + k + Depth - 1
      BY <1>5, <2>3, StreamNumbers
    <2> QED BY <2>1, <2>2, <2>4
  <1>11. last_announced' \in Residues
    <2>1. r \in Residues /\ last_announced \in Residues
      BY WindowNumbers, ResidueType DEF StreamIInv, Receiver
    <2> QED BY <1>2, <2>1
  <1>12. HandedTo' \in Nat /\ HandedTo <= HandedTo'
    BY <1>5, <1>8
  <1>13. /\ \E u, s \in Nat : Sender(u, s)'
         /\ base' \in Bases /\ pushed' \in 0 .. MaxPackets /\ PushedTo' = PushedTo
    BY <1>2, <1>12, SenderRests
  <1>14. Receiver'
    <2>1. Len(handed') <= pushed' /\ base' = base
      BY <1>2, <1>3, <1>5, <1>7
    <2>2. Waits(in_messages, HandedTo)'
      BY <1>8, <1>10, <1>13 DEF Waits
    <2> QED BY <1>4, <1>7, <1>8, <1>9, <1>11, <2>1, <2>2 DEF Receiver
  <1>15. Network'
    <2> DEFINE a == fill_acknack(in_messages', Before(H + k), last_announced')
    <2>1. SentFor(a, H + k) /\ a.nacks \subseteq 0 .. NackBits - 1
      BY <1>3, <1>5, <1>12, <1>8, AcknackSent
    <2>2. acknacks' \subseteq acknacks \cup {a}
      BY <1>2, <1>4 DEF Transmit
    <2> HIDE DEF a
    <2>3. \A b \in acknacks' \ acknacks : SentFor(b, HandedTo') /\ b.nacks \subseteq 0 .. NackBits - 1
      BY <1>8, <2>1, <2>2
    <2> QED BY <1>2, <1>12, <2>3, NetworkRests
  <1>16. StreamIInv'
    BY <1>13, <1>14, <1>15 DEF StreamIInv
  <1> QED BY <1>2, <1>3, <1>4, <1>5, <1>16

\* A HEARTBEAT announces what the receiver has: nothing is skipped for it.
LEMMA NothingToSkip ==
    ASSUME StreamIInv, NEW h \in heartbeats
    PROVE  skip_to(h.first) = last_handled
  <1>1. PICK u, s \in Nat : Sender(u, s)
    BY DEF StreamIInv
  <1>2. PICK f \in base .. u : SentFor(h, f)
    BY <1>1 DEF Sender
  <1> DEFINE P == PushedTo
             H == HandedTo
  <1>3. P < f + Half
    <2>1. base \in Nat /\ pushed \in Nat /\ h.sentAt \in Nat /\ P = base + pushed /\ f \in Nat
      BY <1>2, Located DEF SentFor, PushedTo
    <2>2. base + h.sentAt <= f + MaxOutstanding /\ pushed - h.sentAt < Half - MaxOutstanding
      BY <1>2 DEF SentFor
    <2> HIDE DEF P
    <2> QED BY <2>1, <2>2, StreamNumbers
  <1>4. f \in Nat /\ H \in Nat /\ f <= H /\ H < f + Half /\ f < H + Half
    <2>1. u <= H /\ H <= P /\ P \in Nat /\ H \in Nat /\ base \in Nat
      BY <1>1, SenderNumbers, Located
    <2> HIDE DEF P, H
    <2> QED BY <1>2, <1>3, <2>1, StreamNumbers
  <1>5. Plus(last_handled, 1) = Residue(H)
    <2>1. 1 \in 1 .. Half - 1 /\ H + 1 - 1 = H
      BY <1>4, StreamNumbers
    <2>2. last_handled = Before(H)
      BY DEF StreamIInv, Receiver
    <2> QED BY <1>4, <2>1, <2>2, BeforeNumbers
  <1> HIDE DEF H
  <1>6. Lt(Residue(H), Residue(f)) <=> H < f
    BY <1>4, OrderBefore
  <1> QED BY <1>2, <1>4, <1>5, <1>6 DEF skip_to, SentFor

LEMMA AnswersHeartbeat ==
    ASSUME StreamIInv, NEW h \in heartbeats, process_heartbeat(h) PROVE StreamIInv'
  <1>1. last_handled' = last_handled
    BY NothingToSkip DEF process_heartbeat
  <1>2. /\ UNCHANGED <<base, pushed, output_stream, in_messages, handed, data>>
        /\ heartbeats' \subseteq heartbeats
        /\ last_announced' = IF Lt(last_announced, h.last) THEN h.last ELSE last_announced
        /\ acknacks' = Transmit(acknacks, fill_acknack(in_messages, last_handled', last_announced'))
    BY DEF process_heartbeat, Received
  <1>3. HandedTo' = HandedTo /\ HandedTo \in Nat /\ HandedTo <= HandedTo'
    BY <1>2, Located DEF HandedTo
  <1>4. /\ \E u, s \in Nat : Sender(u, s)'
        /\ base' \in Bases /\ pushed' \in 0 .. MaxPackets /\ PushedTo' = PushedTo
    BY <1>2, <1>3, SenderRests
  <1>5. last_announced' \in Residues
    <2>1. h.last \in Residues /\ last_announced \in Residues
      BY DEF StreamIInv, Network, Receiver, Control
    <2> QED BY <1>2, <2>1
  <1>6. Receiver'
    <2>1. Waits(in_messages, HandedTo)'
      BY <1>2, <1>3, <1>4, Located, MoreWait
    <2> QED BY <1>1, <1>2, <1>3, <1>5, <2>1 DEF StreamIInv, Receiver
  <1>7. Network'
    <2> DEFINE a == fill_acknack(in_messages, Before(HandedTo), last_announced')
    <2>1. SentFor(a, HandedTo) /\ a.nacks \subseteq 0 .. NackBits - 1
      BY <1>3, Located, AcknackSent
    <2>2. acknacks' \subseteq acknacks \cup {a}
      BY <1>1, <1>2 DEF Transmit, StreamIInv, Receiver
    <2> HIDE DEF a
    <2>3. \A b \in acknacks' \ acknacks : SentFor(b, HandedTo') /\ b.nacks \subseteq 0 .. NackBits - 1
      BY <1>3, <2>1, <2>2
    <2> QED BY <1>2, <1>3, <2>3, NetworkRests
  <1> QED BY <1>4, <1>6, <1>7 DEF StreamIInv

LEMMA LossKeeps == ASSUME StreamIInv, Lose PROVE StreamIInv'
  <1>1. /\ UNCHANGED <<base, pushed, output_stream, input_stream>>
        /\ data' \subseteq data /\ heartbeats' \subseteq heartbeats /\ acknacks' \subseteq acknacks
    BY DEF Lose
  <1>2. HandedTo' = HandedTo /\ HandedTo \in Nat /\ HandedTo <= HandedTo'
    BY <1>1, Located DEF HandedTo, input_stream
  <1>3. \E u, s \in Nat : Sender(u, s)'
    BY <1>1, <1>2, SenderRests
  <1>4. Receiver' /\ base' \in Bases /\ pushed' \in 0 .. MaxPackets
    BY <1>1, ReceiverRests
  <1>5. \A a \in acknacks' \ acknacks : SentFor(a, HandedTo') /\ a.nacks \subseteq 0 .. NackBits - 1
    BY <1>1
  <1>6. Network'
    BY <1>1, <1>2, <1>5, NetworkRests
  <1> QED BY <1>3, <1>4, <1>6 DEF StreamIInv

-----------------------------------------------------------------------------
(* The theorems of the reliable stream                                     *)

LEMMA StreamStep == StreamIInv /\ [StreamNext]_stream_vars => StreamIInv'
  <1> SUFFICES ASSUME StreamIInv, [StreamNext]_stream_vars PROVE StreamIInv'
    OBVIOUS
  <1>1. ASSUME NEW frags \in 1 .. MaxFrags, push_submessage(frags) PROVE StreamIInv'
    BY <1>1, PushKeeps
  <1>2. CASE get_next_message
    BY <1>2, NextKeeps
  <1>3. CASE fill_heartbeat
    BY <1>3, HeartbeatKeeps
  <1>4. ASSUME NEW a \in acknacks, process_acknack(a) PROVE StreamIInv'
    BY <1>4, AcknackKeeps
  <1>5. ASSUME NEW n \in data, process_data(n) PROVE StreamIInv'
    BY <1>5, DataKeeps
  <1>6. ASSUME NEW h \in heartbeats, process_heartbeat(h) PROVE StreamIInv'
    BY <1>6, AnswersHeartbeat
  <1>7. CASE Lose
    BY <1>7, LossKeeps
  <1>8. CASE get_state \/ update_state \/ UNCHANGED stream_vars
    <2>1. /\ UNCHANGED <<base, pushed, output_stream, input_stream>>
          /\ data' \subseteq data /\ heartbeats' \subseteq heartbeats /\ acknacks' \subseteq acknacks
      BY <1>8 DEF get_state, update_state, stream_vars
    <2>2. HandedTo' = HandedTo /\ HandedTo \in Nat /\ HandedTo <= HandedTo'
      BY <2>1, Located DEF HandedTo, input_stream
    <2>3. \E u, s \in Nat : Sender(u, s)'
      BY <2>1, <2>2, SenderRests
    <2>4. Receiver' /\ base' \in Bases /\ pushed' \in 0 .. MaxPackets
      BY <2>1, ReceiverRests
    <2>5. Network'
      BY <2>1, <2>2, NetworkRests
    <2> QED BY <2>3, <2>4, <2>5 DEF StreamIInv
  <1> QED BY <1>1, <1>2, <1>3, <1>4, <1>5, <1>6, <1>7, <1>8 DEF StreamNext

\* The client is alive or it is not, whatever is sent meanwhile.
AliveOrNot == alive \in BOOLEAN

LEMMA AliveStep == AliveOrNot /\ [StreamNext]_stream_vars => AliveOrNot'
  BY DEF AliveOrNot, StreamNext, stream_vars, push_submessage, get_next_message, fill_heartbeat, get_state,
         update_state, process_acknack, process_data, process_heartbeat, Lose

\* What the invariant says in the code's own numbers.
LEMMA StreamMeans == StreamIInv /\ AliveOrNot => StreamInv
  <1> SUFFICES ASSUME StreamIInv, AliveOrNot PROVE StreamInv
    OBVIOUS
  <1>1. PICK u, s \in Nat : Sender(u, s)
    BY DEF StreamIInv
  <1> DEFINE H == HandedTo
             P == PushedTo
  <1>2. /\ base \in Nat /\ pushed \in Nat /\ P \in Nat /\ H \in Nat /\ P = base + pushed /\ base <= H
        /\ base <= u /\ u <= s /\ s <= P /\ P - u <= MaxOutstanding
    BY <1>1, Located, SenderNumbers DEF PushedTo
  <1>3. \A n \in base .. P - 1 : n \in Messages
    <2> SUFFICES ASSUME NEW n \in base .. P - 1 PROVE n \in Messages
      OBVIOUS
    <2>1. n - base \in 0 .. pushed - 1 /\ n = base + (n - base)
      BY <1>2
    <2> QED BY <2>1 DEF Messages
  <1>4. StreamTypeOK
    <2>1. {last_unacked, last_sent, first_unacked, last_handled, last_announced} \subseteq Residues
      BY <1>1, <1>2, BeforeNumbers, ResidueType DEF Sender, StreamIInv, Receiver
    <2>2. \A r \in DOMAIN messages : r \in Residues /\ messages[r] \in Messages
      <3> SUFFICES ASSUME NEW n \in u .. P - 1 PROVE Residue(n) \in Residues /\ messages[Residue(n)] \in Messages
        BY <1>1 DEF Sender
      <3>1. n \in Nat /\ n \in base .. P - 1
        BY <1>2
      <3>2. messages[Residue(n)] = n
        BY <1>1 DEF Sender
      <3> QED BY <1>3, <3>1, <3>2, ResidueType
    <2>3. \A r \in DOMAIN in_messages : r \in Residues /\ in_messages[r] \in Messages
      <3> SUFFICES ASSUME NEW r \in DOMAIN in_messages PROVE r \in Residues /\ in_messages[r] \in Messages
        OBVIOUS
      <3>1. PICK n \in H .. H + Depth - 1 : n < P /\ r = Residue(n) /\ in_messages[r] = n
        BY DEF StreamIInv, Receiver, Waits
      <3>2. n \in Nat /\ n \in base .. P - 1
        BY <1>2, <3>1
      <3> QED BY <1>3, <3>1, <3>2, ResidueType
    <2>4. handed \in Seq(Messages)
      <3>1. handed \in Seq(Nat) /\ Len(handed) \in Nat /\ Len(handed) <= pushed
        BY DEF StreamIInv, Receiver
      <3>2. \A i \in 1 .. Len(handed) : handed[i] \in Messages
        <4> SUFFICES ASSUME NEW i \in 1 .. Len(handed) PROVE handed[i] \in Messages
          OBVIOUS
        <4>1. handed[i] = base + i - 1 /\ base + i - 1 \in base .. P - 1
          BY <1>2, <3>1 DEF StreamIInv, Receiver
        <4> QED BY <1>3, <4>1
      <3> QED BY <3>1, <3>2
    <2>5. data \subseteq Messages
      BY <1>3 DEF StreamIInv, Network
    <2>6. \A a \in acknacks : a.first \in Residues /\ a.sentAt \in 0 .. pushed /\ a.nacks \subseteq 0 .. NackBits - 1
      <3> SUFFICES ASSUME NEW a \in acknacks
                   PROVE  a.first \in Residues /\ a.sentAt \in 0 .. pushed /\ a.nacks \subseteq 0 .. NackBits - 1
        OBVIOUS
      <3>1. PICK f \in base .. H : SentFor(a, f)
        BY DEF StreamIInv, Network
      <3>2. f \in Nat
        BY <1>2
      <3>3. a.nacks \subseteq 0 .. NackBits - 1
        BY DEF StreamIInv, Network
      <3> QED BY <3>1, <3>2, <3>3, ResidueType DEF SentFor
    <2>7. base \in Bases /\ pushed \in 0 .. MaxPackets /\ heartbeats \subseteq Control
      BY DEF StreamIInv, Network
    <2> QED BY <2>1, <2>2, <2>3, <2>4, <2>5, <2>6, <2>7 DEF StreamTypeOK, AliveOrNot
  <1>5. SenderKeepsUnacked
    <2>1. Plus(last_unacked, 1) = Residue(P)
      <3>1. 1 \in 1 .. Half - 1 /\ P + 1 - 1 = P
        BY <1>2, StreamNumbers
      <3>2. last_unacked = Before(P)
        BY <1>1 DEF Sender
      <3> HIDE DEF P
      <3> QED BY <1>2, <3>1, <3>2, BeforeNumbers
    <2>2. Minus(Plus(last_unacked, 1), first_unacked) = P - u
      <3>1. u <= P /\ P - u < Modulus /\ first_unacked = Residue(u)
        BY <1>1, <1>2, StreamNumbers DEF Sender
      <3> HIDE DEF P
      <3> QED BY <1>2, <2>1, <3>1, MinusResidue
    <2>3. \A i \in 0 .. P - u - 1 : Plus(first_unacked, i) = Residue(u + i)
      <3>1. \A i \in 0 .. P - u - 1 : i \in 0 .. Half - 1
        BY <1>2, StreamNumbers
      <3> QED BY <1>1, <3>1, PlusResidue DEF Sender
    <2>4. DOMAIN messages = {Plus(first_unacked, i) : i \in 0 .. P - u - 1}
      <3>1. \A i \in 0 .. P - u - 1 : u + i \in u .. P - 1
        BY <1>2
      <3>2. \A n \in u .. P - 1 : n - u \in 0 .. P - u - 1 /\ u + (n - u) = n
        BY <1>2
      <3>3. DOMAIN messages = {Residue(n) : n \in u .. P - 1}
        BY <1>1 DEF Sender
      <3> HIDE DEF P
      <3> QED BY <2>3, <3>1, <3>2, <3>3
    <2>5. \A r \in DOMAIN messages : Residue(messages[r]) = r
      BY <1>1 DEF Sender
    <2>6. Lt(last_sent, last_unacked) => Plus(last_sent, 1) \in DOMAIN messages
      <3> SUFFICES ASSUME Lt(last_sent, last_unacked) PROVE Plus(last_sent, 1) \in DOMAIN messages
        OBVIOUS
      <3>1. s < P /\ Plus(last_sent, 1) = Residue(s)
        BY <1>1, SenderNumbers
      <3>2. s \in u .. P - 1
        BY <1>2, <3>1
      <3> QED BY <1>1, <3>1, <3>2 DEF Sender
    <2> QED BY <2>2, <2>4, <2>5, <2>6 DEF SenderKeepsUnacked
  <1>6. NothingSkipped
    <2>1. HandedTo + Modulus - 1 = base + Modulus - 1 + Len(handed)
      BY <1>2, StreamNumbers DEF HandedTo, StreamIInv, Receiver
    <2> QED BY <2>1 DEF NothingSkipped, StreamIInv, Receiver, Before
  <1>7. ReceiverKeepsWindow
    <2> SUFFICES ASSUME NEW r \in DOMAIN in_messages PROVE \E i \in 1 .. Depth : r = Plus(last_handled, i)
      BY DEF ReceiverKeepsWindow
    <2>1. PICK n \in H .. H + Depth - 1 : r = Residue(n)
      BY DEF StreamIInv, Receiver, Waits
    <2> DEFINE i == n - H + 1
    <2>2. i \in 1 .. Depth /\ i \in 1 .. Half - 1 /\ H + i - 1 = n
      BY <1>2, StreamNumbers
    <2>3. Plus(last_handled, i) = Residue(H + i - 1)
      <3>1. last_handled = Before(H)
        BY DEF StreamIInv, Receiver
      <3> HIDE DEF H, i
      <3> QED BY <1>2, <2>2, <3>1, BeforeNumbers
    <2> QED BY <2>1, <2>2, <2>3
  <1> QED BY <1>4, <1>5, <1>6, <1>7 DEF StreamInv

\* A reliable stream, whatever its window, whatever is lost, repeated or comes
\* late, and however often the numbers wrap: the sender keeps exactly what is
\* not acknowledged, nothing is skipped by update_from_heartbeat, and what
\* waits at the receiver lies in its window.
THEOREM StreamIsSafe == StreamSpec => []StreamInv
  <1>1. StreamInit => StreamIInv
    BY StreamStart
  <1>2. StreamIInv /\ [StreamNext]_stream_vars => StreamIInv'
    BY StreamStep
  <1>3. StreamInit => AliveOrNot
    BY DEF StreamInit, AliveOrNot
  <1>4. AliveOrNot /\ [StreamNext]_stream_vars => AliveOrNot'
    BY AliveStep
  <1>5. StreamIInv /\ AliveOrNot => StreamInv
    BY StreamMeans
  <1> QED BY <1>1, <1>2, <1>3, <1>4, <1>5, PTL DEF StreamSpec

-----------------------------------------------------------------------------
(* The stream implements the channel                                       *)

\* The messages push_submessage took in this run.
Accepted == [i \in 1 .. pushed |-> base + i - 1]

LEMMA AcceptedType ==
    ASSUME StreamIInv
    PROVE  /\ Accepted \in Seq(Nat) /\ Len(Accepted) = pushed
           /\ \A i \in 1 .. pushed : Accepted[i] = base + i - 1
  <1>1. base \in Nat /\ pushed \in Nat
    BY Located
  <1>2. \A i \in 1 .. pushed : base + i - 1 \in Nat
    BY <1>1
  <1> QED BY <1>1, <1>2 DEF Accepted

\* SubSeq from the first element on.
LEMMA Prefix ==
    ASSUME NEW q \in Seq(Nat), NEW m \in Nat, m <= Len(q)
    PROVE  /\ SubSeq(q, 1, m) \in Seq(Nat) /\ Len(SubSeq(q, 1, m)) = m
           /\ \A i \in 1 .. m : SubSeq(q, 1, m)[i] = q[i]
  OBVIOUS

LEMMA JoinedLength ==
    ASSUME NEW q \in Seq(Nat), NEW t \in Seq(Nat) PROVE Len(q \o t) = Len(q) + Len(t)
  OBVIOUS

\* A push of any number of fragments accepts them all behind the others.
LEMMA PushAccepts ==
    ASSUME StreamIInv, NEW frags \in 1 .. MaxFrags, push_submessage(frags)
    PROVE  /\ Len(Accepted') > Len(Accepted)
           /\ SubSeq(Accepted', 1, Len(Accepted)) = Accepted
           /\ UNCHANGED handed
  <1>1. pushed' = pushed + frags /\ UNCHANGED <<base, handed>> /\ StreamIInv'
    BY PushKeeps
  <1>2. /\ Accepted \in Seq(Nat) /\ Len(Accepted) = pushed
        /\ \A i \in 1 .. pushed : Accepted[i] = base + i - 1
    BY AcceptedType
  <1>3. Accepted' = [i \in 1 .. pushed + frags |-> base + i - 1]
    BY <1>1 DEF Accepted
  <1>4. pushed \in Nat /\ frags \in Nat /\ frags >= 1 /\ base \in Nat
    BY Located, StreamNumbers
  <1> DEFINE A == Accepted'
  <1>5. /\ A \in Seq(Nat) /\ Len(A) = pushed + frags
        /\ \A i \in 1 .. pushed + frags : A[i] = base + i - 1
    BY <1>3, <1>4
  <1> HIDE DEF A
  <1>6. /\ SubSeq(A, 1, pushed) \in Seq(Nat) /\ Len(SubSeq(A, 1, pushed)) = pushed
        /\ \A i \in 1 .. pushed : SubSeq(A, 1, pushed)[i] = A[i]
    BY <1>4, <1>5, Prefix
  <1>7. \A i \in 1 .. pushed : SubSeq(A, 1, pushed)[i] = Accepted[i]
    BY <1>2, <1>4, <1>5, <1>6
  <1>8. SubSeq(A, 1, pushed) = Accepted
    BY <1>2, <1>6, <1>7
  <1> QED BY <1>1, <1>2, <1>4, <1>5, <1>8 DEF A

\* An arrival hands over a prefix that grew, or nothing.
LEMMA DataHands ==
    ASSUME StreamIInv, NEW n \in data, process_data(n)
    PROVE  /\ UNCHANGED Accepted
           /\ \/ UNCHANGED handed
              \/ /\ Len(handed') \in (Len(handed) + 1) .. Len(Accepted)
                 /\ handed' = SubSeq(Accepted, 1, Len(handed'))
  <1>1. PICK k \in Nat : /\ HandedTo + k <= PushedTo
                         /\ handed' = handed \o [i \in 1 .. k |-> HandedTo + i - 1]
    BY DataKeeps
  <1>2. UNCHANGED <<base, pushed>> /\ StreamIInv'
    BY DataKeeps
  <1>3. UNCHANGED Accepted
    BY <1>2 DEF Accepted
  <1>4. /\ Accepted \in Seq(Nat) /\ Len(Accepted) = pushed
        /\ \A i \in 1 .. pushed : Accepted[i] = base + i - 1
    BY AcceptedType
  <1>5. /\ handed \in Seq(Nat) /\ handed' \in Seq(Nat) /\ base \in Nat /\ pushed \in Nat /\ HandedTo \in Nat
        /\ HandedTo = base + Len(handed)
        /\ Len(handed) \in Nat /\ Len(handed') \in Nat
        /\ Len(handed') <= pushed
        /\ \A i \in 1 .. Len(handed') : handed'[i] = base + i - 1
    <2>1. Receiver /\ Receiver' /\ base' = base /\ pushed' = pushed
      BY <1>2 DEF StreamIInv
    <2>2. handed \in Seq(Nat) /\ handed' \in Seq(Nat)
      BY <2>1 DEF Receiver
    <2>3. Len(handed') <= pushed /\ \A i \in 1 .. Len(handed') : handed'[i] = base + i - 1
      BY <2>1 DEF Receiver
    <2>4. Len(handed) \in Nat /\ Len(handed') \in Nat
      BY <2>2
    <2> QED BY <2>2, <2>3, <2>4, Located DEF HandedTo
  <1> DEFINE more == [i \in 1 .. k |-> HandedTo + i - 1]
  <1>6. more \in Seq(Nat) /\ Len(more) = k
    BY <1>5
  <1> HIDE DEF more
  <1>7. handed' = handed \o more
    BY <1>1 DEF more
  <1>8. CASE k = 0
    BY <1>3, <1>5, <1>6, <1>7, <1>8
  <1>9. CASE k # 0
    <2>1. Len(handed') = Len(handed) + k
      <3>1. Len(handed \o more) = Len(handed) + Len(more)
        BY <1>5, <1>6, JoinedLength
      <3> QED BY <1>6, <1>7, <3>1
    <2>2. Len(handed') \in (Len(handed) + 1) .. Len(Accepted)
      BY <1>4, <1>5, <1>9, <2>1
    <2> DEFINE m == Len(handed')
               B == handed'
    <2>3. m \in 0 .. pushed /\ m \in Nat
      BY <1>5
    <2>4. B \in Seq(Nat) /\ Len(B) = m /\ \A i \in 1 .. m : B[i] = base + i - 1
      BY <1>5
    <2> HIDE DEF m, B
    <2>5. /\ SubSeq(Accepted, 1, m) \in Seq(Nat) /\ Len(SubSeq(Accepted, 1, m)) = m
          /\ \A i \in 1 .. m : SubSeq(Accepted, 1, m)[i] = Accepted[i]
      BY <1>4, <1>5, <2>3, Prefix
    <2>6. \A i \in 1 .. m : Accepted[i] = base + i - 1
      BY <1>4, <1>5, <2>3
    <2>7. B = SubSeq(Accepted, 1, m)
      BY <2>3, <2>4, <2>5, <2>6
    <2> QED BY <1>3, <2>2, <2>7 DEF m, B
  <1> QED BY <1>8, <1>9

LEMMA ChannelStart == StreamInit => Channel!Init
  <1> SUFFICES ASSUME StreamInit PROVE Channel!Init
    OBVIOUS
  <1>1. pushed = 0 /\ handed = << >>
    BY DEF StreamInit
  <1>2. [i \in 1 .. pushed |-> base + i - 1] = << >>
    BY <1>1
  <1> QED BY <1>1, <1>2 DEF Channel!Init

LEMMA ChannelStep ==
    StreamIInv /\ [StreamNext]_stream_vars => [Channel!Next]_<<[i \in 1 .. pushed |-> base + i - 1], handed>>
  <1> SUFFICES ASSUME StreamIInv, [StreamNext]_stream_vars
               PROVE  Channel!Next \/ (UNCHANGED Accepted /\ UNCHANGED handed)
    BY DEF Accepted
  <1>1. ASSUME NEW frags \in 1 .. MaxFrags, push_submessage(frags) PROVE Channel!Next
    BY <1>1, PushAccepts DEF Channel!Next, Channel!Accept, Accepted
  <1>2. ASSUME NEW n \in data, process_data(n) PROVE Channel!Next \/ (UNCHANGED Accepted /\ UNCHANGED handed)
    BY <1>2, DataHands DEF Channel!Next, Channel!Hand, Accepted
  <1>3. ASSUME UNCHANGED <<base, pushed, handed>> PROVE UNCHANGED Accepted /\ UNCHANGED handed
    BY <1>3 DEF Accepted
  <1>4. CASE get_next_message
    BY <1>3, <1>4 DEF get_next_message, input_stream
  <1>5. CASE fill_heartbeat
    BY <1>3, <1>5 DEF fill_heartbeat, input_stream
  <1>6. ASSUME NEW a \in acknacks, process_acknack(a) PROVE UNCHANGED <<base, pushed, handed>>
    BY <1>6 DEF process_acknack, input_stream
  <1>7. ASSUME NEW h \in heartbeats, process_heartbeat(h) PROVE UNCHANGED <<base, pushed, handed>>
    BY <1>7 DEF process_heartbeat
  <1>8. CASE Lose
    BY <1>3, <1>8 DEF Lose, input_stream
  <1>9. CASE get_state \/ update_state \/ UNCHANGED stream_vars
    BY <1>3, <1>9 DEF get_state, update_state, stream_vars, input_stream
  <1> QED BY <1>1, <1>2, <1>3, <1>4, <1>5, <1>6, <1>7, <1>8, <1>9 DEF StreamNext

\* The stream implements ReliableChannel: whatever push_submessage takes is
\* handed to the message handler once, in order and never before it was taken,
\* for every depth, every width and every behaviour of the network.
THEOREM StreamRefinesChannel == StreamSpec => ImplementsChannel
  <1>1. StreamInit => StreamIInv
    BY StreamStart
  <1>2. StreamIInv /\ [StreamNext]_stream_vars => StreamIInv'
    BY StreamStep
  <1>3. StreamInit => Channel!Init
    BY ChannelStart
  <1>4. StreamIInv /\ [StreamNext]_stream_vars
           => [Channel!Next]_<<[i \in 1 .. pushed |-> base + i - 1], handed>>
    BY ChannelStep
  <1> QED BY <1>1, <1>2, <1>3, <1>4, PTL DEF StreamSpec, ImplementsChannel, Channel!Spec

-----------------------------------------------------------------------------
(* The best-effort stream                                                  *)

\* The messages sent so far are those that have left the output queue.
SentTo == be_pushed - Len(out)

BestEffortIInv ==
    /\ be_pushed \in Nat /\ out \in Seq(Nat) /\ Len(out) <= be_pushed
    /\ \A i \in 1 .. Len(out) : out[i] = SentTo + i - 1
    /\ \A n \in net : n \in Nat /\ n < SentTo /\ SentTo - n <= Lifetime + 1
    /\ newest + 1 \in Nat /\ newest \in Int /\ newest < SentTo
    /\ last_received = Before(newest + 1)
    /\ in \in Seq(Nat) /\ be_handed \in Int /\ be_handed <= newest
    /\ \A i \in 1 .. Len(in) : be_handed < in[i] /\ in[i] <= newest
    /\ \A i, j \in 1 .. Len(in) : i < j => in[i] < in[j]

LEMMA BestEffortNumbers == Lifetime \in Nat /\ Lifetime < Half /\ Half \in Nat /\ Half > 1 /\ Modulus \in Nat /\ Modulus > 0
  BY BestEffortAssumption, ModulusIsEven

LEMMA BestEffortStart == BestEffortInit => BestEffortIInv
  <1> SUFFICES ASSUME BestEffortInit PROVE BestEffortIInv
    OBVIOUS
  <1>1. /\ be_pushed = 0 /\ out = << >> /\ last_received = Modulus - 1 /\ net = {} /\ in = << >>
        /\ newest = -1 /\ be_handed = -1
    BY DEF BestEffortInit
  <1>2. Before(newest + 1) = Modulus - 1
    <2>1. Before(0) = (0 + Modulus - 1) % Modulus
      BY DEF Before, Residue
    <2>2. Modulus - 1 \in Residues /\ 0 + Modulus - 1 = (Modulus * 0) + (Modulus - 1) /\ 0 \in Nat
      BY ModulusIsEven DEF Residues
    <2>3. ((Modulus * 0) + (Modulus - 1)) % Modulus = Modulus - 1
      BY <2>2, ResidueIsUnique
    <2>4. newest + 1 = 0
      BY <1>1
    <2> QED BY <2>1, <2>2, <2>3, <2>4
  <1>3. SentTo = 0
    <2>1. Len(out) = 0
      BY <1>1
    <2>2. be_pushed = 0
      BY <1>1
    <2> QED BY <2>1, <2>2 DEF SentTo
  <1> QED BY <1>1, <1>2, <1>3 DEF BestEffortIInv

\* The comparison of push_message tells new from old.
LEMMA ToldApart == BestEffortIInv => NumbersTellNewFromOld
  <1> SUFFICES ASSUME BestEffortIInv, NEW n \in net, n - newest < Half
               PROVE  Gt(n % Modulus, last_received) <=> n > newest
    BY DEF NumbersTellNewFromOld
  <1> DEFINE r == newest + 1
  <1>1. /\ n \in Nat /\ n < SentTo /\ SentTo - n <= Lifetime + 1 /\ r \in Nat /\ newest \in Int /\ newest < SentTo
        /\ SentTo \in Int /\ last_received = Before(r)
    BY DEF BestEffortIInv, SentTo
  <1>2. r <= n + Half /\ n + 1 < r + Half
    BY <1>1, BestEffortNumbers
  <1>3. r <= n <=> n > newest
    BY <1>1
  <1> HIDE DEF r
  <1>4. Lt(Before(r), Residue(n)) <=> r <= n
    BY <1>1, <1>2, OrderMixed
  <1> QED BY <1>1, <1>3, <1>4 DEF Gt, Residue

LEMMA BestEffortPush == BestEffortIInv /\ push_best_effort => BestEffortIInv'
  <1> SUFFICES ASSUME BestEffortIInv, push_best_effort PROVE BestEffortIInv'
    OBVIOUS
  <1>1. /\ out \in Seq(Nat) /\ be_pushed \in Nat /\ Len(out) \in Nat /\ Len(out) <= be_pushed
        /\ out' = Append(out, be_pushed) /\ be_pushed' = be_pushed + 1
        /\ UNCHANGED <<net, in, last_received, newest, be_handed>>
    BY DEF BestEffortIInv, push_best_effort
  <1>2. /\ out' \in Seq(Nat) /\ Len(out') = Len(out) + 1
        /\ \A i \in 1 .. Len(out') : out'[i] = IF i <= Len(out) THEN out[i] ELSE be_pushed
    BY <1>1
  <1>3. SentTo' = SentTo /\ SentTo \in Int /\ be_pushed = SentTo + Len(out)
    BY <1>1, <1>2 DEF SentTo
  <1>4. \A i \in 1 .. Len(out') : out'[i] = SentTo + i - 1
    <2> SUFFICES ASSUME NEW i \in 1 .. Len(out') PROVE out'[i] = SentTo + i - 1
      OBVIOUS
    <2>1. CASE i <= Len(out)
      <3>1. i \in 1 .. Len(out)
        BY <1>1, <2>1
      <3> QED BY <1>2, <2>1, <3>1 DEF BestEffortIInv
    <2>2. CASE i = Len(out) + 1
      BY <1>1, <1>2, <1>3, <2>2
    <2> QED BY <1>1, <1>2, <2>1, <2>2
  <1>5. Len(out') <= be_pushed' /\ be_pushed' \in Nat
    BY <1>1, <1>2
  <1> QED BY <1>1, <1>2, <1>3, <1>4, <1>5 DEF BestEffortIInv

LEMMA BestEffortSend == BestEffortIInv /\ Send => BestEffortIInv'
  <1> SUFFICES ASSUME BestEffortIInv, Send PROVE BestEffortIInv'
    OBVIOUS
  <1>1. /\ out \in Seq(Nat) /\ out # << >> /\ be_pushed \in Nat /\ Len(out) \in Nat /\ Len(out) <= be_pushed
        /\ out' = Tail(out) /\ net' = {n \in net : Head(out) - n <= Lifetime} \cup {Head(out)}
        /\ UNCHANGED <<be_pushed, in, last_received, newest, be_handed>>
    BY DEF BestEffortIInv, Send
  <1>2. Len(out) >= 1 /\ Head(out) = out[1]
    BY <1>1
  <1>3. /\ out' \in Seq(Nat) /\ Len(out') = Len(out) - 1
        /\ \A i \in 1 .. Len(out') : out'[i] = out[i + 1]
    BY <1>1, <1>2
  <1>4. SentTo' = SentTo + 1 /\ SentTo \in Nat
    BY <1>1, <1>3 DEF SentTo
  <1>5. Head(out) = SentTo
    <2>1. 1 \in 1 .. Len(out)
      BY <1>1, <1>2
    <2>2. out[1] = SentTo + 1 - 1
      BY <2>1 DEF BestEffortIInv
    <2> QED BY <1>2, <1>4, <2>2
  <1>6. \A i \in 1 .. Len(out') : out'[i] = SentTo' + i - 1
    <2> SUFFICES ASSUME NEW i \in 1 .. Len(out') PROVE out'[i] = SentTo' + i - 1
      OBVIOUS
    <2>1. i + 1 \in 1 .. Len(out)
      BY <1>1, <1>3
    <2>2. out[i + 1] = SentTo + (i + 1) - 1
      BY <2>1 DEF BestEffortIInv
    <2> QED BY <1>3, <1>4, <2>2
  <1>7. \A n \in net' : n \in Nat /\ n < SentTo' /\ SentTo' - n <= Lifetime + 1
    <2> SUFFICES ASSUME NEW n \in net' PROVE n \in Nat /\ n < SentTo' /\ SentTo' - n <= Lifetime + 1
      OBVIOUS
    <2>1. CASE n \in net /\ SentTo - n <= Lifetime
      <3>1. n \in Nat /\ n < SentTo
        BY <2>1 DEF BestEffortIInv
      <3> QED BY <1>4, <2>1, <3>1, BestEffortNumbers
    <2>2. CASE n = SentTo
      BY <1>4, <2>2, BestEffortNumbers
    <2> QED BY <1>1, <1>5, <2>1, <2>2
  <1>8. Len(out') <= be_pushed' /\ newest < SentTo'
    <2>1. newest \in Int /\ newest < SentTo
      BY DEF BestEffortIInv
    <2> QED BY <1>1, <1>3, <1>4, <2>1
  <1> QED BY <1>1, <1>3, <1>4, <1>6, <1>7, <1>8 DEF BestEffortIInv

LEMMA BestEffortTake == ASSUME BestEffortIInv, NEW n \in net, push_message(n) PROVE BestEffortIInv'
  <1>1. /\ Gt(n % Modulus, last_received) /\ in' = Append(in, n) /\ last_received' = n % Modulus
        /\ newest' = n /\ net' \subseteq net /\ UNCHANGED <<be_pushed, out, be_handed>>
    BY DEF push_message
  <1>2. n \in Nat /\ n < SentTo /\ newest \in Int /\ SentTo' = SentTo
    BY <1>1 DEF BestEffortIInv, SentTo
  <1>3. n > newest
    <2>1. n - newest < Half => n > newest
      BY <1>1, ToldApart DEF NumbersTellNewFromOld
    <2> QED BY <1>2, <2>1, BestEffortNumbers
  <1>4. last_received' = Before(newest' + 1) /\ newest' + 1 \in Nat
    <2>1. n + 1 \in Nat /\ n + 1 > 0 /\ n + 1 - 1 = n
      BY <1>2
    <2> DEFINE m == n + 1
    <2>2. Before(m) = Residue(m - 1)
      <3> HIDE DEF m
      <3> QED BY <2>1, BeforeNumbers DEF m
    <2>3. Residue(m - 1) = n % Modulus
      <3>1. m - 1 = n
        BY <1>2
      <3> HIDE DEF m
      <3> QED BY <3>1 DEF Residue
    <2>4. newest' + 1 = m
      BY <1>1
    <2> HIDE DEF m
    <2> QED BY <1>1, <2>2, <2>3, <2>4, <2>1 DEF m
  <1>5. in \in Seq(Nat) /\ Len(in) \in Nat /\ be_handed \in Int
    BY DEF BestEffortIInv
  <1>0. \A i \in 1 .. Len(in) : in[i] \in Nat
    BY <1>5
  <1>6. /\ in' \in Seq(Nat) /\ Len(in') = Len(in) + 1
        /\ \A i \in 1 .. Len(in) : in'[i] = in[i]
        /\ in'[Len(in) + 1] = n
    BY <1>1, <1>2, <1>5
  <1>7. be_handed < n
    <2>1. be_handed <= newest
      BY DEF BestEffortIInv
    <2> QED BY <1>2, <1>3, <1>5, <2>1
  <1>8. \A i \in 1 .. Len(in') : be_handed < in'[i] /\ in'[i] <= n
    <2> SUFFICES ASSUME NEW i \in 1 .. Len(in') PROVE be_handed < in'[i] /\ in'[i] <= n
      OBVIOUS
    <2>1. CASE i \in 1 .. Len(in)
      <3>1. be_handed < in[i] /\ in[i] <= newest
        BY <2>1 DEF BestEffortIInv
      <3>2. in'[i] = in[i] /\ in[i] \in Nat
        BY <1>0, <1>6, <2>1
      <3> QED BY <1>2, <1>3, <3>1, <3>2
    <2>2. CASE i = Len(in) + 1
      BY <1>2, <1>6, <1>7, <2>2
    <2> QED BY <1>5, <1>6, <2>1, <2>2
  <1>9. \A i, j \in 1 .. Len(in') : i < j => in'[i] < in'[j]
    <2> SUFFICES ASSUME NEW i \in 1 .. Len(in'), NEW j \in 1 .. Len(in'), i < j PROVE in'[i] < in'[j]
      OBVIOUS
    <2>1. i \in 1 .. Len(in)
      BY <1>5, <1>6
    <2>2. CASE j \in 1 .. Len(in)
      BY <1>6, <2>1, <2>2 DEF BestEffortIInv
    <2>3. CASE j = Len(in) + 1
      <3>1. in[i] <= newest
        BY <2>1 DEF BestEffortIInv
      <3>2. in'[i] = in[i] /\ in[i] \in Nat
        BY <1>0, <1>6, <2>1
      <3> QED BY <1>2, <1>3, <1>6, <2>3, <3>1, <3>2
    <2>4. j \in 1 .. Len(in) + 1 /\ Len(in) \in Nat
      BY <1>5, <1>6
    <2>5. j \in 1 .. Len(in) \/ j = Len(in) + 1
      BY <2>4
    <2> QED BY <2>2, <2>3, <2>5
  <1>10. \A m \in net' : m \in Nat /\ m < SentTo' /\ SentTo' - m <= Lifetime + 1
    BY <1>1, <1>2 DEF BestEffortIInv
  <1>11. /\ be_pushed' \in Nat /\ out' \in Seq(Nat) /\ Len(out') <= be_pushed'
         /\ \A i \in 1 .. Len(out') : out'[i] = SentTo' + i - 1
    BY <1>1, <1>2 DEF BestEffortIInv
  <1>12. newest' \in Int /\ newest' < SentTo' /\ be_handed' \in Int
    BY <1>1, <1>2, <1>5
  <1> QED BY <1>1, <1>4, <1>6, <1>8, <1>9, <1>10, <1>11, <1>12 DEF BestEffortIInv

LEMMA BestEffortPop ==
    ASSUME BestEffortIInv, pop_message PROVE BestEffortIInv' /\ be_handed' > be_handed
  <1>1. /\ in # << >> /\ in' = Tail(in) /\ be_handed' = Head(in)
        /\ UNCHANGED <<be_pushed, out, net, last_received, newest>> /\ SentTo' = SentTo
    BY DEF pop_message, SentTo
  <1>2. in \in Seq(Nat) /\ Len(in) \in Nat /\ be_handed \in Int
    BY DEF BestEffortIInv
  <1>3. Len(in) >= 1 /\ Head(in) = in[1] /\ 1 \in 1 .. Len(in)
    BY <1>1, <1>2
  <1>4. /\ in' \in Seq(Nat) /\ Len(in') = Len(in) - 1
        /\ \A i \in 1 .. Len(in') : in'[i] = in[i + 1] /\ i + 1 \in 1 .. Len(in)
    BY <1>1, <1>2, <1>3
  <1>5. in[1] \in Int /\ be_handed < in[1] /\ in[1] <= newest
    BY <1>2, <1>3 DEF BestEffortIInv
  <1>6. \A i \in 1 .. Len(in') : in[1] < in'[i] /\ in'[i] <= newest
    <2> SUFFICES ASSUME NEW i \in 1 .. Len(in') PROVE in[1] < in'[i] /\ in'[i] <= newest
      OBVIOUS
    <2>1. in'[i] = in[i + 1] /\ i + 1 \in 1 .. Len(in) /\ 1 < i + 1
      BY <1>2, <1>4
    <2> QED BY <1>3, <2>1 DEF BestEffortIInv
  <1>7. \A i, j \in 1 .. Len(in') : i < j => in'[i] < in'[j]
    <2> SUFFICES ASSUME NEW i \in 1 .. Len(in'), NEW j \in 1 .. Len(in'), i < j PROVE in'[i] < in'[j]
      OBVIOUS
    <2>1. in'[i] = in[i + 1] /\ in'[j] = in[j + 1] /\ i + 1 \in 1 .. Len(in) /\ j + 1 \in 1 .. Len(in)
      BY <1>4
    <2>2. i + 1 < j + 1
      BY <1>4, <1>2
    <2> QED BY <2>1, <2>2 DEF BestEffortIInv
  <1>8. BestEffortIInv'
    BY <1>1, <1>3, <1>4, <1>5, <1>6, <1>7 DEF BestEffortIInv
  <1> QED BY <1>1, <1>2, <1>3, <1>5, <1>8

\* Losing a datagram, or nothing at all.
LEMMA BestEffortRests ==
    ASSUME BestEffortIInv, net' \subseteq net,
           UNCHANGED <<be_pushed, out, in, last_received, newest, be_handed>>
    PROVE  BestEffortIInv'
  <1>1. SentTo' = SentTo
    BY DEF SentTo
  <1> QED BY <1>1 DEF BestEffortIInv

LEMMA BestEffortStep ==
    BestEffortIInv /\ [BestEffortNext]_best_effort_vars
        => BestEffortIInv' /\ (Len(in') < Len(in) => be_handed' > be_handed)
  <1> SUFFICES ASSUME BestEffortIInv, [BestEffortNext]_best_effort_vars
               PROVE  BestEffortIInv' /\ (Len(in') < Len(in) => be_handed' > be_handed)
    OBVIOUS
  <1>1. in \in Seq(Nat) /\ Len(in) \in Nat
    BY DEF BestEffortIInv
  <1>2. ASSUME UNCHANGED in PROVE ~(Len(in') < Len(in))
    BY <1>1, <1>2
  <1>3. CASE push_best_effort
    BY <1>2, <1>3, BestEffortPush DEF push_best_effort
  <1>4. CASE Send
    BY <1>2, <1>4, BestEffortSend DEF Send
  <1>5. CASE pop_message
    BY <1>5, BestEffortPop
  <1>6. ASSUME NEW n \in net, LoseDatagram(n)
        PROVE  BestEffortIInv' /\ (Len(in') < Len(in) => be_handed' > be_handed)
    BY <1>2, <1>6, BestEffortRests DEF LoseDatagram
  <1>7. ASSUME NEW n \in net, push_message(n)
        PROVE  BestEffortIInv' /\ (Len(in') < Len(in) => be_handed' > be_handed)
    <2>1. in' = Append(in, n) /\ n \in Nat
      BY <1>7 DEF push_message, BestEffortIInv
    <2>2. Len(in') = Len(in) + 1
      BY <1>1, <2>1
    <2> QED BY <1>1, <1>7, <2>2, BestEffortTake
  <1>8. CASE UNCHANGED best_effort_vars
    BY <1>2, <1>8, BestEffortRests DEF best_effort_vars
  <1> QED BY <1>3, <1>4, <1>5, <1>6, <1>7, <1>8 DEF BestEffortNext

\* A best-effort stream, whatever is lost, repeated or comes late, and however
\* often the numbers wrap: push_message tells new from old, and pop_message
\* hands on only what is newer than all before it.
THEOREM BestEffortOrdered == BestEffortSpec => BestEffortInOrder
  <1>1. BestEffortInit => BestEffortIInv
    BY BestEffortStart
  <1>2. BestEffortIInv /\ [BestEffortNext]_best_effort_vars
           => BestEffortIInv' /\ [Len(in') < Len(in) => be_handed' > be_handed]_best_effort_vars
    BY BestEffortStep
  <1>3. BestEffortIInv => NumbersTellNewFromOld
    BY ToldApart
  <1> QED BY <1>1, <1>2, <1>3, PTL DEF BestEffortSpec, BestEffortInOrder, HandedOnlyForward
=============================================================================
