----------------------------- MODULE SessionProofs -----------------------------
(***************************************************************************)
(* What the Agent does for a session beside the streams' numbers, for any  *)
(* number of requests, samples and submessages and any sizes: replies find *)
(* their requests, a read keeps its limits and loses nothing by them, its  *)
(* rate is kept, and submessages come out of their fragments whole and in  *)
(* order.                                                                  *)
(***************************************************************************)
EXTENDS Fragments, Reader, RequestReply, TokenBucket, FiniteSetTheorems, TLAPS

--------------------------------------------------------------------------------
(* Fragments of large submessages                                          *)

Octet == Nat \X Nat
Pieces == [octets : Seq(Octet), fragment : BOOLEAN, last : BOOLEAN]

\* s is a stretch of submessage id, behind its first octets.
Stretch(s, id, behind) == \A i \in 1 .. Len(s) : s[i] = <<id, behind + i>>

SequencesOK ==
    /\ sent \in Seq(Seq(Octet)) /\ cut \in Seq(Octet) /\ fragment_msg \in Seq(Octet)
    /\ assembled \in Seq(Seq(Octet)) /\ queue \in Seq(Pieces)
    /\ cutting \in BOOLEAN /\ serialized \in Nat

\* What push_submessage has done, also when the client starts anew.
Cuts ==
    /\ \A k \in 1 .. Len(sent) : Len(sent[k]) \in Sizes /\ Stretch(sent[k], k, 0)
    /\ cutting => /\ sent # << >>
                  /\ serialized = Len(cut) /\ serialized < Len(sent[Len(sent)])
                  /\ Stretch(cut, Len(sent), 0)
    /\ ~cutting /\ cut # << >> => \E k \in 1 .. Len(sent) : sent[k] = cut

SenderFine == SequencesOK /\ Cuts /\ MessagesFit

\* Where a message belongs, and whether its submessage ends with it.
Id(m) == m.octets[1][1]
Behind(m) == m.octets[1][2] - 1
Ends(m) == ~m.fragment \/ m.last

\* Message m is a stretch of one of the submessages s.
Belongs(m, s) ==
    /\ Id(m) \in 1 .. Len(s) /\ Behind(m) \in Nat
    /\ Stretch(m.octets, Id(m), Behind(m))
    /\ Ends(m) => Behind(m) + Len(m.octets) = Len(s[Id(m)])
    /\ ~m.fragment => Behind(m) = 0

\* What comes after the first j messages of q, if id and behind are before
\* them: of which submessage, and behind which of its octets.
NextId(q, id, j) ==
    IF j = 0 THEN id ELSE IF Ends(q[j]) THEN Id(q[j]) + 1 ELSE Id(q[j])
NextBehind(q, behind, j) ==
    IF j = 0 THEN behind ELSE IF Ends(q[j]) THEN 0 ELSE Behind(q[j]) + Len(q[j].octets)

\* The messages q of the submessages s go on where id and behind are, without
\* a gap, to where toId and toBehind are.
Joined(q, s, id, behind, toId, toBehind) ==
    /\ \A j \in 1 .. Len(q) : Belongs(q[j], s)
    /\ \A j \in 0 .. Len(q) - 1 :
          Id(q[j + 1]) = NextId(q, id, j) /\ Behind(q[j + 1]) = NextBehind(q, behind, j)
    /\ NextId(q, id, Len(q)) = toId
    /\ NextBehind(q, behind, Len(q)) = toBehind

\* The queue leads from what the receiver has to what the sender has cut.
Connected ==
    /\ Joined(queue, sent, Len(assembled) + 1, Len(fragment_msg),
              IF cutting THEN Len(sent) ELSE Len(sent) + 1, IF cutting THEN serialized ELSE 0)
    /\ Stretch(fragment_msg, Len(assembled) + 1, 0)
    /\ \A k \in 1 .. Len(assembled) : k \in 1 .. Len(sent) /\ assembled[k] = sent[k]

FragmentsIInv == SenderFine /\ (~restarted => Connected)

\* Below 2^16 octets, so that serialized_size does not wrap.
FitsWidth == \A size \in Sizes : size < Limit

--------------------------------------------------------------------------------
(* Sequences                                                               *)

LEMMA SmallResidue ==
    ASSUME NEW m \in Nat, NEW n \in Nat, n < m
    PROVE  n % m = n
  OBVIOUS

LEMMA Appended ==
    ASSUME NEW S, NEW s \in Seq(S), NEW e \in S
    PROVE  /\ Append(s, e) \in Seq(S) /\ Len(Append(s, e)) = Len(s) + 1 /\ Len(s) \in Nat
           /\ \A i \in 1 .. Len(s) : Append(s, e)[i] = s[i]
           /\ Append(s, e)[Len(s) + 1] = e
           /\ Append(s, e) # << >>
  OBVIOUS

LEMMA Detached ==
    ASSUME NEW S, NEW s \in Seq(S), s # << >>
    PROVE  /\ Tail(s) \in Seq(S) /\ Len(Tail(s)) = Len(s) - 1 /\ Len(s) \in Nat \ {0}
           /\ \A i \in 1 .. Len(Tail(s)) : Tail(s)[i] = s[i + 1]
           /\ Head(s) = s[1] /\ s[1] \in S
  OBVIOUS

LEMMA Concatenated ==
    ASSUME NEW S, NEW s \in Seq(S), NEW t \in Seq(S)
    PROVE  /\ s \o t \in Seq(S) /\ Len(s \o t) = Len(s) + Len(t)
           /\ Len(s) \in Nat /\ Len(t) \in Nat
           /\ \A i \in 1 .. Len(s) : (s \o t)[i] = s[i]
           /\ \A i \in 1 .. Len(t) : (s \o t)[Len(s) + i] = t[i]
  OBVIOUS

LEMMA Excerpt ==
    ASSUME NEW S, NEW s \in Seq(S), NEW a \in Nat, NEW n \in Nat, a + n <= Len(s)
    PROVE  /\ SubSeq(s, a + 1, a + n) \in Seq(S)
           /\ Len(SubSeq(s, a + 1, a + n)) = n
           /\ \A i \in 1 .. n : SubSeq(s, a + 1, a + n)[i] = s[a + i]
  OBVIOUS

LEMMA SameSequence ==
    ASSUME NEW S, NEW s \in Seq(S), NEW t \in Seq(S), Len(s) = Len(t),
           \A i \in 1 .. Len(s) : s[i] = t[i]
    PROVE  s = t
  OBVIOUS

\* Stretches that meet are one; stretches of the same place and length are equal.
LEMMA StretchesMeet ==
    ASSUME NEW s \in Seq(Octet), NEW t \in Seq(Octet), NEW id \in Nat, NEW a \in Nat,
           Stretch(s, id, a), Stretch(t, id, a + Len(s))
    PROVE  Stretch(s \o t, id, a) /\ s \o t \in Seq(Octet) /\ Len(s \o t) = Len(s) + Len(t)
  <1> SUFFICES ASSUME NEW i \in 1 .. Len(s \o t)
               PROVE  (s \o t)[i] = <<id, a + i>>
    BY Concatenated DEF Stretch
  <1>1. CASE i \in 1 .. Len(s)
    BY <1>1, Concatenated DEF Stretch
  <1>2. CASE i > Len(s)
    <2> DEFINE j == i - Len(s)
    <2>1. j \in 1 .. Len(t) /\ i = Len(s) + j
      BY <1>2, Concatenated
    <2>2. (s \o t)[Len(s) + j] = t[j] /\ t[j] = <<id, a + Len(s) + j>>
      BY <2>1, Concatenated DEF Stretch
    <2>3. a + Len(s) + j = a + i
      BY <2>1, Concatenated
    <2> QED BY <2>1, <2>2, <2>3
  <1> QED BY <1>1, <1>2, Concatenated

LEMMA StretchesAgree ==
    ASSUME NEW s \in Seq(Octet), NEW t \in Seq(Octet), NEW id, NEW a,
           Len(s) = Len(t), Stretch(s, id, a), Stretch(t, id, a)
    PROVE  s = t
  <1>1. \A i \in 1 .. Len(s) : s[i] = t[i]
    BY DEF Stretch
  <1> QED BY <1>1, SameSequence

LEMMA FragmentConstants ==
    /\ Mtu \in Nat /\ HeaderSize \in Nat /\ SubheaderSize \in Nat /\ Limit \in Nat
    /\ HeaderSize + SubheaderSize < Mtu /\ Mtu < Limit
    /\ max_fragment_size \in Nat /\ max_fragment_size > 0
    /\ max_fragment_size = Mtu - HeaderSize - SubheaderSize
    /\ \A size \in Sizes : size \in Nat /\ size > 0
  BY FragmentsAssumption DEF max_fragment_size

LEMMA OctetsOfASubmessage ==
    ASSUME NEW id \in Nat, NEW size \in Sizes
    PROVE  /\ Octets(id, size) \in Seq(Octet) /\ Len(Octets(id, size)) = size
           /\ Stretch(Octets(id, size), id, 0)
  <1>1. size \in Nat
    BY FragmentConstants
  <1>2. /\ Octets(id, size) \in Seq(Octet) /\ Len(Octets(id, size)) = size
        /\ \A i \in 1 .. size : Octets(id, size)[i] = <<id, i>>
    BY <1>1 DEF Octets, Octet
  <1> QED BY <1>1, <1>2 DEF Stretch

\* Submessages that are added to s leave the others as they are.
Extends(t, s) == \A k \in 1 .. Len(s) : k \in 1 .. Len(t) /\ t[k] = s[k]

LEMMA StillBelongs ==
    ASSUME NEW s, NEW t, Extends(t, s), NEW m, Belongs(m, s)
    PROVE  Belongs(m, t)
  BY DEF Belongs, Extends

\* A message that begins where the queue has got to takes it on.
LEMMA JoinedGrows ==
    ASSUME NEW q \in Seq(Pieces), NEW s, NEW t, NEW id, NEW behind, NEW toId, NEW toBehind,
           Joined(q, s, id, behind, toId, toBehind), Extends(t, s),
           NEW m \in Pieces, Belongs(m, t), Id(m) = toId, Behind(m) = toBehind
    PROVE  Joined(Append(q, m), t, id, behind,
                  IF Ends(m) THEN Id(m) + 1 ELSE Id(m),
                  IF Ends(m) THEN 0 ELSE Behind(m) + Len(m.octets))
  <1> DEFINE r == Append(q, m)
  <1>1. /\ Len(r) = Len(q) + 1 /\ Len(q) \in Nat
        /\ \A i \in 1 .. Len(q) : r[i] = q[i]
        /\ r[Len(q) + 1] = m
    BY Appended
  <1> HIDE DEF r
  <1>2. \A j \in 0 .. Len(q) : /\ NextId(r, id, j) = NextId(q, id, j)
                               /\ NextBehind(r, behind, j) = NextBehind(q, behind, j)
    BY <1>1 DEF NextId, NextBehind
  <1>3. \A j \in 1 .. Len(r) : Belongs(r[j], t)
    <2>1. \A j \in 1 .. Len(q) : Belongs(q[j], t)
      BY StillBelongs DEF Joined
    <2> QED BY <1>1, <2>1
  <1>4. ASSUME NEW j \in 0 .. Len(r) - 1
        PROVE  Id(r[j + 1]) = NextId(r, id, j) /\ Behind(r[j + 1]) = NextBehind(r, behind, j)
    <2>1. CASE j \in 0 .. Len(q) - 1
      <3>1. Id(q[j + 1]) = NextId(q, id, j) /\ Behind(q[j + 1]) = NextBehind(q, behind, j)
        BY <2>1 DEF Joined
      <3>2. r[j + 1] = q[j + 1]
        BY <1>1, <2>1
      <3> QED BY <1>1, <1>2, <2>1, <3>1, <3>2
    <2>2. CASE j = Len(q)
      <3>1. NextId(q, id, Len(q)) = toId /\ NextBehind(q, behind, Len(q)) = toBehind
        BY DEF Joined
      <3> QED BY <1>1, <1>2, <2>2, <3>1
    <2> QED BY <1>1, <2>1, <2>2
  <1>5. /\ NextId(r, id, Len(r)) = IF Ends(m) THEN Id(m) + 1 ELSE Id(m)
        /\ NextBehind(r, behind, Len(r)) = IF Ends(m) THEN 0 ELSE Behind(m) + Len(m.octets)
    BY <1>1 DEF NextId, NextBehind
  <1> QED BY <1>3, <1>4, <1>5 DEF Joined, r

LEMMA JoinedExtends ==
    ASSUME NEW q, NEW s, NEW t, NEW id, NEW behind, NEW toId, NEW toBehind,
           Joined(q, s, id, behind, toId, toBehind), Extends(t, s)
    PROVE  Joined(q, t, id, behind, toId, toBehind)
  BY StillBelongs DEF Joined

\* The first message of the queue begins where the receiver is, and the rest
\* goes on behind it.
LEMMA JoinedShrinks ==
    ASSUME NEW q \in Seq(Pieces), q # << >>, NEW s, NEW id, NEW behind, NEW toId, NEW toBehind,
           Joined(q, s, id, behind, toId, toBehind)
    PROVE  /\ Belongs(Head(q), s) /\ Id(Head(q)) = id /\ Behind(Head(q)) = behind
           /\ Joined(Tail(q), s, IF Ends(Head(q)) THEN id + 1 ELSE id,
                     IF Ends(Head(q)) THEN 0 ELSE behind + Len(Head(q).octets), toId, toBehind)
  <1> DEFINE r == Tail(q)
             m == Head(q)
             id2 == IF Ends(m) THEN id + 1 ELSE id
             behind2 == IF Ends(m) THEN 0 ELSE behind + Len(m.octets)
  <1>1. /\ Len(r) = Len(q) - 1 /\ Len(q) \in Nat \ {0}
        /\ \A i \in 1 .. Len(r) : r[i] = q[i + 1]
        /\ m = q[1]
    BY Detached
  <1> HIDE DEF r, m
  <1>2. Belongs(m, s) /\ Id(m) = id /\ Behind(m) = behind
    <2>1. Id(q[0 + 1]) = NextId(q, id, 0) /\ Behind(q[0 + 1]) = NextBehind(q, behind, 0)
      BY <1>1 DEF Joined
    <2> QED BY <1>1, <2>1 DEF Joined, NextId, NextBehind
  <1>3. \A j \in 0 .. Len(r) : /\ NextId(r, id2, j) = NextId(q, id, j + 1)
                               /\ NextBehind(r, behind2, j) = NextBehind(q, behind, j + 1)
    BY <1>1, <1>2 DEF NextId, NextBehind
  <1>4. \A j \in 1 .. Len(r) : Belongs(r[j], s)
    BY <1>1 DEF Joined
  <1>5. ASSUME NEW j \in 0 .. Len(r) - 1
        PROVE  Id(r[j + 1]) = NextId(r, id2, j) /\ Behind(r[j + 1]) = NextBehind(r, behind2, j)
    <2> DEFINE i == j + 1
    <2>1. i \in 0 .. Len(q) - 1 /\ i \in 1 .. Len(r)
      BY <1>1
    <2>2. Id(q[i + 1]) = NextId(q, id, i) /\ Behind(q[i + 1]) = NextBehind(q, behind, i)
      BY <2>1 DEF Joined
    <2>3. r[i] = q[i + 1]
      BY <1>1, <2>1
    <2> QED BY <1>1, <1>3, <2>2, <2>3
  <1>6. NextId(r, id2, Len(r)) = toId /\ NextBehind(r, behind2, Len(r)) = toBehind
    <2>1. Len(r) + 1 = Len(q) /\ Len(r) \in 0 .. Len(r)
      BY <1>1
    <2> QED BY <1>3, <2>1 DEF Joined
  <1>7. Joined(r, s, id2, behind2, toId, toBehind)
    BY <1>4, <1>5, <1>6 DEF Joined
  <1> QED BY <1>2, <1>7 DEF r, m

LEMMA FitsGrows ==
    ASSUME SequencesOK, MessagesFit, NEW m \in Pieces, queue' = Append(queue, m),
           HeaderSize + (IF m.fragment THEN SubheaderSize ELSE 0) + Len(m.octets) <= Mtu,
           m.octets # << >>
    PROVE  MessagesFit'
  <1>1. \A i \in DOMAIN queue' : (i \in DOMAIN queue /\ queue'[i] = queue[i]) \/ queue'[i] = m
    <2>1. queue \in Seq(Pieces) /\ queue' \in Seq(Pieces)
      BY Appended DEF SequencesOK
    <2>2. DOMAIN queue = 1 .. Len(queue) /\ DOMAIN queue' = 1 .. Len(queue')
      BY <2>1
    <2> QED BY <2>1, <2>2, Appended
  <1>2. \A i \in DOMAIN queue :
          /\ HeaderSize + (IF queue[i].fragment THEN SubheaderSize ELSE 0) + Len(queue[i].octets) <= Mtu
          /\ queue[i].octets # << >>
    BY DEF MessagesFit
  <1> SUFFICES ASSUME NEW i \in DOMAIN queue'
               PROVE  /\ HeaderSize + (IF queue'[i].fragment THEN SubheaderSize ELSE 0)
                            + Len(queue'[i].octets) <= Mtu
                      /\ queue'[i].octets # << >>
    BY DEF MessagesFit
  <1> QED BY <1>1, <1>2

LEMMA PushKeeps ==
    ASSUME FragmentsIInv, NEW size \in Sizes, push_large_submessage(size)
    PROVE  FragmentsIInv'
  <1> DEFINE id == Len(sent) + 1
             octets == Octets(id, size)
             m == [octets |-> octets, fragment |-> FALSE, last |-> FALSE]
  <1>1. /\ cutting = FALSE /\ sent' = Append(sent, octets)
        /\ fragment_msg' = fragment_msg /\ assembled' = assembled /\ restarted' = restarted
    BY DEF push_large_submessage, FragmentsIInv, SenderFine, SequencesOK
  <1>2. sent \in Seq(Seq(Octet)) /\ Len(sent) \in Nat /\ id \in Nat
    BY DEF FragmentsIInv, SenderFine, SequencesOK
  <1>3. /\ octets \in Seq(Octet) /\ Len(octets) = size /\ Stretch(octets, id, 0)
        /\ size \in Nat /\ size > 0
    BY <1>2, OctetsOfASubmessage, FragmentConstants
  <1> HIDE DEF octets
  <1>4. /\ sent' \in Seq(Seq(Octet)) /\ Len(sent') = id /\ sent' # << >>
        /\ \A k \in 1 .. Len(sent) : sent'[k] = sent[k]
        /\ sent'[id] = octets
    BY <1>1, <1>2, <1>3, Appended
  <1>5. Extends(sent', sent)
    BY <1>2, <1>4 DEF Extends
  <1>6. \A k \in 1 .. Len(sent') : Len(sent'[k]) \in Sizes /\ Stretch(sent'[k], k, 0)
    <2>1. \A k \in 1 .. Len(sent') : k \in 1 .. Len(sent) \/ k = id
      BY <1>2, <1>4
    <2>2. \A k \in 1 .. Len(sent) : Len(sent[k]) \in Sizes /\ Stretch(sent[k], k, 0)
      BY DEF FragmentsIInv, SenderFine, Cuts
    <2>3. Len(sent'[id]) \in Sizes /\ Stretch(sent'[id], id, 0)
      BY <1>3, <1>4
    <2> QED BY <1>4, <2>1, <2>2, <2>3
  <1>7. \A k \in 1 .. Len(assembled) : k \in 1 .. Len(sent) /\ assembled[k] = sent[k]
           => k \in 1 .. Len(sent') /\ assembled[k] = sent'[k]
    BY <1>5 DEF Extends
  <1>8. CASE HeaderSize + size <= Mtu
    <2>1. /\ queue' = Append(queue, m)
          /\ cutting' = FALSE /\ serialized' = serialized /\ cut' = cut
      BY <1>1, <1>8 DEF push_large_submessage, octets
    <2>2. m \in Pieces /\ m.octets # << >> /\ m.octets = octets /\ m.fragment = FALSE /\ m.last = FALSE
      BY <1>3 DEF Pieces
    <2>3. Id(m) = id /\ Behind(m) = 0 /\ Ends(m)
      <3>1. octets[1] = <<id, 0 + 1>>
        BY <1>3 DEF Stretch
      <3> QED BY <1>3, <2>2, <3>1 DEF Id, Behind, Ends
    <2> HIDE DEF m
    <2>4. SequencesOK'
      <3>1. queue' \in Seq(Pieces)
        BY <2>1, <2>2, Appended DEF FragmentsIInv, SenderFine, SequencesOK
      <3> QED BY <1>1, <1>4, <2>1, <3>1 DEF FragmentsIInv, SenderFine, SequencesOK
    <2>5. Cuts'
      <3>1. cut # << >> => \E k \in 1 .. Len(sent') : sent'[k] = cut
        BY <1>1, <1>5 DEF FragmentsIInv, SenderFine, Cuts, Extends
      <3> QED BY <1>6, <2>1, <3>1 DEF Cuts
    <2>6. MessagesFit'
      <3>1. HeaderSize + (IF m.fragment THEN SubheaderSize ELSE 0) + Len(m.octets) <= Mtu
        BY <1>3, <1>8, <2>2, FragmentConstants
      <3> QED BY <2>1, <2>2, <3>1, FitsGrows DEF FragmentsIInv, SenderFine
    <2>7. Belongs(m, sent')
      BY <1>2, <1>3, <1>4, <2>2, <2>3 DEF Belongs
    <2>8. ASSUME ~restarted PROVE Connected'
      <3>1. Joined(queue, sent, Len(assembled) + 1, Len(fragment_msg), id, 0)
        BY <1>1, <2>8 DEF FragmentsIInv, Connected
      <3>2. Joined(queue', sent', Len(assembled) + 1, Len(fragment_msg), id + 1, 0)
        <4>1. queue \in Seq(Pieces)
          BY DEF FragmentsIInv, SenderFine, SequencesOK
        <4> QED BY <1>5, <2>1, <2>2, <2>3, <2>7, <3>1, <4>1, JoinedGrows
      <3> QED BY <1>1, <1>4, <1>7, <2>1, <2>8, <3>2 DEF FragmentsIInv, Connected
    <2> QED BY <1>1, <2>4, <2>5, <2>6, <2>8 DEF FragmentsIInv, SenderFine
  <1>9. CASE HeaderSize + size > Mtu
    <2>1. /\ queue' = queue /\ cutting' = TRUE /\ serialized' = 0 /\ cut' = << >>
      <3>1. ~(HeaderSize + size <= Mtu)
        BY <1>3, <1>9, FragmentConstants
      <3> QED BY <3>1 DEF push_large_submessage
    <2>2. SequencesOK'
      BY <1>1, <1>4, <2>1 DEF FragmentsIInv, SenderFine, SequencesOK
    <2>3. Cuts'
      <3>1. Len(cut') = 0 /\ Len(sent'[Len(sent')]) = size
        BY <1>3, <1>4, <2>1
      <3> QED BY <1>3, <1>4, <1>6, <2>1, <3>1 DEF Cuts, Stretch
    <2>4. MessagesFit'
      BY <2>1 DEF FragmentsIInv, SenderFine, MessagesFit
    <2>5. ASSUME ~restarted PROVE Connected'
      <3>1. Joined(queue, sent, Len(assembled) + 1, Len(fragment_msg), id, 0)
        BY <1>1, <2>5 DEF FragmentsIInv, Connected
      <3>2. Joined(queue, sent', Len(assembled) + 1, Len(fragment_msg), id, 0)
        BY <1>5, <3>1, JoinedExtends
      <3> QED BY <1>1, <1>4, <1>7, <2>1, <2>5, <3>2 DEF FragmentsIInv, Connected
    <2> QED BY <1>1, <2>2, <2>3, <2>4, <2>5 DEF FragmentsIInv, SenderFine
  <1> QED BY <1>3, <1>8, <1>9, FragmentConstants


\* A turn of the loop takes octets off the front of the rest, no more than fit,
\* and the last turn takes them all.
LEMMA CutKeeps ==
    ASSUME FragmentsIInv, FitsWidth, CutFragment
    PROVE  FragmentsIInv'
  <1> DEFINE id == Len(sent)
             octets == sent[id]
             rest == Len(octets) - serialized
             last == IsLast(rest)
             n == IF last THEN rest ELSE max_fragment_size
             part == SubSeq(octets, serialized + 1, serialized + n)
             m == [octets |-> part, fragment |-> TRUE, last |-> last]
  <1> USE FragmentConstants
  <1>1. /\ sent' = sent /\ fragment_msg' = fragment_msg /\ assembled' = assembled
        /\ restarted' = restarted /\ cutting = TRUE
    BY DEF CutFragment, FragmentsIInv, SenderFine, SequencesOK
  <1>2. /\ sent \in Seq(Seq(Octet)) /\ id \in Nat /\ id > 0 /\ id \in 1 .. Len(sent)
        /\ octets \in Seq(Octet) /\ Len(octets) \in Sizes /\ Stretch(octets, id, 0)
    <2>1. sent \in Seq(Seq(Octet)) /\ sent # << >>
      BY <1>1 DEF FragmentsIInv, SenderFine, SequencesOK, Cuts
    <2>2. id \in Nat /\ id > 0 /\ id \in 1 .. Len(sent)
      BY <2>1
    <2> QED BY <2>1, <2>2 DEF FragmentsIInv, SenderFine, Cuts
  <1>3. /\ serialized \in Nat /\ serialized = Len(cut) /\ serialized < Len(octets)
        /\ cut \in Seq(Octet) /\ Stretch(cut, id, 0)
    BY <1>1 DEF FragmentsIInv, SenderFine, SequencesOK, Cuts
  <1>4. Len(octets) \in Nat /\ Len(octets) < Limit
    BY <1>2 DEF FitsWidth
  <1>5. /\ queue' = Append(queue, m) /\ cut' = cut \o part
        /\ serialized' = (serialized + n) % Limit
        /\ cutting' = (serialized' < Len(octets))
    BY DEF CutFragment, Last
  <1>6. rest \in Nat /\ rest > 0 /\ last \in BOOLEAN
    BY <1>3, <1>4 DEF IsLast
  <1>7. /\ n \in Nat /\ n > 0 /\ serialized + n <= Len(octets)
        /\ last <=> serialized + n = Len(octets)
        /\ HeaderSize + SubheaderSize + n <= Mtu
    <2> HIDE DEF octets
    <2>1. rest = Len(octets) - serialized /\ serialized + rest = Len(octets)
      BY <1>3, <1>4
    <2> HIDE DEF rest
    <2>2. CASE HeaderSize + SubheaderSize + rest <= Mtu
      <3>1. last /\ n = rest
        BY <2>2 DEF IsLast
      <3> QED BY <1>6, <2>1, <2>2, <3>1
    <2>3. CASE ~(HeaderSize + SubheaderSize + rest <= Mtu)
      <3>1. ~last /\ n = max_fragment_size
        BY <2>3 DEF IsLast
      <3> HIDE DEF last, n
      <3>2. n < rest
        BY <1>6, <2>3, <3>1
      <3> QED BY <1>3, <1>4, <1>6, <2>1, <3>1, <3>2
    <2> QED BY <2>2, <2>3
  <1> HIDE DEF n, last
  <1>8. /\ part \in Seq(Octet) /\ Len(part) = n
        /\ Stretch(part, id, serialized)
    <2>1. /\ part \in Seq(Octet) /\ Len(part) = n
          /\ \A i \in 1 .. n : part[i] = octets[serialized + i]
      BY <1>2, <1>3, <1>7, Excerpt
    <2>2. \A i \in 1 .. n : octets[serialized + i] = <<id, serialized + i>>
      <3> SUFFICES ASSUME NEW i \in 1 .. n
                   PROVE  octets[serialized + i] = <<id, serialized + i>>
        OBVIOUS
      <3>1. serialized + i \in 1 .. Len(octets)
        BY <1>3, <1>4, <1>7
      <3>2. octets[serialized + i] = <<id, 0 + (serialized + i)>>
        BY <1>2, <3>1 DEF Stretch
      <3> QED BY <1>3, <1>7, <3>2
    <2> QED BY <2>1, <2>2 DEF Stretch
  <1>9. serialized' = serialized + n /\ (cutting' <=> ~last) /\ cutting' \in BOOLEAN
    <2> HIDE DEF octets
    <2> DEFINE end == serialized + n
    <2>1. end \in Nat /\ end < Limit /\ Limit \in Nat
      BY <1>3, <1>4, <1>7
    <2>2. end <= Len(octets) /\ (last <=> end = Len(octets))
      BY <1>7
    <2>3. serialized' = end % Limit
      BY <1>5
    <2> HIDE DEF end
    <2>4. serialized' = end
      BY <2>1, <2>3, SmallResidue
    <2>5. cutting' = (end < Len(octets))
      BY <1>5, <2>4
    <2>6. end < Len(octets) <=> end # Len(octets)
      BY <1>4, <2>1, <2>2
    <2>7. cutting' \in BOOLEAN
      BY <2>5
    <2>8. cutting' <=> ~last
      BY <2>2, <2>5, <2>6, Zenon
    <2> QED BY <2>4, <2>7, <2>8 DEF end
  <1> HIDE DEF part
  <1>10. m \in Pieces /\ m.octets = part /\ m.fragment = TRUE /\ m.last = last /\ part # << >>
    BY <1>6, <1>7, <1>8 DEF Pieces
  <1>11. Id(m) = id /\ Behind(m) = serialized /\ (Ends(m) <=> last)
    <2>1. part[1] = <<id, serialized + 1>>
      BY <1>7, <1>8 DEF Stretch
    <2> QED BY <1>3, <1>10, <2>1 DEF Id, Behind, Ends
  <1> HIDE DEF m
  <1>12. cut' \in Seq(Octet) /\ Stretch(cut', id, 0) /\ Len(cut') = serialized + n
    <2>1. Stretch(part, id, 0 + Len(cut))
      BY <1>3, <1>8
    <2> QED BY <1>2, <1>3, <1>5, <1>8, <2>1, StretchesMeet
  <1>13. SequencesOK'
    <2>1. queue' \in Seq(Pieces)
      BY <1>5, <1>10, Appended DEF FragmentsIInv, SenderFine, SequencesOK
    <2>2. serialized' \in Nat
      BY <1>3, <1>7, <1>9
    <2> QED BY <1>1, <1>9, <1>12, <2>1, <2>2 DEF FragmentsIInv, SenderFine, SequencesOK
  <1>14. Cuts'
    <2>1. cutting' => serialized' < Len(octets)
      BY <1>5
    <2>2. ~cutting' => cut' = octets
      BY <1>2, <1>7, <1>9, <1>12, StretchesAgree
    <2> QED BY <1>1, <1>2, <1>9, <1>12, <2>1, <2>2 DEF FragmentsIInv, SenderFine, Cuts
  <1>15. MessagesFit'
    <2>1. HeaderSize + (IF m.fragment THEN SubheaderSize ELSE 0) + Len(m.octets) <= Mtu
      BY <1>7, <1>8, <1>10
    <2> QED BY <1>5, <1>10, <2>1, FitsGrows DEF FragmentsIInv, SenderFine
  <1>16. Belongs(m, sent)
    BY <1>2, <1>3, <1>7, <1>8, <1>10, <1>11 DEF Belongs
  <1>17. ASSUME ~restarted PROVE Connected'
    <2>1. Joined(queue, sent, Len(assembled) + 1, Len(fragment_msg), id, serialized)
      BY <1>1, <1>17 DEF FragmentsIInv, Connected
    <2>2. queue \in Seq(Pieces) /\ Extends(sent, sent)
      BY DEF FragmentsIInv, SenderFine, SequencesOK, Extends
    <2>3. Joined(queue', sent, Len(assembled) + 1, Len(fragment_msg),
                 IF Ends(m) THEN Id(m) + 1 ELSE Id(m),
                 IF Ends(m) THEN 0 ELSE Behind(m) + Len(m.octets))
      BY <1>5, <1>10, <1>11, <1>16, <2>1, <2>2, JoinedGrows
    <2>4. /\ (IF Ends(m) THEN Id(m) + 1 ELSE Id(m)) = IF cutting' THEN Len(sent) ELSE Len(sent) + 1
          /\ (IF Ends(m) THEN 0 ELSE Behind(m) + Len(m.octets)) = IF cutting' THEN serialized' ELSE 0
      BY <1>8, <1>9, <1>10, <1>11
    <2> QED BY <1>1, <1>17, <2>3, <2>4 DEF FragmentsIInv, Connected
  <1> QED BY <1>1, <1>13, <1>14, <1>15, <1>17 DEF FragmentsIInv, SenderFine


\* A message takes what is assembled one submessage further, or what is
\* collected of the next one some octets further.
LEMMA ReceiveKeeps ==
    ASSUME FragmentsIInv, Receive
    PROVE  FragmentsIInv'
  <1> DEFINE m == Head(queue)
             id == Len(assembled) + 1
             collected == fragment_msg \o m.octets
  <1>1. /\ queue # << >> /\ queue' = Tail(queue) /\ sent' = sent /\ cutting' = cutting
        /\ serialized' = serialized /\ cut' = cut /\ restarted' = restarted
    BY DEF Receive
  <1>2. /\ queue \in Seq(Pieces) /\ sent \in Seq(Seq(Octet)) /\ assembled \in Seq(Seq(Octet))
        /\ fragment_msg \in Seq(Octet)
    BY DEF FragmentsIInv, SenderFine, SequencesOK
  <1>3. /\ queue' \in Seq(Pieces) /\ Len(queue') = Len(queue) - 1 /\ Len(queue) \in Nat \ {0}
        /\ \A i \in 1 .. Len(queue') : queue'[i] = queue[i + 1]
        /\ m \in Pieces
    BY <1>1, <1>2, Detached
  <1> HIDE DEF m
  <1>4. m.octets \in Seq(Octet) /\ m.fragment \in BOOLEAN /\ m.last \in BOOLEAN
    BY <1>3 DEF Pieces
  <1>5. collected \in Seq(Octet) /\ Len(collected) = Len(fragment_msg) + Len(m.octets)
    BY <1>2, <1>4, Concatenated
  <1>6. MessagesFit'
    <2>1. \A i \in 1 .. Len(queue') : i + 1 \in DOMAIN queue
      BY <1>2, <1>3
    <2>2. DOMAIN queue' = 1 .. Len(queue')
      BY <1>3
    <2> QED BY <1>3, <2>1, <2>2 DEF FragmentsIInv, SenderFine, MessagesFit
  <1>7. Cuts'
    BY <1>1 DEF FragmentsIInv, SenderFine, Cuts
  <1>8. \/ /\ m.fragment = TRUE /\ m.last = FALSE
           /\ fragment_msg' = collected /\ assembled' = assembled
        \/ /\ m.fragment = TRUE /\ m.last = TRUE
           /\ fragment_msg' = << >> /\ assembled' = Append(assembled, collected)
        \/ /\ m.fragment = FALSE
           /\ fragment_msg' = fragment_msg /\ assembled' = Append(assembled, m.octets)
    BY <1>4 DEF Receive, process_fragment_submessage, m
  <1> HIDE DEF collected
  <1>9. SequencesOK'
    <2>1. fragment_msg' \in Seq(Octet)
      <3>1. << >> \in Seq(Octet)
        OBVIOUS
      <3> QED BY <1>2, <1>5, <1>8, <3>1, Zenon
    <2>2. assembled' \in Seq(Seq(Octet))
      <3>1. /\ Append(assembled, collected) \in Seq(Seq(Octet))
            /\ Append(assembled, m.octets) \in Seq(Seq(Octet))
        BY <1>2, <1>4, <1>5, Appended
      <3> QED BY <1>2, <1>8, <3>1, Zenon
    <2> QED BY <1>1, <1>3, <2>1, <2>2 DEF FragmentsIInv, SenderFine, SequencesOK
  <1>10. ASSUME ~restarted PROVE Connected'
    <2> DEFINE toId == IF cutting THEN Len(sent) ELSE Len(sent) + 1
               toBehind == IF cutting THEN serialized ELSE 0
    <2>1. /\ Joined(queue, sent, id, Len(fragment_msg), toId, toBehind)
          /\ Stretch(fragment_msg, id, 0)
          /\ \A k \in 1 .. Len(assembled) : k \in 1 .. Len(sent) /\ assembled[k] = sent[k]
      BY <1>10 DEF FragmentsIInv, Connected
    <2>2. /\ Belongs(m, sent) /\ Id(m) = id /\ Behind(m) = Len(fragment_msg)
          /\ Joined(queue', sent, IF Ends(m) THEN id + 1 ELSE id,
                    IF Ends(m) THEN 0 ELSE Len(fragment_msg) + Len(m.octets), toId, toBehind)
      BY <1>1, <1>2, <2>1, JoinedShrinks DEF m
    <2>3. toId' = toId /\ toBehind' = toBehind
      BY <1>1
    <2> HIDE DEF toId, toBehind
    <2>4. id \in 1 .. Len(sent) /\ id \in Nat /\ Stretch(m.octets, id, Len(fragment_msg))
      BY <1>2, <2>2 DEF Belongs
    <2>5. /\ Stretch(collected, id, 0)
      <3>1. Stretch(m.octets, id, 0 + Len(fragment_msg))
        BY <1>2, <2>4
      <3> QED BY <1>2, <1>4, <2>1, <2>4, <3>1, StretchesMeet DEF collected
    <2>6. sent[id] \in Seq(Octet) /\ Stretch(sent[id], id, 0)
      BY <1>2, <2>4 DEF FragmentsIInv, SenderFine, Cuts
    <2>7. CASE m.fragment = TRUE /\ m.last = FALSE
      <3>1. fragment_msg' = collected /\ assembled' = assembled /\ ~Ends(m)
        BY <1>8, <2>7 DEF Ends
      <3>2. Joined(queue', sent, id, Len(collected), toId, toBehind)
        BY <1>5, <2>2, <3>1
      <3> QED BY <1>1, <2>1, <2>3, <2>5, <3>1, <3>2 DEF Connected, toId, toBehind
    <2>8. ASSUME Ends(m), NEW whole \in Seq(Octet), assembled' = Append(assembled, whole),
                 Stretch(whole, id, 0), Len(whole) = Len(sent[id]), fragment_msg' = << >>
          PROVE  Connected'
      <3>1. whole = sent[id]
        BY <2>6, <2>8, StretchesAgree
      <3>2. /\ Len(assembled') = id
            /\ \A k \in 1 .. Len(assembled) : assembled'[k] = assembled[k]
            /\ assembled'[id] = sent[id]
        BY <1>2, <2>8, <3>1, Appended
      <3>3. \A k \in 1 .. Len(assembled') : k \in 1 .. Len(sent) /\ assembled'[k] = sent[k]
        <4>1. \A k \in 1 .. Len(assembled') : k \in 1 .. Len(assembled) \/ k = id
          <5>1. Len(assembled) \in Nat /\ 1 .. Len(assembled') = 1 .. Len(assembled) + 1
            BY <1>2, <3>2
          <5> QED BY <5>1
        <4> QED BY <2>1, <2>4, <3>2, <4>1
      <3>4. Len(fragment_msg') = 0 /\ Stretch(fragment_msg', id + 1, 0)
        BY <2>8 DEF Stretch
      <3>5. Joined(queue', sent, id + 1, 0, toId, toBehind)
        BY <2>2, <2>8
      <3> QED BY <1>1, <2>3, <3>2, <3>3, <3>4, <3>5 DEF Connected, toId, toBehind
    <2>9. CASE m.fragment = TRUE /\ m.last = TRUE
      <3>1. Ends(m) /\ Len(collected) = Len(sent[id])
        BY <1>5, <2>2, <2>9 DEF Belongs, Ends
      <3> QED BY <1>5, <1>8, <2>5, <2>8, <2>9, <3>1
    <2>10. CASE m.fragment = FALSE
      <3>1. Ends(m) /\ Len(fragment_msg) = 0
        BY <2>2, <2>10 DEF Belongs, Ends
      <3>2. fragment_msg = << >>
        BY <1>2, <3>1
      <3>3. Len(m.octets) = Len(sent[id]) /\ Stretch(m.octets, id, 0)
        BY <1>4, <2>2, <2>4, <3>1 DEF Belongs
      <3> QED BY <1>4, <1>8, <2>8, <2>10, <3>1, <3>2, <3>3
    <2> QED BY <1>4, <2>7, <2>9, <2>10
  <1> QED BY <1>1, <1>6, <1>7, <1>9, <1>10 DEF FragmentsIInv, SenderFine

LEMMA ResetKeeps ==
    ASSUME FragmentsIInv, Reset
    PROVE  FragmentsIInv'
  <1>1. SequencesOK' /\ MessagesFit'
    <2>1. queue' = << >> /\ DOMAIN queue' = {}
      BY DEF Reset
    <2>2. << >> \in Seq(Pieces) /\ << >> \in Seq(Octet)
      OBVIOUS
    <2>3. MessagesFit'
      BY <2>1 DEF MessagesFit
    <2> QED BY <2>2, <2>3 DEF Reset, FragmentsIInv, SenderFine, SequencesOK
  <1>2. Cuts'
    BY DEF Reset, FragmentsIInv, SenderFine, Cuts
  <1> QED BY <1>1, <1>2 DEF Reset, FragmentsIInv, SenderFine

LEMMA FragmentsStart == FragmentsInit => FragmentsIInv
  <1> SUFFICES ASSUME FragmentsInit PROVE FragmentsIInv
    OBVIOUS
  <1>1. /\ Len(sent) = 0 /\ Len(queue) = 0 /\ Len(assembled) = 0 /\ Len(fragment_msg) = 0
        /\ cutting = FALSE
    BY DEF FragmentsInit
  <1>2. SequencesOK /\ MessagesFit
    <2>1. DOMAIN queue = {}
      BY DEF FragmentsInit
    <2>2. << >> \in Seq(Pieces) /\ << >> \in Seq(Octet) /\ << >> \in Seq(Seq(Octet))
      OBVIOUS
    <2>3. MessagesFit
      BY <2>1 DEF MessagesFit
    <2> QED BY <2>2, <2>3 DEF FragmentsInit, SequencesOK
  <1>3. Cuts
    BY <1>1 DEF FragmentsInit, Cuts
  <1>4. Connected
    BY <1>1 DEF Connected, Joined, NextId, NextBehind, Stretch
  <1> QED BY <1>2, <1>3, <1>4 DEF FragmentsIInv, SenderFine

LEMMA FragmentsStep ==
    ASSUME FitsWidth, FragmentsIInv, [FragmentsNext]_fragments_vars
    PROVE  FragmentsIInv'
  <1>1. CASE UNCHANGED fragments_vars
    <2>1. SenderFine'
      BY <1>1 DEF fragments_vars, FragmentsIInv, SenderFine, SequencesOK, Cuts, MessagesFit
    <2>2. Connected => Connected'
      BY <1>1 DEF fragments_vars, Connected
    <2> QED BY <1>1, <2>1, <2>2 DEF fragments_vars, FragmentsIInv
  <1> QED BY <1>1, PushKeeps, CutKeeps, ReceiveKeeps, ResetKeeps DEF FragmentsNext

LEMMA PrefixByEntries ==
    ASSUME NEW S, NEW s \in Seq(S), NEW t \in Seq(S), Len(s) <= Len(t),
           \A i \in 1 .. Len(s) : s[i] = t[i]
    PROVE  IsPrefix(s, t)
  <1>1. Len(s) \in Nat /\ Len(t) \in Nat
    OBVIOUS
  <1>2. /\ SubSeq(s, 0 + 1, 0 + Len(s)) \in Seq(S) /\ SubSeq(t, 0 + 1, 0 + Len(s)) \in Seq(S)
        /\ Len(SubSeq(s, 0 + 1, 0 + Len(s))) = Len(s) /\ Len(SubSeq(t, 0 + 1, 0 + Len(s))) = Len(s)
        /\ \A i \in 1 .. Len(s) : SubSeq(s, 0 + 1, 0 + Len(s))[i] = s[0 + i]
        /\ \A i \in 1 .. Len(s) : SubSeq(t, 0 + 1, 0 + Len(s))[i] = t[0 + i]
    BY <1>1, Excerpt
  <1>3. SubSeq(s, 0 + 1, 0 + Len(s)) = SubSeq(t, 0 + 1, 0 + Len(s))
    <2>1. \A i \in 1 .. Len(s) : 0 + i = i
      OBVIOUS
    <2> QED BY <1>2, <2>1, SameSequence
  <1>4. 0 + 1 = 1 /\ 0 + Len(s) = Len(s)
    BY <1>1
  <1> QED BY <1>3, <1>4 DEF IsPrefix

\* For submessages of any sizes below 2^16 octets and any MTU with room for the
\* headers: every message fits and carries something, the fragments made so far
\* are a beginning of the submessage and in the end all of it, and until the
\* client starts anew the other end is handed whole submessages, in the order
\* they were pushed, and no octet twice (push_submessage, push_fragment,
\* pop_fragment_message).
THEOREM SubmessagesArriveWhole ==
    ASSUME FitsWidth
    PROVE  FragmentsSpec => []FragmentsInv
  <1>1. FragmentsIInv /\ [FragmentsNext]_fragments_vars => FragmentsIInv'
    BY FragmentsStep
  <1>2. ASSUME FragmentsIInv PROVE FragmentsInv
    <2>1. /\ sent \in Seq(Seq(Octet)) /\ assembled \in Seq(Seq(Octet)) /\ cut \in Seq(Octet)
          /\ Len(sent) \in Nat /\ Len(assembled) \in Nat
      BY <1>2 DEF FragmentsIInv, SenderFine, SequencesOK
    <2>2. SubmessagesInOrder
      <3> SUFFICES ASSUME ~restarted
                   PROVE  IsPrefix(assembled, sent) /\ (~cutting /\ queue = << >> => assembled = sent)
        BY DEF SubmessagesInOrder
      <3>1. Connected
        BY <1>2 DEF FragmentsIInv
      <3>2. Len(assembled) <= Len(sent) /\ \A k \in 1 .. Len(assembled) : assembled[k] = sent[k]
        <4>1. Len(assembled) > 0 => Len(assembled) \in 1 .. Len(assembled)
          BY <2>1
        <4> QED BY <2>1, <3>1, <4>1 DEF Connected
      <3>3. IsPrefix(assembled, sent)
        BY <2>1, <3>2, PrefixByEntries
      <3>4. ASSUME ~cutting, queue = << >> PROVE assembled = sent
        <4>1. Len(assembled) + 1 = Len(sent) + 1
          BY <3>1, <3>4 DEF Connected, Joined, NextId
        <4> QED BY <2>1, <3>2, <4>1, SameSequence
      <3> QED BY <3>3, <3>4
    <2>3. FragmentsInOrder
      <3>1. ASSUME cutting PROVE IsPrefix(cut, Last(sent))
        <4>1. /\ sent # << >> /\ Len(cut) < Len(sent[Len(sent)]) /\ Stretch(cut, Len(sent), 0)
          BY <1>2, <3>1 DEF FragmentsIInv, SenderFine, Cuts
        <4>2. Len(sent) \in 1 .. Len(sent)
          BY <2>1, <4>1
        <4>3. sent[Len(sent)] \in Seq(Octet) /\ Stretch(sent[Len(sent)], Len(sent), 0)
          BY <1>2, <2>1, <4>2 DEF FragmentsIInv, SenderFine, Cuts
        <4>4. \A i \in 1 .. Len(cut) : cut[i] = sent[Len(sent)][i]
          <5>1. \A i \in 1 .. Len(cut) : i \in 1 .. Len(sent[Len(sent)])
            BY <2>1, <4>1, <4>3
          <5> QED BY <4>1, <4>3, <5>1 DEF Stretch
        <4>5. Len(cut) <= Len(sent[Len(sent)])
          BY <2>1, <4>1, <4>3
        <4> QED BY <2>1, <4>3, <4>4, <4>5, PrefixByEntries DEF Last
      <3>2. ASSUME ~cutting, cut # << >> PROVE \E m \in Range(sent) : m = cut
        <4>1. PICK k \in 1 .. Len(sent) : sent[k] = cut
          BY <1>2, <3>2 DEF FragmentsIInv, SenderFine, Cuts
        <4> QED BY <2>1, <4>1 DEF Range
      <3> QED BY <3>1, <3>2 DEF FragmentsInOrder
    <2> QED BY <1>2, <2>2, <2>3 DEF FragmentsIInv, SenderFine, FragmentsInv
  <1> QED BY FragmentsStart, <1>1, <1>2, PTL DEF FragmentsSpec


--------------------------------------------------------------------------------
(* Requests and replies                                                    *)

\* What a requester has given DDS, and which of it it remembers.  A number is
\* remembered under the id it was written with, and not while it is written.
Remembers ==
    /\ written \in [Requesters -> Seq(RequestIds)]
    /\ writing \in [Requesters -> Nat]
    /\ DOMAIN sequence_to_sequence = Requesters
    /\ \A r \in Requesters :
          /\ writing[r] \in {0, Len(written[r])}
          /\ DOMAIN sequence_to_sequence[r] \subseteq 1 .. Len(written[r])
          /\ writing[r] \notin DOMAIN sequence_to_sequence[r]
          /\ \A n \in DOMAIN sequence_to_sequence[r] :
                sequence_to_sequence[r][n] = written[r][n]

\* A reply names the request it answers.
Honest ==
    /\ DOMAIN replies = Requesters
    /\ \A r \in Requesters : \A a \in replies[r] : a.related = a.answers

\* A number that was answered is settled: it will not be remembered again.
Settled ==
    /\ DOMAIN answered = Requesters
    /\ \A r \in Requesters : \A d \in answered[r] :
          /\ d.reply.answers.writer = r
          /\ d.reply.answers.number \in 1 .. Len(written[r])
          /\ d.reply.answers.number # writing[r]
          /\ d.reply.answers.number \notin DOMAIN sequence_to_sequence[r]
          /\ d.request_id = written[r][d.reply.answers.number]

RepliesIInv == Remembers /\ Honest /\ Settled /\ OneReplyEach

\* A request takes a new number.
LEMMA WriteRequestKeeps ==
    ASSUME RepliesIInv, NEW r \in Requesters, NEW id \in RequestIds, WriteRequest(r, id)
    PROVE  RepliesIInv'
  <1> DEFINE n == Len(written[r]) + 1
  <1>1. /\ written' = [written EXCEPT ![r] = Append(@, id)]
        /\ writing' = [writing EXCEPT ![r] = n]
        /\ sequence_to_sequence' = sequence_to_sequence
        /\ replies' = replies /\ answered' = answered
        /\ writing[r] = 0
    BY DEF WriteRequest
  <1>2. written[r] \in Seq(RequestIds) /\ Len(written[r]) \in Nat
    BY DEF RepliesIInv, Remembers
  <1>3. /\ written' \in [Requesters -> Seq(RequestIds)]
        /\ writing' \in [Requesters -> Nat]
    BY <1>1, <1>2 DEF RepliesIInv, Remembers
  <1>4. \A q \in Requesters :
          /\ q # r => written'[q] = written[q] /\ writing'[q] = writing[q]
          /\ q = r => writing'[q] = n /\ Len(written'[q]) = n
          /\ \A i \in 1 .. Len(written[q]) :
                i \in 1 .. Len(written'[q]) /\ written'[q][i] = written[q][i]
          /\ Len(written[q]) \in Nat
    BY <1>1, <1>2 DEF RepliesIInv, Remembers
  <1> HIDE DEF n
  <1>5. n = Len(written[r]) + 1 BY DEF n
  <1>6. Remembers'
    <2>1. \A q \in Requesters :
            /\ writing'[q] \in {0, Len(written'[q])}
            /\ DOMAIN sequence_to_sequence[q] \subseteq 1 .. Len(written'[q])
            /\ writing'[q] \notin DOMAIN sequence_to_sequence[q]
      BY <1>2, <1>4, <1>5 DEF RepliesIInv, Remembers
    <2>2. \A q \in Requesters : \A i \in DOMAIN sequence_to_sequence[q] :
            sequence_to_sequence[q][i] = written'[q][i]
      BY <1>4 DEF RepliesIInv, Remembers
    <2> QED BY <1>1, <1>3, <2>1, <2>2 DEF RepliesIInv, Remembers
  <1>7. Settled'
    <2> SUFFICES ASSUME NEW q \in Requesters, NEW d \in answered[q]
                 PROVE  /\ d.reply.answers.writer = q
                        /\ d.reply.answers.number \in 1 .. Len(written'[q])
                        /\ d.reply.answers.number # writing'[q]
                        /\ d.reply.answers.number \notin DOMAIN sequence_to_sequence[q]
                        /\ d.request_id = written'[q][d.reply.answers.number]
      BY <1>1 DEF RepliesIInv, Settled
    <2>1. /\ d.reply.answers.writer = q
          /\ d.reply.answers.number \in 1 .. Len(written[q])
          /\ d.reply.answers.number # writing[q]
          /\ d.reply.answers.number \notin DOMAIN sequence_to_sequence[q]
          /\ d.request_id = written[q][d.reply.answers.number]
      BY DEF RepliesIInv, Settled
    <2>2. d.reply.answers.number # writing'[q]
      BY <1>4, <1>5, <2>1
    <2> QED BY <1>4, <2>1, <2>2
  <1>8. Honest' /\ OneReplyEach'
    BY <1>1 DEF RepliesIInv, Honest, OneReplyEach
  <1> QED BY <1>6, <1>7, <1>8 DEF RepliesIInv

\* The number that was written is remembered under its id.
LEMMA RememberKeeps ==
    ASSUME RepliesIInv, NEW r \in Requesters, Remember(r)
    PROVE  RepliesIInv'
  <1>1. /\ written' = written /\ replies' = replies /\ answered' = answered
        /\ writing' = [writing EXCEPT ![r] = 0]
        /\ writing[r] # 0
    BY DEF Remember
  <1>2. DOMAIN sequence_to_sequence' = Requesters
    BY DEF Remember, RepliesIInv, Remembers
  <1>3. \A q \in Requesters :
          /\ writing'[q] = IF q = r THEN 0 ELSE writing[q]
          /\ q # r => sequence_to_sequence'[q] = sequence_to_sequence[q]
    BY <1>1 DEF Remember, RepliesIInv, Remembers
  <1>4. sequence_to_sequence'[r] =
          [n \in DOMAIN sequence_to_sequence[r] \union {writing[r]} |->
             IF n \in DOMAIN sequence_to_sequence[r] THEN sequence_to_sequence[r][n]
             ELSE written[r][n]]
    BY DEF Remember, RepliesIInv, Remembers
  <1>5. /\ DOMAIN sequence_to_sequence'[r] = DOMAIN sequence_to_sequence[r] \union {writing[r]}
        /\ \A n \in DOMAIN sequence_to_sequence'[r] :
              sequence_to_sequence'[r][n] = IF n \in DOMAIN sequence_to_sequence[r]
                                            THEN sequence_to_sequence[r][n] ELSE written[r][n]
    BY <1>4
  <1>6. writing[r] = Len(written[r]) /\ writing[r] \in 1 .. Len(written[r])
    BY <1>1 DEF RepliesIInv, Remembers
  <1>7. Remembers'
    <2>1. writing' \in [Requesters -> Nat]
      BY <1>1 DEF RepliesIInv, Remembers
    <2>2. \A q \in Requesters :
            /\ writing'[q] \in {0, Len(written[q])}
            /\ DOMAIN sequence_to_sequence'[q] \subseteq 1 .. Len(written[q])
            /\ writing'[q] \notin DOMAIN sequence_to_sequence'[q]
      BY <1>3, <1>5, <1>6 DEF RepliesIInv, Remembers
    <2>3. \A q \in Requesters : \A n \in DOMAIN sequence_to_sequence'[q] :
            sequence_to_sequence'[q][n] = written[q][n]
      <3>1. \A q \in Requesters : \A n \in DOMAIN sequence_to_sequence[q] :
              sequence_to_sequence[q][n] = written[q][n]
        BY DEF RepliesIInv, Remembers
      <3> QED BY <1>3, <1>5, <3>1
    <2> QED BY <1>1, <1>2, <2>1, <2>2, <2>3 DEF RepliesIInv, Remembers
  <1>8. Settled'
    <2> SUFFICES ASSUME NEW q \in Requesters, NEW d \in answered[q]
                 PROVE  /\ d.reply.answers.number # writing'[q]
                        /\ d.reply.answers.number \notin DOMAIN sequence_to_sequence'[q]
      BY <1>1 DEF RepliesIInv, Settled
    <2>1. /\ d.reply.answers.number \in 1 .. Len(written[q])
          /\ d.reply.answers.number # writing[q]
          /\ d.reply.answers.number \notin DOMAIN sequence_to_sequence[q]
      BY DEF RepliesIInv, Settled
    <2> QED BY <1>3, <1>5, <2>1
  <1>9. Honest' /\ OneReplyEach'
    BY <1>1 DEF RepliesIInv, Honest, OneReplyEach
  <1> QED BY <1>7, <1>8, <1>9 DEF RepliesIInv

\* A reply that is remembered settles its number; another changes nothing.
LEMMA ReadReplyKeeps ==
    ASSUME RepliesIInv, NEW r \in Requesters, NEW a \in replies[r], ReadReply(r, a)
    PROVE  RepliesIInv'
  <1> DEFINE n == a.related.number
             mine == a.related.writer = r /\ n \in DOMAIN sequence_to_sequence[r]
             new == [request_id |-> sequence_to_sequence[r][n], reply |-> a]
  <1>1. /\ written' = written /\ writing' = writing
        /\ replies' = [replies EXCEPT ![r] = @ \ {a}]
    BY DEF ReadReply
  <1>2. Honest'
    BY <1>1 DEF RepliesIInv, Honest
  <1>3. a.answers = a.related
    BY DEF RepliesIInv, Honest
  <1>4. CASE ~mine
    <2>1. answered' = answered /\ sequence_to_sequence' = sequence_to_sequence
      BY <1>4 DEF ReadReply
    <2> QED BY <1>1, <1>2, <2>1 DEF RepliesIInv, Remembers, Settled, OneReplyEach
  <1>5. CASE mine
    <2>1. /\ answered' = [answered EXCEPT ![r] = @ \union {new}]
          /\ sequence_to_sequence' = [sequence_to_sequence EXCEPT
                ![r] = [m \in DOMAIN sequence_to_sequence[r] \ {n} |-> sequence_to_sequence[r][m]]]
      BY <1>5 DEF ReadReply, Restrict
    <2>2. /\ DOMAIN sequence_to_sequence' = Requesters /\ DOMAIN answered' = Requesters
          /\ \A q \in Requesters :
                /\ q # r => sequence_to_sequence'[q] = sequence_to_sequence[q]
                            /\ answered'[q] = answered[q]
                /\ q = r => answered'[q] = answered[q] \union {new}
      BY <2>1 DEF RepliesIInv, Remembers, Settled
    <2>3. /\ DOMAIN sequence_to_sequence'[r] = DOMAIN sequence_to_sequence[r] \ {n}
          /\ \A m \in DOMAIN sequence_to_sequence[r] \ {n} :
                sequence_to_sequence'[r][m] = sequence_to_sequence[r][m]
      BY <2>1 DEF RepliesIInv, Remembers
    <2>4. /\ new.request_id = written[r][n] /\ new.reply = a
          /\ new.reply.answers.number = n /\ new.reply.answers.writer = r
          /\ n \in 1 .. Len(written[r]) /\ n # writing[r]
          /\ n \in DOMAIN sequence_to_sequence[r]
      BY <1>3, <1>5 DEF RepliesIInv, Remembers
    <2> HIDE DEF new, n
    <2>5. Remembers'
      BY <1>1, <2>2, <2>3 DEF RepliesIInv, Remembers
    <2>6. Settled'
      <3> SUFFICES ASSUME NEW q \in Requesters, NEW d \in answered'[q]
                   PROVE  /\ d.reply.answers.writer = q
                          /\ d.reply.answers.number \in 1 .. Len(written[q])
                          /\ d.reply.answers.number # writing[q]
                          /\ d.reply.answers.number \notin DOMAIN sequence_to_sequence'[q]
                          /\ d.request_id = written[q][d.reply.answers.number]
        BY <1>1, <2>2 DEF Settled
      <3>1. CASE q = r /\ d = new
        BY <2>3, <2>4, <3>1
      <3>2. CASE d \in answered[q]
        BY <2>2, <2>3, <3>2 DEF RepliesIInv, Settled
      <3> QED BY <2>2, <3>1, <3>2
    <2>7. OneReplyEach'
      <3> SUFFICES ASSUME NEW q \in Requesters, NEW d \in answered'[q], NEW e \in answered'[q],
                          d.reply.answers = e.reply.answers
                   PROVE  d = e
        BY DEF OneReplyEach
      <3>1. CASE d \in answered[q] /\ e \in answered[q]
        BY <3>1 DEF RepliesIInv, OneReplyEach
      <3>2. \A f \in answered[r] : f.reply.answers.number # n
        BY <2>4 DEF RepliesIInv, Settled
      <3> QED BY <2>2, <2>4, <3>1, <3>2
    <2> QED BY <1>2, <2>5, <2>6, <2>7 DEF RepliesIInv
  <1> QED BY <1>4, <1>5

LEMMA RepliesStart == RequestInit => RepliesIInv
  <1> SUFFICES ASSUME RequestInit PROVE RepliesIInv
    OBVIOUS
  <1>1. \A r \in Requesters : /\ written[r] = << >> /\ writing[r] = 0
                              /\ sequence_to_sequence[r] = << >>
                              /\ replies[r] = {} /\ answered[r] = {}
    BY DEF RequestInit
  <1>2. Remembers
    BY <1>1 DEF RequestInit, Remembers
  <1> QED BY <1>1, <1>2 DEF RequestInit, RepliesIInv, Honest, Settled, OneReplyEach

LEMMA RepliesStep == RepliesIInv /\ [RequestNext]_request_vars => RepliesIInv'
  <1> SUFFICES ASSUME RepliesIInv, [RequestNext]_request_vars PROVE RepliesIInv'
    OBVIOUS
  <1>1. CASE UNCHANGED request_vars
    BY <1>1 DEF request_vars, RepliesIInv, Remembers, Honest, Settled, OneReplyEach
  <1>2. ASSUME NEW p \in Repliers, NEW q \in Identities, ReadRequest(p, q)
        PROVE  RepliesIInv'
    BY <1>2 DEF ReadRequest, RepliesIInv, Remembers, Honest, Settled, OneReplyEach
  <1>3. ASSUME NEW p \in Repliers, NEW q \in Identities, WriteReply(p, q)
        PROVE  RepliesIInv'
    <2>1. Honest'
      BY <1>3 DEF WriteReply, RepliesIInv, Honest
    <2> QED BY <1>3, <2>1 DEF WriteReply, RepliesIInv, Remembers, Settled, OneReplyEach
  <1> QED BY <1>1, <1>2, <1>3, WriteRequestKeeps, RememberKeeps, ReadReplyKeeps DEF RequestNext

\* Every reply a client is given answers a request of its own, under the id it
\* gave it, and no request is answered twice: for any requesters, repliers and
\* ids, though ids are used again and DDS gives every reply to every requester
\* (FastDDSRequester::write, FastDDSRequester::read, FastDDSReplier::write).
THEOREM RepliesFindRequests == RequestSpec => []RepliesInv
  <1>1. RepliesIInv => RepliesInv
    BY DEF RepliesIInv, Settled, OneReplyEach, RepliesInv, RepliesMatchRequests
  <1> QED BY RepliesStart, RepliesStep, <1>1, PTL DEF RequestSpec

--------------------------------------------------------------------------------
(* The thread that reads for a client                                      *)

Owners == {"idle", "joins", "stopped", "gone"}

Entries == Nat \X Nat

ReaderTypes ==
    /\ ReaderTypeOK
    /\ owner \in Owners /\ entity \in BOOLEAN /\ late \in BOOLEAN
    /\ read_samples \in Seq(Entries)
    /\ stops \in Nat

\* Who has stopped whom: an owner that is not in stop_reading and has told no
\* thread to stop has none, or one that runs; past the join there is none.
OwnerKnows ==
    /\ StartsAfterJoin
    /\ owner # "idle" => ~running
    /\ owner = "idle" /\ ~running => reader_pc = "none"
    /\ owner \in {"joins", "stopped"} /\ purpose = "read" => reads < MaxReads
    /\ kind = "datareader" => reader_pc # "undefined" /\ (~entity => owner = "gone")

\* The sample in hand is the last one DDS gave; a thread that was not told to
\* stop comes to its check with empty hands.
InHand ==
    /\ sample # 0 => sample = unread - 1 /\ reader_pc \in {"consume", "write", "check"}
    /\ reader_pc \in {"consume", "write"} => sample # 0
    /\ reader_pc = "check" /\ running => sample = 0

ControlInv == ReaderTypes /\ OwnerKnows /\ InHand

LEMMA ReaderConstants ==
    /\ MaxSamples \in Nat /\ MaxReads \in Nat /\ CountModulus \in Nat /\ CountModulus > 1
    /\ Unlimited \in Nat /\ Unlimited = CountModulus - 1
    /\ NoControl \in Controls
    /\ \A c \in Controls : c.max_samples \in Nat
  BY ReaderAssumption DEF Unlimited, NoControl, Controls

LEMMA StopReading ==
    ASSUME stops \in Nat, NEW for_what, stop_reading(for_what)
    PROVE  stops' \in Nat /\ owner' \in Owners /\ running' \in BOOLEAN
  <1>1. stops' \in Nat
    <2>1. CASE running BY <2>1 DEF stop_reading
    <2>2. CASE ~running BY <2>2 DEF stop_reading
    <2> QED BY <2>1, <2>2
  <1>2. owner' \in Owners
    BY DEF stop_reading, Owners
  <1>3. running' \in BOOLEAN
    BY DEF stop_reading
  <1> QED BY <1>1, <1>2, <1>3

\* The processing thread: a thread is started only when none is left.
LEMMA OwnerKeepsControl ==
    ASSUME ControlInv,
           \/ Join \/ start_reading \/ delete_datareader \/ Delete
           \/ \E ctl \in Controls : ReadData(ctl)
    PROVE  ControlInv'
  <1> USE ReaderConstants
          DEF ControlInv, ReaderTypes, ReaderTypeOK, Owners, OwnerKnows, StartsAfterJoin, InHand,
              thread, dds
  <1>1. CASE Join
    BY <1>1 DEF Join
  <1>2. CASE start_reading
    <2>1. reads' \in 0 .. MaxReads /\ message_count' \in 0 .. CountModulus - 1
      BY <1>2 DEF start_reading
    <2>2. ReaderTypes'
      BY <1>2, <2>1 DEF start_reading
    <2> QED BY <1>2, <2>2 DEF start_reading
  <1>3. CASE delete_datareader
    BY <1>3 DEF delete_datareader
  <1>4. CASE Delete
    <2>1. ReaderTypes'
      <3>1. stops' \in Nat /\ owner' \in Owners /\ running' \in BOOLEAN
        BY <1>4, StopReading DEF Delete
      <3>2. entity' \in BOOLEAN /\ next' \in Controls
        BY <1>4 DEF Delete, stop_reading
      <3> QED BY <1>4, <3>1, <3>2 DEF Delete
    <2>2. OwnerKnows'
      BY <1>4 DEF Delete, stop_reading
    <2> QED BY <1>4, <2>1, <2>2 DEF Delete, stop_reading
  <1>5. ASSUME NEW ctl \in Controls, ReadData(ctl) PROVE ControlInv'
    <2>1. ReaderTypes'
      <3>1. stops' \in Nat /\ owner' \in Owners /\ running' \in BOOLEAN
        BY <1>5, StopReading DEF ReadData
      <3>2. entity' \in BOOLEAN /\ next' \in Controls
        BY <1>5 DEF ReadData, stop_reading
      <3> QED BY <1>5, <3>1, <3>2 DEF ReadData
    <2>2. OwnerKnows'
      BY <1>5 DEF ReadData, stop_reading
    <2> QED BY <1>5, <2>1, <2>2 DEF ReadData, stop_reading
  <1> QED BY <1>1, <1>2, <1>3, <1>4, <1>5

\* The thread, the clock and DDS.
LEMMA ThreadKeepsControl ==
    ASSUME ControlInv, Thread \/ Elapse \/ Publish
    PROVE  ControlInv'
  <1> USE ReaderConstants
          DEF ControlInv, ReaderTypes, ReaderTypeOK, Owners, OwnerKnows, StartsAfterJoin, InHand,
              thread, dds, Others
  <1>1. CASE EnterRead BY <1>1 DEF EnterRead
  <1>2. CASE Take BY <1>2 DEF Take
  <1>3. CASE ReadTimeout BY <1>3 DEF ReadTimeout
  <1>4. CASE ReadDestroyed BY <1>4 DEF ReadDestroyed
  <1>5. CASE PassBucket BY <1>5 DEF PassBucket
  <1>6. CASE ConsumeTimeout BY <1>6 DEF ConsumeTimeout
  <1>7. CASE Write
    <2>1. message_count' \in 0 .. CountModulus - 1
      BY <1>7 DEF Write
    <2>2. <<reads, sample>> \in Entries
      BY DEF Entries
    <2>3. read_samples' \in Seq(Entries)
      BY <1>7, <2>2 DEF Write
    <2> QED BY <1>7, <2>1, <2>3 DEF Write
  <1>8. CASE WriteTimeout BY <1>8 DEF WriteTimeout
  <1>9. CASE Check BY <1>9 DEF Check
  <1>10. CASE Elapse BY <1>10 DEF Elapse
  <1>11. CASE Publish BY <1>11 DEF Publish
  <1> QED BY <1>1, <1>2, <1>3, <1>4, <1>5, <1>6, <1>7, <1>8, <1>9, <1>10, <1>11 DEF Thread

LEMMA ReaderControl ==
    ASSUME ControlInv, [ReaderNext]_reader_vars
    PROVE  ControlInv'
  <1>1. CASE UNCHANGED reader_vars
    BY <1>1 DEF reader_vars, ControlInv, ReaderTypes, ReaderTypeOK, OwnerKnows, StartsAfterJoin,
                InHand
  <1> QED BY <1>1, OwnerKeepsControl, ThreadKeepsControl DEF ReaderNext, Owner

\* What an action that writes nothing to the stream leaves alone.
Quiet == read_samples' = read_samples /\ reads' = reads

\* Which actions are quiet, and what the others do.
LEMMA QuietSteps ==
    ASSUME [ReaderNext]_reader_vars
    PROVE  \/ Write \/ start_reading
           \/ /\ Quiet /\ control' = control /\ message_count' = message_count
              /\ \/ Take \/ Check
                 \/ /\ unread' = unread /\ sample' = sample /\ Thread
                 \/ /\ unread' = unread /\ sample' = sample
                    /\ reader_pc' = reader_pc \/ Join
  <1> USE DEF Quiet
  <1>1. CASE UNCHANGED reader_vars
    BY <1>1 DEF reader_vars
  <1>2. CASE Thread
    BY <1>2 DEF Thread, EnterRead, Take, ReadTimeout, ReadDestroyed, PassBucket, ConsumeTimeout,
                WriteTimeout, Check, Others, dds
  <1>3. CASE Owner
    BY <1>3 DEF Owner, Join, delete_datareader, thread, dds
  <1>4. CASE Delete \/ (\E ctl \in Controls : ReadData(ctl))
    BY <1>4 DEF Delete, ReadData, thread, dds
  <1>5. CASE Elapse \/ Publish
    BY <1>5 DEF Elapse, Publish, Others, thread, dds
  <1> QED BY <1>1, <1>2, <1>3, <1>4, <1>5 DEF ReaderNext

\* The entry that Write adds.
LEMMA WriteAppends ==
    ASSUME ControlInv, Write
    PROVE  /\ Len(read_samples) \in Nat
           /\ Len(read_samples') = Len(read_samples) + 1
           /\ \A i \in 1 .. Len(read_samples) : read_samples'[i] = read_samples[i]
           /\ read_samples'[Len(read_samples) + 1][1] = reads
           /\ read_samples'[Len(read_samples) + 1][2] = sample
           /\ reads' = reads /\ unread' = unread /\ control' = control
  <1>1. read_samples \in Seq(Entries) /\ <<reads, sample>> \in Entries
    BY ReaderConstants DEF ControlInv, ReaderTypes, ReaderTypeOK, Entries
  <1>2. read_samples' = Append(read_samples, <<reads, sample>>)
    BY DEF Write
  <1> QED BY <1>1, <1>2 DEF Write, Others, dds

\* Samples leave in the order they came, each under the read that was going on.
InTurn ==
    /\ SamplesInOrder
    /\ \A i \in 1 .. Len(read_samples) :
          read_samples[i][2] < unread /\ read_samples[i][1] <= reads
    /\ reader_pc \in {"consume", "write"} =>
          \A i \in 1 .. Len(read_samples) : read_samples[i][2] < sample

LEMMA EntryTypes ==
    ASSUME ControlInv
    PROVE  /\ Len(read_samples) \in Nat /\ reads \in Nat /\ unread \in Nat /\ sample \in Nat
           /\ \A i \in 1 .. Len(read_samples) :
                 read_samples[i][1] \in Nat /\ read_samples[i][2] \in Nat
  <1>1. \A i \in 1 .. Len(read_samples) : read_samples[i] \in Entries
    BY DEF ControlInv, ReaderTypes
  <1>2. Len(read_samples) \in Nat /\ reads \in Nat /\ unread \in Nat /\ sample \in Nat
    BY ReaderConstants DEF ControlInv, ReaderTypes, ReaderTypeOK
  <1> QED BY <1>1, <1>2 DEF Entries

LEMMA ReaderOrder ==
    ASSUME ControlInv, InTurn, [ReaderNext]_reader_vars
    PROVE  InTurn'
  <1> USE EntryTypes
  <1>1. CASE Write
    <2>1. reader_pc = "write" /\ sample # 0 /\ sample = unread - 1 /\ reader_pc' = "check"
      BY <1>1 DEF Write, ControlInv, InHand
    <2>2. \A i \in 1 .. Len(read_samples) :
            read_samples[i][2] < sample /\ read_samples[i][1] <= reads
      BY <2>1 DEF InTurn
    <2>3. \A i \in 1 .. Len(read_samples') :
            \/ i \in 1 .. Len(read_samples) /\ read_samples'[i] = read_samples[i]
            \/ i = Len(read_samples) + 1 /\ read_samples'[i][1] = reads
                                         /\ read_samples'[i][2] = sample
      BY <1>1, WriteAppends
    <2>4. SamplesInOrder'
      <3> SUFFICES ASSUME NEW i \in 1 .. Len(read_samples'), NEW j \in 1 .. Len(read_samples'),
                          i < j
                   PROVE  /\ read_samples'[i][2] < read_samples'[j][2]
                          /\ read_samples'[i][1] <= read_samples'[j][1]
        BY DEF SamplesInOrder
      <3>1. i \in 1 .. Len(read_samples) /\ read_samples'[i] = read_samples[i]
        BY <1>1, WriteAppends
      <3>2. CASE j \in 1 .. Len(read_samples)
        BY <1>1, <3>1, <3>2, WriteAppends DEF InTurn, SamplesInOrder
      <3>3. CASE j = Len(read_samples) + 1
        <4>1. read_samples'[j][1] = reads /\ read_samples'[j][2] = sample
          BY <1>1, <3>3, WriteAppends
        <4>2. read_samples[i][2] < sample /\ read_samples[i][1] <= reads
          BY <2>2, <3>1
        <4> QED BY <3>1, <4>1, <4>2
      <3> QED BY <2>3, <3>2, <3>3
    <2>5. \A i \in 1 .. Len(read_samples') :
            read_samples'[i][2] < unread /\ read_samples'[i][1] <= reads
      <3>1. sample < unread
        BY <2>1
      <3> SUFFICES ASSUME NEW i \in 1 .. Len(read_samples')
                   PROVE  read_samples'[i][2] < unread /\ read_samples'[i][1] <= reads
        OBVIOUS
      <3>2. CASE i \in 1 .. Len(read_samples) /\ read_samples'[i] = read_samples[i]
        BY <3>2 DEF InTurn
      <3> QED BY <2>3, <3>1, <3>2
    <2>6. unread' = unread /\ reads' = reads
      BY <1>1, WriteAppends
    <2> QED BY <2>1, <2>4, <2>5, <2>6 DEF InTurn
  <1>2. CASE start_reading
    BY <1>2 DEF start_reading, InTurn, SamplesInOrder, dds
  <1>3. CASE Take
    <2>1. /\ read_samples' = read_samples /\ reads' = reads
          /\ unread' = unread + 1 /\ sample' = unread
      BY <1>3 DEF Take, Others
    <2>2. \A i \in 1 .. Len(read_samples) :
            /\ read_samples[i][2] < sample' /\ read_samples[i][2] < unread'
            /\ read_samples[i][1] <= reads
      BY <2>1 DEF InTurn
    <2> QED BY <2>1, <2>2 DEF InTurn, SamplesInOrder
  <1>4. CASE Check
    BY <1>4 DEF Check, InTurn, SamplesInOrder, Others, dds
  <1>5. CASE Quiet /\ unread' = unread /\ sample' = sample /\ Thread
    <2>1. reader_pc' \in {"consume", "write"} => reader_pc \in {"consume", "write"}
                                                 \/ Take \/ Write \/ Check
      BY <1>5 DEF Thread, EnterRead, ReadTimeout, ReadDestroyed, PassBucket, ConsumeTimeout,
                  WriteTimeout
    <2> QED BY <1>1, <1>3, <1>4, <1>5, <2>1 DEF InTurn, SamplesInOrder, Quiet
  <1>6. CASE Quiet /\ unread' = unread /\ sample' = sample /\ (reader_pc' = reader_pc \/ Join)
    BY <1>6 DEF Join, InTurn, SamplesInOrder, Quiet
  <1> QED BY <1>1, <1>2, <1>3, <1>4, <1>5, <1>6, QuietSteps

\* Entries of the read that goes on; message_count counts them, up to its wrap.
OfThisRead == {i \in 1 .. Len(read_samples) : read_samples[i][1] = reads}

Counts ==
    control.max_samples \notin {0, Unlimited} =>
        /\ Cardinality(OfThisRead) = message_count
        /\ message_count <= control.max_samples
        /\ reader_pc \in {"read", "wait", "consume", "write"} =>
              message_count < control.max_samples

LEMMA ReaderCount ==
    ASSUME ControlInv, InTurn, Counts, [ReaderNext]_reader_vars
    PROVE  Counts'
  <1> USE EntryTypes, ReaderConstants
  <1>0. /\ IsFiniteSet(OfThisRead) /\ message_count \in Nat
        /\ control.max_samples \in Nat /\ control \in Controls /\ next \in Controls
    <2>1. IsFiniteSet(1 .. Len(read_samples)) /\ OfThisRead \subseteq 1 .. Len(read_samples)
      BY FS_Interval DEF OfThisRead
    <2>2. IsFiniteSet(OfThisRead)
      BY <2>1, FS_Subset
    <2>3. control \in Controls /\ next \in Controls /\ message_count \in Nat
      BY DEF ControlInv, ReaderTypes, ReaderTypeOK
    <2> QED BY <2>2, <2>3
  <1>1. CASE Write
    <2>1. OfThisRead' = OfThisRead \union {Len(read_samples) + 1}
      BY <1>1, WriteAppends DEF OfThisRead
    <2>2. Len(read_samples) + 1 \notin OfThisRead
      BY DEF OfThisRead
    <2>3. Cardinality(OfThisRead') = Cardinality(OfThisRead) + 1
      BY <1>0, <2>1, <2>2, FS_AddElement
    <2> SUFFICES ASSUME control.max_samples \notin {0, Unlimited}
                 PROVE  /\ Cardinality(OfThisRead') = message_count'
                        /\ message_count' <= control.max_samples
      BY <1>1 DEF Counts, Write, Others
    <2>4. message_count < control.max_samples /\ Cardinality(OfThisRead) = message_count
      BY <1>1 DEF Counts, Write
    <2>5. control.max_samples <= Unlimited
      BY <1>0 DEF Controls
    <2>6. message_count + 1 < CountModulus
      BY <1>0, <2>4, <2>5
    <2>7. message_count' = message_count + 1
      <3> DEFINE n == message_count + 1
      <3>2. n \in Nat /\ n < CountModulus /\ CountModulus \in Nat
        BY <1>0, <2>6
      <3> HIDE DEF n
      <3>1. n % CountModulus = n
        BY <3>2, SmallResidue
      <3>3. message_count' = (message_count + 1) % CountModulus
        BY <1>1 DEF Write
      <3> QED BY <3>1, <3>3 DEF n
    <2> QED BY <1>0, <2>3, <2>4, <2>7
  <1>2. CASE start_reading
    <2>1. OfThisRead' = {}
      BY <1>2 DEF start_reading, OfThisRead, InTurn
    <2>2. Cardinality({}) = 0
      BY FS_EmptySet
    <2> QED BY <1>0, <1>2, <2>1, <2>2 DEF start_reading, Counts
  <1>3. CASE Quiet /\ control' = control /\ message_count' = message_count
              /\ (reader_pc' \in {"read", "wait", "consume", "write"} =>
                    reader_pc \in {"read", "wait", "consume", "write"})
    BY <1>3 DEF Counts, OfThisRead, Quiet
  <1>4. CASE Check
    BY <1>0, <1>4 DEF Check, Counts, OfThisRead, Others
  <1>5. CASE Take \/ Join
    BY <1>3, <1>5, QuietSteps DEF Take, Join, Others, Quiet
  <1>6. CASE Thread
    <2>1. \/ Write \/ Check
          \/ (reader_pc' \in {"read", "wait", "consume", "write"} =>
                reader_pc \in {"read", "wait", "consume", "write"})
      BY <1>6 DEF Thread, EnterRead, Take, ReadTimeout, ReadDestroyed, PassBucket,
                  ConsumeTimeout, WriteTimeout
    <2> QED BY <1>1, <1>2, <1>3, <1>4, <2>1, QuietSteps
  <1> QED BY <1>1, <1>2, <1>3, <1>4, <1>5, <1>6, QuietSteps

\* What was taken from DDS, is not in hand and was not delivered.  A thread
\* that was told to stop, and has not seen it yet, may lose one more.
Lost ==
    {s \in 1 .. unread - 1 : s # sample /\ \A i \in 1 .. Len(read_samples) : read_samples[i][2] # s}

ToldToStop == ~running /\ reader_pc \in {"read", "wait", "consume", "write", "check"}

LosesByStop ==
    /\ Cardinality(Lost) <= stops
    /\ ToldToStop => Cardinality(Lost) + 1 <= stops

LEMMA LostIsFinite ==
    ASSUME ControlInv
    PROVE  IsFiniteSet(Lost) /\ Cardinality(Lost) \in Nat /\ stops \in Nat
  <1>1. Lost \subseteq 1 .. unread - 1
    BY DEF Lost
  <1>2. IsFiniteSet(1 .. unread - 1)
    BY EntryTypes, FS_Interval
  <1>3. IsFiniteSet(Lost)
    BY <1>1, <1>2, FS_Subset
  <1> QED BY <1>3, FS_CardinalityType DEF ControlInv, ReaderTypes

\* What the thread does: only the check lets a sample go.
LEMMA ThreadLoses ==
    ASSUME ControlInv, LosesByStop, Thread
    PROVE  LosesByStop'
  <1> USE EntryTypes, LostIsFinite
  <1>0. running' = running /\ stops' = stops
    BY DEF Thread, EnterRead, Take, ReadTimeout, ReadDestroyed, PassBucket, ConsumeTimeout, Write,
           WriteTimeout, Check, Others
  <1>1. CASE Lost' = Lost /\ (ToldToStop' => ToldToStop)
    BY <1>0, <1>1 DEF LosesByStop
  <1>2. CASE Take
    <2>1. sample = 0 /\ sample' = unread /\ unread' = unread + 1 /\ read_samples' = read_samples
      BY <1>2 DEF Take, ControlInv, InHand
    <2>2. Lost' = Lost
      BY <2>1 DEF Lost
    <2> QED BY <1>0, <1>1, <1>2, <2>2 DEF Take, ToldToStop
  <1>3. CASE Write
    <2>1. sample # 0 /\ sample' = 0
      BY <1>3 DEF Write, ControlInv, InHand
    <2>2. \A s \in Nat : (\A i \in 1 .. Len(read_samples') : read_samples'[i][2] # s)
             <=> s # sample /\ \A i \in 1 .. Len(read_samples) : read_samples[i][2] # s
      <3>1. \A i \in 1 .. Len(read_samples') :
              \/ i \in 1 .. Len(read_samples) /\ read_samples'[i] = read_samples[i]
              \/ i = Len(read_samples) + 1 /\ read_samples'[i][2] = sample
        BY <1>3, WriteAppends
      <3>2. /\ Len(read_samples) + 1 \in 1 .. Len(read_samples')
            /\ read_samples'[Len(read_samples) + 1][2] = sample
            /\ \A i \in 1 .. Len(read_samples) :
                  i \in 1 .. Len(read_samples') /\ read_samples'[i] = read_samples[i]
        BY <1>3, WriteAppends
      <3> QED BY <3>1, <3>2
    <2>3. unread' = unread
      BY <1>3, WriteAppends
    <2>4. Lost' = Lost
      <3>1. \A s \in 1 .. unread - 1 : s \in Nat /\ s # 0
        OBVIOUS
      <3>2. \A s \in 1 .. unread - 1 : s \in Lost' <=> s \in Lost
        BY <2>1, <2>2, <2>3, <3>1 DEF Lost
      <3> QED BY <2>3, <3>2 DEF Lost
    <2> QED BY <1>0, <1>1, <1>3, <2>4 DEF Write, ToldToStop
  <1>4. CASE Check
    <2>1. sample' = 0 /\ unread' = unread /\ read_samples' = read_samples
      BY <1>4 DEF Check, dds
    <2>2. CASE running
      <3>1. sample = 0
        BY <1>4, <2>2 DEF Check, ControlInv, InHand
      <3>2. Lost' = Lost
        BY <2>1, <3>1 DEF Lost
      <3> QED BY <1>0, <1>1, <2>2, <3>2 DEF ToldToStop
    <2>3. CASE ~running
      <3>1. Lost' \subseteq Lost \union {sample}
        BY <2>1 DEF Lost
      <3>2. /\ IsFiniteSet(Lost \union {sample})
            /\ Cardinality(Lost \union {sample}) <= Cardinality(Lost) + 1
            /\ Cardinality(Lost \union {sample}) \in Nat
        <4> DEFINE n == Cardinality(Lost)
        <4>1. IsFiniteSet(Lost) /\ n \in Nat
          OBVIOUS
        <4>2. /\ IsFiniteSet(Lost \union {sample})
              /\ Cardinality(Lost \union {sample}) \in {n, n + 1}
          BY <4>1, FS_AddElement
        <4> HIDE DEF n
        <4>3. Cardinality(Lost \union {sample}) <= n + 1 /\ Cardinality(Lost \union {sample}) \in Nat
          BY <4>1, <4>2
        <4> QED BY <4>2, <4>3 DEF n
      <3>3. Cardinality(Lost') \in Nat /\ Cardinality(Lost') <= Cardinality(Lost \union {sample})
        BY <3>1, <3>2, FS_Subset, FS_CardinalityType
      <3>4. ToldToStop /\ ~ToldToStop'
        BY <1>4, <2>3 DEF Check, ToldToStop
      <3>5. Cardinality(Lost) + 1 <= stops
        BY <3>4 DEF LosesByStop
      <3> QED BY <1>0, <3>2, <3>3, <3>4, <3>5 DEF LosesByStop
    <2> QED BY <2>2, <2>3
  <1>5. ASSUME ~Take, ~Write, ~Check
        PROVE  LosesByStop'
    <2>1. sample' = sample /\ unread' = unread /\ read_samples' = read_samples
      BY <1>5 DEF Thread, EnterRead, ReadTimeout, ReadDestroyed, PassBucket, ConsumeTimeout,
                  WriteTimeout, dds
    <2>2. Lost' = Lost
      BY <2>1 DEF Lost
    <2>3. ToldToStop' => ToldToStop
      BY <1>0, <1>5 DEF Thread, EnterRead, ReadTimeout, ReadDestroyed, PassBucket, ConsumeTimeout,
                        WriteTimeout, ToldToStop
    <2> QED BY <1>1, <2>2, <2>3
  <1> QED BY <1>2, <1>3, <1>4, <1>5

\* A stop is counted when it tells a thread to stop, or there is none.
LEMMA ReaderLoss ==
    ASSUME ControlInv, LosesByStop, [ReaderNext]_reader_vars
    PROVE  LosesByStop'
  <1> USE LostIsFinite
  <1>1. CASE start_reading
    <2>1. sample = 0 /\ sample' = 0
      BY <1>1 DEF start_reading, ControlInv, OwnerKnows, StartsAfterJoin, InHand
    <2>2. Lost' = Lost
      BY <1>1, <2>1 DEF start_reading, Lost, dds
    <2> QED BY <1>1, <2>2 DEF start_reading, LosesByStop, ToldToStop
  <1>2. ASSUME NEW for_what, stop_reading(for_what), owner = "idle", UNCHANGED <<thread, dds, read_samples>>
        PROVE  LosesByStop'
    <2>1. Lost' = Lost
      BY <1>2 DEF Lost, thread, dds
    <2>2. CASE running
      BY <1>2, <2>1, <2>2 DEF stop_reading, LosesByStop
    <2>3. CASE ~running
      BY <1>2, <2>1, <2>3 DEF stop_reading, LosesByStop, ControlInv, OwnerKnows, ToldToStop, thread
    <2> QED BY <2>2, <2>3
  <1>3. CASE Delete \/ (\E ctl \in Controls : ReadData(ctl))
    BY <1>2, <1>3 DEF Delete, ReadData
  <1>4. CASE Join
    BY <1>4 DEF Join, Lost, LosesByStop, ToldToStop, dds
  <1>5. CASE delete_datareader \/ Elapse \/ Publish \/ UNCHANGED reader_vars
    <2>1. /\ sample' = sample /\ unread' = unread /\ read_samples' = read_samples
          /\ running' = running /\ reader_pc' = reader_pc /\ stops' = stops
      BY <1>5 DEF delete_datareader, Elapse, Publish, reader_vars, thread, dds, Others
    <2> QED BY <2>1 DEF Lost, LosesByStop, ToldToStop
  <1> QED BY <1>1, <1>3, <1>4, <1>5, ThreadLoses DEF ReaderNext, Owner

ReaderIInv == ControlInv /\ InTurn /\ Counts /\ LosesByStop

LEMMA ReaderStart == ReaderInit => ReaderIInv
  <1> SUFFICES ASSUME ReaderInit PROVE ReaderIInv
    OBVIOUS
  <1>1. ControlInv
    <2>1. ReaderTypeOK
      <3>1. 0 \in 0 .. CountModulus - 1 /\ 0 \in 0 .. MaxSamples /\ 0 \in 0 .. MaxReads
        BY ReaderConstants
      <3>2. control \in Controls /\ next \in Controls
        BY ReaderConstants DEF ReaderInit
      <3>3. unread \in 1 .. published + 1
        BY DEF ReaderInit
      <3> QED BY <3>1, <3>2, <3>3 DEF ReaderInit, ReaderTypeOK
    <2>2. read_samples \in Seq(Entries)
      BY DEF ReaderInit
    <2> QED BY <2>1, <2>2 DEF ReaderInit, ControlInv, ReaderTypes, Owners, OwnerKnows,
                              StartsAfterJoin, InHand
  <1>2. Len(read_samples) = 0 /\ unread = 1
    BY DEF ReaderInit
  <1>3. Lost = {} /\ OfThisRead = {}
    BY <1>2 DEF Lost, OfThisRead
  <1>4. Cardinality({}) = 0
    BY FS_EmptySet
  <1>5. InTurn
    BY <1>2 DEF ReaderInit, InTurn, SamplesInOrder
  <1>6. LosesByStop
    BY <1>3, <1>4 DEF ReaderInit, LosesByStop, ToldToStop
  <1>7. Counts
    BY <1>3, <1>4 DEF ReaderInit, Counts, NoControl
  <1> QED BY <1>1, <1>5, <1>6, <1>7 DEF ReaderIInv

\* Whatever samples come, whenever a read is stopped, started anew or its
\* object deleted, and however often its loops time out: samples leave once and
\* in order, within their number's limit, none is lost but one by each stop,
\* no thread is started on top of another, and that of a data reader never
\* waits in an entity that is gone (Reader::read_task, Reader::start_reading,
\* Reader::stop_reading, DataReader::read, DataReader::~DataReader).
THEOREM ReadsAreSafe == ReaderSpec => []ReaderInv
  <1>1. ReaderIInv /\ [ReaderNext]_reader_vars => ReaderIInv'
    BY ReaderControl, ReaderOrder, ReaderCount, ReaderLoss DEF ReaderIInv
  <1>2. ASSUME ReaderIInv PROVE ReaderInv
    <2>1. WithinMaxSamples
      BY <1>2 DEF ReaderIInv, Counts, OfThisRead, WithinMaxSamples
    <2>2. LostOnlyByStop
      BY <1>2 DEF ReaderIInv, LosesByStop, Lost, LostOnlyByStop
    <2>3. EntityOutlivesRead
      BY <1>2 DEF ReaderIInv, ControlInv, OwnerKnows, StartsAfterJoin, EntityOutlivesRead
    <2> QED BY <1>2, <2>1, <2>2, <2>3
            DEF ReaderIInv, ControlInv, ReaderTypes, OwnerKnows, InTurn, ReaderInv
  <1> QED BY ReaderStart, <1>1, <1>2, PTL DEF ReaderSpec

--------------------------------------------------------------------------------
(* The rate of a read                                                      *)

LEMMA BucketConstants ==
    /\ TokenModulus \in Nat /\ TokenModulus > 0 /\ Den \in Nat /\ Den > 0 /\ MaxTime \in Nat
    /\ \A r \in Rates : r \in Nat /\ r > 0
    /\ TokenModulus \div 2 \in Nat /\ TokenModulus = 2 * (TokenModulus \div 2)
    /\ \A t \in Timeouts : t \in Nat
  BY BucketAssumption

LEMMA LongestTimeout ==
    Max(Timeouts) \in Nat /\ \A t \in Timeouts : t <= Max(Timeouts)
  <1>1. PICK longest \in Timeouts : \A t \in Timeouts : t <= longest
    BY BucketAssumption
  <1>2. \E t \in Timeouts : \A u \in Timeouts : t >= u
    BY <1>1, BucketConstants
  <1>3. Max(Timeouts) \in Timeouts /\ \A u \in Timeouts : Max(Timeouts) >= u
    BY <1>2 DEF Max
  <1> QED BY <1>3, BucketConstants

LEMMA SmallerOfTwo ==
    ASSUME NEW a \in Nat, NEW b \in Nat
    PROVE  Min({a, b}) \in {a, b} /\ Min({a, b}) <= a /\ Min({a, b}) <= b
  <1>1. \E x \in {a, b} : \A y \in {a, b} : x <= y
    <2>1. CASE a <= b BY <2>1
    <2>2. CASE b <= a BY <2>2
    <2> QED BY <2>1, <2>2
  <1>2. Min({a, b}) \in {a, b} /\ \A y \in {a, b} : Min({a, b}) <= y
    BY <1>1 DEF Min
  <1> QED BY <1>2

\* Wrapping and dividing take nothing but away.
LEMMA Wrapped ==
    ASSUME NEW m \in Nat, m > 0, NEW x \in Nat
    PROVE  x % m \in Nat /\ x % m <= x /\ x % m < m
  OBVIOUS

LEMMA Quotient ==
    ASSUME NEW d \in Nat, d > 0, NEW x \in Nat
    PROVE  x \div d \in Nat /\ d * (x \div d) <= x /\ x < d * (x \div d) + d
  OBVIOUS

LEMMA Factor ==
    ASSUME NEW d \in Nat, NEW a \in Int, NEW b \in Int, a <= b
    PROVE  d * a \in Int /\ d * b \in Int /\ d * a <= d * b
  OBVIOUS

LEMMA Distributes ==
    ASSUME NEW d \in Int, NEW a \in Int, NEW b \in Int
    PROVE  d * (a + b) = d * a + d * b /\ d * (a - b) = d * a - d * b
  OBVIOUS

(* Nothing is earned but by the rate, and nothing above the capacity.      *)
LEMMA TokensEarned ==
    ASSUME rate \in Rates, tokens \in 0 .. capacity, timestamp \in Nat,
           NEW time \in Nat, timestamp <= time
    PROVE  /\ TokensAt(time) \in 0 .. capacity
           /\ (TokensAt(time) - tokens) * Den <= rate * (time - timestamp)
  <1> DEFINE elapsed == Unsigned(time - timestamp)
             product == Unsigned(rate * elapsed)
             gained  == product \div Den
             sum     == Unsigned(tokens + gained)
  <1>1. rate \in Nat /\ rate > 0 /\ Den \in Nat /\ Den > 0 /\ TokenModulus \in Nat /\ TokenModulus > 0
        /\ capacity = rate /\ tokens \in Nat /\ time - timestamp \in Nat
    BY BucketConstants DEF capacity
  <1>2. elapsed \in Nat /\ elapsed <= time - timestamp
    BY <1>1, Wrapped DEF Unsigned
  <1>3. rate * elapsed \in Nat /\ rate * elapsed <= rate * (time - timestamp)
    <2> HIDE DEF elapsed
    <2> QED BY <1>1, <1>2, Factor
  <1>4. product \in Nat /\ product <= rate * elapsed
    <2> HIDE DEF elapsed
    <2> QED BY <1>1, <1>3, Wrapped DEF Unsigned
  <1>5. gained \in Nat /\ Den * gained <= product
    <2> HIDE DEF product
    <2> QED BY <1>1, <1>4, Quotient
  <1>6. sum \in Nat /\ sum <= tokens + gained
    <2> HIDE DEF gained
    <2>1. tokens + gained \in Nat BY <1>1, <1>5
    <2> QED BY <1>1, <2>1, Wrapped DEF Unsigned
  <1>7. TokensAt(time) = Min({capacity, sum})
    BY DEF TokensAt
  <1> HIDE DEF sum, gained, product, elapsed
  <1>8. TokensAt(time) \in Nat /\ TokensAt(time) <= capacity /\ TokensAt(time) <= sum
    BY <1>1, <1>6, <1>7, SmallerOfTwo
  <1>9. Den * (TokensAt(time) - tokens) <= Den * gained
    BY <1>1, <1>5, <1>6, <1>8, Factor
  <1>10. Den * (TokensAt(time) - tokens) = (TokensAt(time) - tokens) * Den
    BY <1>1, <1>8
  <1>11. Den * gained \in Int /\ Den * (TokensAt(time) - tokens) \in Int /\ rate * (time - timestamp) \in Int
    BY <1>1, <1>5, <1>8
  <1>12. (TokensAt(time) - tokens) * Den <= rate * (time - timestamp)
    BY <1>3, <1>4, <1>5, <1>9, <1>10, <1>11
  <1> QED BY <1>1, <1>8, <1>12

(* The difference wraps, but the division by a rate above one brings it    *)
(* back into the positive durations: a wait never ends before it began.    *)
LEMMA WaitIsForward ==
    ASSUME rate \in Rates, rate > 1, tokens \in Nat, NEW required \in Nat
    PROVE  Missing(required) \in Nat
  <1> DEFINE product == Unsigned(Den * Unsigned(tokens - required))
             length  == product \div rate
  <1>1. rate \in Nat /\ Den \in Nat /\ TokenModulus \in Nat /\ TokenModulus > 0
        /\ TokenModulus \div 2 \in Nat /\ TokenModulus = 2 * (TokenModulus \div 2)
    BY BucketConstants
  <1>2. Unsigned(tokens - required) \in Nat
    BY <1>1 DEF Unsigned
  <1>3. Den * Unsigned(tokens - required) \in Nat
    BY <1>1, <1>2
  <1>4. product \in Nat /\ product < TokenModulus
    BY <1>1, <1>3, Wrapped DEF Unsigned
  <1>5. length \in Nat /\ rate * length <= product
    <2> HIDE DEF product
    <2> QED BY <1>1, <1>4, Quotient
  <1>6. Missing(required) = IF length < TokenModulus \div 2 THEN length ELSE length - TokenModulus
    BY DEF Missing, Signed
  <1> HIDE DEF length, product
  <1>7. 2 * length <= rate * length
    <2>1. length * 2 <= length * rate BY <1>1, <1>5, Factor
    <2> QED BY <1>1, <1>5, <2>1
  <1>8. rate * length \in Int BY <1>1, <1>5
  <1>9. 2 * length < 2 * (TokenModulus \div 2)
    BY <1>1, <1>4, <1>5, <1>7, <1>8
  <1>10. length < TokenModulus \div 2
    BY <1>1, <1>5, <1>9
  <1> QED BY <1>5, <1>6, <1>10

(* What was taken, what the running call will take and what is left is at  *)
(* most a full bucket and what was earned by the last success, which may   *)
(* be a time no call has returned at yet.                                  *)
Account == (taken + owed + tokens - capacity) * Den <= rate * timestamp

BucketIInv ==
    /\ BucketTypeOK
    /\ rate > 1 /\ now <= MaxTime
    /\ timestamp = success /\ timestamp <= wake
    /\ Account
    /\ RateKept

LEMMA BucketRanges ==
    ASSUME BucketTypeOK
    PROVE  /\ rate \in Rates /\ rate \in Nat /\ rate > 0 /\ capacity = rate
           /\ tokens \in Nat /\ tokens <= rate
           /\ timestamp \in Nat /\ now \in Nat /\ wake \in Nat
           /\ owed \in Nat /\ taken \in Nat /\ success \in Nat
           /\ Den \in Nat /\ MaxTime \in Nat /\ Max(Timeouts) \in Nat
           /\ wake <= MaxTime + Max(Timeouts)
  BY BucketConstants, LongestTimeout DEF BucketTypeOK, capacity

\* The account after a success at a time, for what was asked.
LEMMA AccountGrows ==
    ASSUME BucketTypeOK, Account, NEW time \in Nat, timestamp <= time,
           NEW required \in Nat, TokensAt(time) >= required
    PROVE  /\ TokensAt(time) - required \in 0 .. capacity
           /\ (taken + owed + required + (TokensAt(time) - required) - capacity) * Den <= rate * time
  <1>1. /\ TokensAt(time) \in 0 .. capacity
        /\ (TokensAt(time) - tokens) * Den <= rate * (time - timestamp)
    BY TokensEarned, BucketRanges DEF BucketTypeOK
  <1> DEFINE a == taken + owed + tokens - capacity
             b == TokensAt(time) - tokens
  <1>2. a \in Int /\ b \in Int /\ Den \in Int /\ rate \in Int /\ time \in Int /\ timestamp \in Int /\ required \in Int
    BY <1>1, BucketRanges
  <1>3. taken + owed + required + (TokensAt(time) - required) - capacity = a + b
    BY <1>1, <1>2, BucketRanges
  <1>4. a * Den <= rate * timestamp
    BY DEF Account
  <1>5. b * Den <= rate * (time - timestamp)
    BY <1>1
  <1>6. TokensAt(time) - required \in 0 .. capacity
    BY <1>1, <1>2, BucketRanges
  <1> HIDE DEF a, b
  <1>7. (a + b) * Den = a * Den + b * Den /\ rate * (time - timestamp) = rate * time - rate * timestamp
    <2>1. Den * (a + b) = Den * a + Den * b BY <1>2, Distributes
    <2>2. Den * (a + b) = (a + b) * Den /\ Den * a = a * Den /\ Den * b = b * Den BY <1>2
    <2>3. rate * (time - timestamp) = rate * time - rate * timestamp BY <1>2, Distributes
    <2> QED BY <2>1, <2>2, <2>3
  <1>8. a * Den \in Int /\ b * Den \in Int /\ rate * time \in Int /\ rate * timestamp \in Int
    BY <1>2
  <1>9. (a + b) * Den <= rate * time
    BY <1>4, <1>5, <1>7, <1>8
  <1> QED BY <1>3, <1>6, <1>9

\* What is left counts for nobody: the account bounds what was taken.
LEMMA TakenBelowAccount ==
    ASSUME NEW d \in Nat, NEW t \in Nat, NEW rest \in Nat, NEW c \in Nat, NEW bound \in Int,
           (t + rest - c) * d <= bound
    PROVE  (t - c) * d <= bound
  <1>1. d * (t - c) <= d * (t + rest - c)
    BY Factor
  <1>2. d * (t - c) = (t - c) * d /\ d * (t + rest - c) = (t + rest - c) * d
    OBVIOUS
  <1>3. d * (t - c) \in Int /\ d * (t + rest - c) \in Int
    OBVIOUS
  <1> QED BY <1>1, <1>2, <1>3

\* The end of the wait a call computes.
LEMMA FinalTime ==
    ASSUME BucketTypeOK, rate > 1, NEW required \in Nat, NEW timeout \in Timeouts, now <= MaxTime
    PROVE  LET final == now + Min({Missing(required), timeout})
           IN  final \in Nat /\ now <= final /\ final <= MaxTime + Max(Timeouts)
  <1>1. Missing(required) \in Nat /\ timeout \in Nat /\ timeout <= Max(Timeouts)
    BY WaitIsForward, BucketRanges, BucketConstants, LongestTimeout
  <1>2. Min({Missing(required), timeout}) \in Nat /\ Min({Missing(required), timeout}) <= timeout
    BY <1>1, SmallerOfTwo
  <1> QED BY <1>1, <1>2, BucketRanges

\* The ways a call ends: it succeeds at the time it returns, or it fails and
\* changes nothing.
LEMMA CallOutcome ==
    ASSUME BucketTypeOK, rate > 1, now <= MaxTime, timestamp <= now,
           NEW required \in Nat, NEW timeout \in Timeouts
    PROVE  LET r == consume_tokens(required, timeout)
           IN  /\ r.wake \in Nat /\ now <= r.wake /\ r.wake <= MaxTime + Max(Timeouts)
               /\ r.ok \in BOOLEAN
               /\ r.ok => /\ r.timestamp = r.wake /\ r.tokens = TokensAt(r.wake) - required
                          /\ TokensAt(r.wake) >= required
               /\ ~r.ok => r.timestamp = timestamp /\ r.tokens = tokens
  <1> DEFINE final == now + Min({Missing(required), timeout})
             before == TokensAt(now)
             after  == TokensAt(final)
             fits  == required <= capacity
             large == required > capacity
             enough == before >= required
             short == before < required
             grown == after >= required
             Fail(t) == [ok |-> FALSE, tokens |-> tokens, timestamp |-> timestamp, wake |-> t]
             Succeed(n, t) == [ok |-> TRUE, tokens |-> n - required, timestamp |-> t, wake |-> t]
  <1>1. final \in Nat /\ now <= final /\ final <= MaxTime + Max(Timeouts) /\ now \in Nat
    BY FinalTime, BucketRanges
  <1>2. now <= MaxTime + Max(Timeouts) /\ now <= now
    BY BucketRanges
  <1>3. before \in Nat /\ after \in Nat /\ capacity \in Nat
    <2> HIDE DEF final
    <2>1. timestamp <= final BY <1>1, BucketRanges
    <2> QED BY <1>1, <2>1, TokensEarned, BucketRanges DEF BucketTypeOK
  <1>4. (large <=> ~fits) /\ (short <=> ~enough)
    <2> HIDE DEF final, before, after
    <2> QED BY <1>3
  <1>5. consume_tokens(required, timeout) =
          CASE large -> Fail(now)
            [] fits /\ enough -> Succeed(before, now)
            [] fits /\ short /\ grown -> Succeed(after, final)
            [] OTHER -> Fail(final)
    BY DEF consume_tokens
  <1> HIDE DEF large, fits, enough, short, grown
  <1>6. \/ consume_tokens(required, timeout) = Fail(now)
        \/ consume_tokens(required, timeout) = Succeed(before, now) /\ enough
        \/ consume_tokens(required, timeout) = Succeed(after, final) /\ grown
        \/ consume_tokens(required, timeout) = Fail(final)
    <2> HIDE DEF Fail, Succeed, final, before, after
    <2>1. CASE large BY <2>1, <1>4, <1>5
    <2>2. CASE fits /\ enough BY <2>2, <1>4, <1>5
    <2>3. CASE fits /\ short /\ grown BY <2>3, <1>4, <1>5
    <2>4. CASE ~large /\ ~(fits /\ enough) /\ ~(fits /\ short /\ grown) BY <2>4, <1>4, <1>5
    <2> QED BY <2>1, <2>2, <2>3, <2>4
  <1>7. CASE consume_tokens(required, timeout) = Fail(now)
    BY <1>1, <1>2, <1>7
  <1>8. CASE consume_tokens(required, timeout) = Fail(final)
    <2> HIDE DEF final
    <2> QED BY <1>1, <1>2, <1>8
  <1>9. CASE consume_tokens(required, timeout) = Succeed(before, now) /\ enough
    BY <1>1, <1>2, <1>9 DEF enough
  <1>10. CASE consume_tokens(required, timeout) = Succeed(after, final) /\ grown
    <2> HIDE DEF final
    <2> QED BY <1>1, <1>2, <1>10 DEF grown
  <1> QED BY <1>6, <1>7, <1>8, <1>9, <1>10

(* While the clock is bounded nothing wraps, so a call at the right time   *)
(* finds everything that was earned.                                       *)
LEMMA TriesAreFree ==
    ASSUME BucketIInv
    PROVE  TriesDoNotStarve
  <1> SUFFICES ASSUME NEW required \in 1 .. capacity, now >= wake,
                      rate * (now - success) >= Den * required
               PROVE  consume_tokens(required, 0).ok
    BY DEF TriesDoNotStarve
  <1> DEFINE elapsed == now - timestamp
             half    == TokenModulus \div 2
             gained  == (rate * elapsed) \div Den
  <1>1. /\ rate \in Rates /\ rate \in Nat /\ rate > 0 /\ capacity = rate /\ tokens \in Nat /\ tokens <= rate
        /\ Den \in Nat /\ Den > 0 /\ MaxTime \in Nat /\ half \in Nat
        /\ TokenModulus \in Nat /\ TokenModulus > 0 /\ TokenModulus = 2 * half
        /\ rate * (MaxTime + Den) < half
        /\ required \in Nat /\ required <= capacity
    BY BucketRanges, BucketConstants, BucketAssumption DEF BucketIInv
  <1>2. elapsed \in Nat /\ elapsed <= MaxTime /\ elapsed = now - success
    BY BucketRanges DEF BucketIInv
  <1> HIDE DEF half, elapsed
  <1>3. rate * (MaxTime + Den) = rate * MaxTime + rate * Den
        /\ rate * MaxTime \in Nat /\ rate * Den \in Nat /\ rate * elapsed \in Nat
    BY <1>1, <1>2, Distributes
  <1>4. rate * elapsed <= rate * MaxTime
    BY <1>1, <1>2, Factor
  <1>5. elapsed <= rate * elapsed /\ rate <= rate * Den
    <2>1. elapsed * 1 <= elapsed * rate BY <1>1, <1>2, Factor
    <2>2. rate * 1 <= rate * Den BY <1>1, Factor
    <2>3. elapsed * 1 = elapsed /\ rate * 1 = rate /\ elapsed * rate = rate * elapsed BY <1>1, <1>2
    <2> QED BY <2>1, <2>2, <2>3
  <1>6. rate * elapsed < TokenModulus /\ elapsed < TokenModulus /\ rate + rate * elapsed < TokenModulus
    <2> DEFINE b == rate * elapsed
               c == rate * MaxTime
               d == rate * Den
    <2>1. /\ b \in Nat /\ c \in Nat /\ d \in Nat /\ b <= c /\ rate <= d /\ elapsed <= b
          /\ c + d < half
      BY <1>1, <1>3, <1>4, <1>5
    <2> HIDE DEF b, c, d
    <2>2. b < TokenModulus /\ elapsed < TokenModulus /\ rate + b < TokenModulus
      BY <1>1, <1>2, <2>1
    <2> QED BY <2>2 DEF b
  <1>7. gained \in Nat /\ Den * gained <= rate * elapsed /\ rate * elapsed < Den * gained + Den
    BY <1>1, <1>3, Quotient
  <1> HIDE DEF gained
  <1>8. gained <= Den * gained /\ Den * gained \in Nat
    <2>1. gained * 1 <= gained * Den BY <1>1, <1>7, Factor
    <2>2. gained * 1 = gained /\ gained * Den = Den * gained /\ Den * gained \in Nat BY <1>1, <1>7
    <2> QED BY <2>1, <2>2
  <1>9. required <= gained
    <2> SUFFICES ASSUME gained + 1 <= required PROVE FALSE
      BY <1>1, <1>7
    <2>1. Den * (gained + 1) <= Den * required
      BY <1>1, <1>7, Factor
    <2>2. Den * (gained + 1) = Den * gained + Den
      BY <1>1, <1>7
    <2>3. Den * required \in Nat /\ Den * required <= rate * elapsed
      BY <1>1, <1>2
    <2> QED BY <1>1, <1>3, <1>7, <1>8, <2>1, <2>2, <2>3
  <1>10. tokens + gained \in Nat /\ tokens + gained < TokenModulus /\ required <= tokens + gained
    BY <1>1, <1>3, <1>6, <1>7, <1>8, <1>9
  <1>11. Unsigned(elapsed) = elapsed /\ Unsigned(rate * elapsed) = rate * elapsed
         /\ Unsigned(tokens + gained) = tokens + gained
    <2>1. \A x \in Nat : x < TokenModulus => x % TokenModulus = x
      BY <1>1
    <2> QED BY <1>1, <1>2, <1>3, <1>6, <1>10, <2>1, Zenon DEF Unsigned
  <1>12. TokensAt(now) = Min({capacity, tokens + gained})
    BY <1>11 DEF TokensAt, gained, elapsed
  <1>13. TokensAt(now) \in Nat /\ TokensAt(now) >= required
    BY <1>1, <1>10, <1>12, SmallerOfTwo
  <1>14. ~(required > capacity) BY <1>1
  <1>15. consume_tokens(required, 0) =
           [ok |-> TRUE, tokens |-> TokensAt(now) - required, timestamp |-> now, wake |-> now]
    BY <1>1, <1>13, <1>14 DEF consume_tokens
  <1> QED BY <1>15

RatesAboveOne == \A r \in Rates : r > 1

(* However calls wait, fail and follow each other, the rate of a read is   *)
(* kept and nobody who has waited long enough is refused, for every rate   *)
(* above one: with a rate of one the wait for what is missing may come out *)
(* negative (TokenBucket::consume_tokens).                                 *)
THEOREM RateIsKept ==
    ASSUME RatesAboveOne
    PROVE  BucketSpec => []BucketInv
  <1>1. BucketInit => BucketIInv
    <2> SUFFICES ASSUME BucketInit PROVE BucketIInv
      OBVIOUS
    <2>1. rate \in Rates /\ rate \in Nat /\ rate > 1 /\ capacity = rate /\ tokens = rate
      BY BucketConstants DEF RatesAboveOne, BucketInit, capacity
    <2>2. timestamp = 0 /\ now = 0 /\ wake = 0 /\ owed = 0 /\ taken = 0 /\ success = 0
          /\ Den \in Nat /\ MaxTime \in Nat /\ Max(Timeouts) \in Nat
      BY BucketConstants, LongestTimeout DEF BucketInit
    <2>3. BucketTypeOK /\ now <= MaxTime /\ timestamp = success /\ timestamp <= wake
      BY <2>1, <2>2 DEF BucketTypeOK
    <2>4. Account
      <3>1. taken + owed + tokens - capacity = 0 BY <2>1, <2>2
      <3> QED BY <2>1, <2>2, <3>1 DEF Account
    <2>5. RateKept
      <3>1. RateKept <=> (0 - rate) * Den <= rate * 0 BY <2>1, <2>2 DEF RateKept
      <3>2. Den * (0 - rate) <= Den * 0 BY <2>1, <2>2, Factor
      <3>3. Den * (0 - rate) = (0 - rate) * Den /\ Den * 0 = 0 /\ rate * 0 = 0 BY <2>1, <2>2
      <3> QED BY <3>1, <3>2, <3>3
    <2> QED BY <2>1, <2>3, <2>4, <2>5 DEF BucketIInv
  <1>2. BucketIInv /\ [BucketNext]_bucket_vars => BucketIInv'
    <2> SUFFICES ASSUME BucketIInv, [BucketNext]_bucket_vars PROVE BucketIInv'
      OBVIOUS
    <2>0. BucketTypeOK /\ rate > 1 /\ now <= MaxTime /\ timestamp = success /\ timestamp <= wake
          /\ Account /\ RateKept
      BY DEF BucketIInv
    <2>1. CASE UNCHANGED bucket_vars
      BY <2>1, <2>0 DEF bucket_vars, BucketIInv, BucketTypeOK, Account, RateKept, capacity
    <2>2. CASE Tick
      <3>1. UNCHANGED <<rate, tokens, timestamp, wake, owed, taken, success>> /\ now' = now + 1 /\ now' <= MaxTime
        BY <2>0, <2>2, BucketRanges DEF Tick
      <3>2. BucketTypeOK' /\ Account'
        BY <2>0, <3>1, BucketRanges DEF BucketTypeOK, Account, capacity
      <3>3. RateKept'
        <4>1. rate * now <= rate * now' BY <3>1, BucketRanges, <2>0, Factor
        <4>2. (taken - capacity) * Den <= rate * now BY <2>0 DEF RateKept
        <4>3. (taken - capacity) * Den \in Int /\ rate * now \in Int /\ rate * now' \in Int
          BY <2>0, <3>1, BucketRanges
        <4>4. (taken - capacity) * Den <= rate * now'
          BY <4>1, <4>2, <4>3
        <4> QED BY <3>1, <4>4 DEF RateKept, capacity
      <3> QED BY <2>0, <3>1, <3>2, <3>3 DEF BucketIInv
    <2>3. ASSUME NEW required \in 1 .. capacity + 1, NEW timeout \in Timeouts, Consume(required, timeout)
          PROVE  BucketIInv'
      <3> DEFINE r == consume_tokens(required, timeout)
      <3>1. required \in Nat /\ timestamp <= now /\ now >= wake
        BY <2>0, <2>3, BucketRanges DEF Consume
      <3>2. /\ r.wake \in Nat /\ now <= r.wake /\ r.wake <= MaxTime + Max(Timeouts)
            /\ r.ok \in BOOLEAN
            /\ r.ok => /\ r.timestamp = r.wake /\ r.tokens = TokensAt(r.wake) - required
                       /\ TokensAt(r.wake) >= required
            /\ ~r.ok => r.timestamp = timestamp /\ r.tokens = tokens
        BY <2>0, <3>1, CallOutcome
      <3>3. /\ tokens' = r.tokens /\ timestamp' = r.timestamp /\ wake' = r.wake
            /\ owed' = IF r.ok /\ r.wake > now THEN required ELSE 0
            /\ taken' = taken + owed + (IF r.ok /\ r.wake <= now THEN required ELSE 0)
            /\ success' = IF r.ok THEN r.wake ELSE success
            /\ rate' = rate /\ now' = now /\ capacity' = capacity
        BY <2>3 DEF Consume, capacity
      <3> HIDE DEF r
      <3>7. rate' = rate /\ now' = now /\ capacity' = capacity
        BY <3>3
      \* What was taken before this call is below the rate by now.
      <3>4. (taken + owed - capacity) * Den <= rate * now
        <4>1. (taken + owed + tokens - capacity) * Den <= rate * timestamp
          BY <2>0 DEF Account
        <4>2. rate * timestamp \in Int /\ rate * now \in Int /\ taken + owed \in Nat /\ capacity \in Nat
          BY <2>0, BucketRanges
        <4>3. (taken + owed - capacity) * Den <= rate * timestamp
          BY <2>0, <4>1, <4>2, TakenBelowAccount, BucketRanges
        <4>4. rate * timestamp <= rate * now
          BY <2>0, <3>1, BucketRanges, Factor
        <4>5. (taken + owed - capacity) * Den \in Int
          BY <2>0, <4>2, BucketRanges
        <4> QED BY <4>2, <4>3, <4>4, <4>5
      <3>5. CASE ~r.ok
        <4>1. tokens' = tokens /\ timestamp' = timestamp /\ owed' = 0 /\ taken' = taken + owed
              /\ success' = success
          BY <2>0, <3>2, <3>3, <3>5, BucketRanges
        <4>2. BucketTypeOK'
          BY <2>0, <3>2, <3>3, <4>1, BucketRanges DEF BucketTypeOK
        <4>3. taken' + owed' + tokens' - capacity' = taken + owed + tokens - capacity
          BY <2>0, <3>3, <4>1, BucketRanges
        <4>4. Account'
          BY <2>0, <3>3, <4>1, <4>3 DEF Account
        <4>5. RateKept'
          BY <2>0, <3>4, <3>7, <4>1, BucketRanges DEF RateKept, capacity
        <4>6. now' <= MaxTime /\ timestamp' = success' /\ timestamp' <= wake' /\ rate' > 1
          BY <2>0, <3>1, <3>2, <3>3, <4>1, BucketRanges
        <4> QED BY <4>2, <4>4, <4>5, <4>6 DEF BucketIInv
      <3>6. CASE r.ok
        <4>1. tokens' = TokensAt(r.wake) - required /\ timestamp' = r.wake /\ success' = r.wake
              /\ TokensAt(r.wake) >= required /\ timestamp <= r.wake
          BY <2>0, <3>1, <3>2, <3>3, <3>6, BucketRanges
        <4>2. /\ tokens' \in 0 .. capacity
              /\ (taken + owed + required + tokens' - capacity) * Den <= rate * r.wake
          BY <2>0, <3>1, <3>2, <4>1, AccountGrows
        <4>3. taken' \in Nat /\ owed' \in Nat /\ taken' + owed' = taken + owed + required
          <5>1. CASE r.wake > now
            BY <2>0, <3>1, <3>2, <3>3, <3>6, <5>1, BucketRanges
          <5>2. CASE ~(r.wake > now)
            BY <2>0, <3>1, <3>2, <3>3, <3>6, <5>2, BucketRanges
          <5> QED BY <5>1, <5>2
        <4>4. BucketTypeOK'
          BY <2>0, <3>2, <3>3, <4>1, <4>2, <4>3, BucketRanges DEF BucketTypeOK
        <4>5. taken' + owed' + tokens' - capacity' = taken + owed + required + tokens' - capacity
          BY <2>0, <3>1, <3>3, <4>2, <4>3, BucketRanges
        <4>6. Account'
          BY <3>3, <4>1, <4>2, <4>5 DEF Account
        <4>7. RateKept'
          <5>1. CASE r.wake > now
            <6>1. taken' = taken + owed BY <2>0, <3>2, <3>3, <3>6, <5>1, BucketRanges
            <6> QED BY <2>0, <3>4, <3>7, <6>1, BucketRanges DEF RateKept, capacity
          <5>2. CASE ~(r.wake > now)
            <6>1. r.wake = now /\ taken' = taken + owed + required
              BY <2>0, <3>2, <3>3, <3>6, <5>2, BucketRanges
            <6>2. taken + owed + required \in Nat /\ tokens' \in Nat /\ capacity \in Nat /\ rate * now \in Int
              BY <2>0, <3>1, <4>2, BucketRanges
            <6>3. (taken + owed + required - capacity) * Den <= rate * now
              <7>1. (taken + owed + required + tokens' - capacity) * Den <= rate * now
                BY <4>2, <6>1, Zenon
              <7>2. Den \in Nat BY <2>0, BucketRanges
              <7> DEFINE t == taken + owed + required
              <7>3. t \in Nat /\ (t + tokens' - capacity) * Den <= rate * now
                BY <6>2, <7>1
              <7> HIDE DEF t
              <7>4. (t - capacity) * Den <= rate * now
                BY <6>2, <7>2, <7>3, TakenBelowAccount
              <7> QED BY <2>0, <6>2, <7>4, BucketRanges DEF t
            <6> QED BY <2>0, <3>7, <6>1, <6>2, <6>3, BucketRanges DEF RateKept, capacity
          <5> QED BY <5>1, <5>2
        <4>8. now' <= MaxTime /\ timestamp' = success' /\ timestamp' <= wake' /\ rate' > 1
          BY <2>0, <3>1, <3>2, <3>3, <4>1, BucketRanges
        <4> QED BY <4>4, <4>6, <4>7, <4>8 DEF BucketIInv
      <3> QED BY <3>2, <3>5, <3>6
    <2> QED BY <2>1, <2>2, <2>3 DEF BucketNext
  <1>3. BucketIInv => BucketInv
    BY TriesAreFree DEF BucketIInv, BucketInv
  <1> QED BY <1>1, <1>2, <1>3, PTL DEF BucketSpec
================================================================================
