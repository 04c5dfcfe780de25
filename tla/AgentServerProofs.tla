-------------------------- MODULE AgentServerProofs --------------------------
(***************************************************************************)
(* The Agent's threads and queues, for any queue size and any number of    *)
(* messages, packets, errors and restarts: the queues stay within their    *)
(* limits, and both directions keep their order whatever is dropped, lost  *)
(* or put back.                                                            *)
(***************************************************************************)
EXTENDS AgentServer, TLAPS

MainPlaces == {"idle", "started", "deinit_input", "deinit_output", "notify", "join"}
WorkerPlaces == {"loop", "exited", "receive", "report", "pop", "send", "process",
                 "check", "lock", "about_to_wait", "waiting", "woken", "handling"}

Schedulers(E) ==
    [deque : [Priorities -> Seq(E)], sizes : [Priorities -> Nat], running : BOOLEAN]

Numbers == 1 .. MaxOut

WithQueue(s, p, q) == [s EXCEPT !.deque[p] = q]

\* Where the threads are; a server that does not run has none.
PlacesOK ==
    /\ pc \in [Threads -> MainPlaces \cup WorkerPlaces]
    /\ pc["main"] \in MainPlaces
    /\ \A t \in Workers : pc[t] \in WorkerPlaces
    /\ pc["main"] = "idle" => \A t \in Workers : pc[t] = "exited"

\* The numbers of a queue ascend, above one bound and up to another.
Ascending(s, low, high) ==
    /\ \A i \in 1 .. Len(s) : low < s[i] /\ s[i] <= high
    /\ \A i, j \in 1 .. Len(s) : i < j => s[i] < s[j]

\* The packet in the sender's hands is older than all that are queued.
OutputInOrder ==
    /\ output \in Schedulers(Numbers)
    /\ output.deque[1] = << >>
    /\ packet \in 0 .. MaxOut /\ enqueued \in 0 .. MaxOut /\ sent \in 0 .. MaxOut
    /\ sent <= enqueued
    /\ packet # 0 => sent < packet /\ packet <= enqueued
    /\ Ascending(output.deque[0], IF packet = 0 THEN sent ELSE packet, enqueued)

\* There is a packet in the sender's hands exactly while it sends or reports.
PacketHeld == packet # 0 <=> pc["sender"] \in {"send", "report"}

\* The messages of one priority, likewise.
Messages(s, p, low, high) ==
    /\ \A i \in 1 .. Len(s) : PriorityOf(s[i].kind) = p /\ low < s[i].n /\ s[i].n <= high
    /\ \A i, j \in 1 .. Len(s) : i < j => s[i].n < s[j].n

\* Each priority's messages are newer than the last one processed.
InputInOrder ==
    /\ input \in Schedulers(Packets)
    /\ received \in 0 .. MaxIn
    /\ processed \in [Priorities -> 0 .. MaxIn]
    /\ \A p \in Priorities :
         /\ processed[p] <= received
         /\ Messages(input.deque[p], p, processed[p], received)

\* Threads run, and messages were processed, only with limits set.
SizesSet ==
    \/ (\A t \in Workers : pc[t] = "exited") /\ \A p \in Priorities : processed[p] = 0
    \/ input.sizes[0] = QueueSize /\ input.sizes[1] = 1 /\ output.sizes[0] = QueueSize

\* Room for the packet that may be put back.
RoomToPutBack == packet # 0 => Len(output.deque[0]) <= QueueSize

ServerIInv ==
    /\ PlacesOK
    /\ running_cond \in BOOLEAN /\ transport_rc \in {"ok", "server_error"}
    /\ InputInOrder /\ OutputInOrder /\ PacketHeld /\ SizesSet
    /\ QueueBound /\ RoomToPutBack

LEMMA InvariantImplies == ServerIInv => ServerInv
  <1> SUFFICES ASSUME ServerIInv PROVE ServerInv
    OBVIOUS
  <1>1. DOMAIN pc = Threads /\ pc["main"] \in MainPlaces /\ \A t \in Workers : pc[t] \in WorkerPlaces
    BY DEF ServerIInv, PlacesOK
  <1>2. \A p \in Priorities : input.deque[p] \in Seq(Packets) /\ output.deque[p] \in Seq(1 .. MaxOut)
    BY DEF ServerIInv, InputInOrder, OutputInOrder, Schedulers, Numbers
  <1>3. packet \in 0 .. MaxOut
    BY DEF ServerIInv, OutputInOrder
  <1> QED BY <1>1, <1>2, <1>3 DEF ServerIInv, ServerInv, ServerTypeOK, MainPlaces, WorkerPlaces

-----------------------------------------------------------------------------
(* The scheduler's operations                                              *)

\* A scheduler with another queue, or another limit, for one priority.
LEMMA QueueReplaced ==
    ASSUME NEW E, NEW s \in Schedulers(E), NEW p \in Priorities, NEW q \in Seq(E)
    PROVE  /\ WithQueue(s, p, q) \in Schedulers(E) /\ WithQueue(s, p, q).sizes = s.sizes
           /\ \A u \in Priorities : WithQueue(s, p, q).deque[u] = IF u = p THEN q ELSE s.deque[u]
  BY DEF Schedulers, WithQueue

LEMMA LimitReplaced ==
    ASSUME NEW E, NEW s \in Schedulers(E), NEW p \in Priorities, NEW n \in Nat
    PROVE  LET r == SetPrioritySize(s, p, n)
           IN  /\ r \in Schedulers(E) /\ r.deque = s.deque
               /\ \A u \in Priorities : r.sizes[u] = IF u = p THEN n ELSE s.sizes[u]
  BY DEF Schedulers, SetPrioritySize

\* The first element of a queue and the others.
LEMMA FirstTaken ==
    ASSUME NEW E, NEW q \in Seq(E), q # << >>
    PROVE  /\ Head(q) \in E /\ Tail(q) \in Seq(E)
           /\ Len(q) \in Nat /\ Len(Tail(q)) \in Nat /\ Len(Tail(q)) = Len(q) - 1
  OBVIOUS

\* A push keeps a scheduler one, and only touches the deque it is for.
LEMMA PushShape ==
    ASSUME NEW E, NEW s \in Schedulers(E), NEW e \in E, NEW p \in Priorities, s.sizes[p] # 0
    PROVE  /\ Push(s, e, p) \in Schedulers(E)
           /\ Push(s, e, p).sizes = s.sizes
           /\ \A q \in Priorities : q # p => Push(s, e, p).deque[q] = s.deque[q]
           /\ Push(s, e, p).deque[p] =
                 Append(IF s.sizes[p] <= Len(s.deque[p]) THEN Tail(s.deque[p]) ELSE s.deque[p], e)
  <1>1. s.sizes[p] \in Nat /\ s.deque[p] \in Seq(E)
    BY DEF Schedulers
  <1>2. s.sizes[p] <= Len(s.deque[p]) => s.deque[p] # << >>
    BY <1>1
  <1>3. Append(IF s.sizes[p] <= Len(s.deque[p]) THEN Tail(s.deque[p]) ELSE s.deque[p], e) \in Seq(E)
    BY <1>1, <1>2
  <1> QED BY <1>3 DEF Push, Schedulers

\* The length after a push is within the limit, or what it was.
LEMMA PushLength ==
    ASSUME NEW E, NEW q \in Seq(E), NEW e \in E, NEW size \in Nat \ {0}
    PROVE  LET r == Append(IF size <= Len(q) THEN Tail(q) ELSE q, e)
           IN  r \in Seq(E) /\ (Len(r) <= size \/ Len(r) = Len(q))
  <1>1. CASE size <= Len(q)
    <2>1. q # << >>
      BY <1>1
    <2>2. Tail(q) \in Seq(E) /\ Len(Tail(q)) = Len(q) - 1
      BY <2>1
    <2> QED BY <1>1, <2>2
  <1>2. CASE ~(size <= Len(q))
    BY <1>2
  <1> QED BY <1>1, <1>2

\* The elements of what a push leaves: those that were there, then the new one.
LEMMA PushElements ==
    ASSUME NEW E, NEW q \in Seq(E), NEW e \in E, NEW size \in Nat \ {0}
    PROVE  LET r == Append(IF size <= Len(q) THEN Tail(q) ELSE q, e)
           IN  \E k \in 0 .. 1 :
                 /\ Len(r) = Len(q) - k + 1
                 /\ Len(r) >= 1
                 /\ \A i \in 1 .. Len(r) - 1 : i + k \in 1 .. Len(q) /\ r[i] = q[i + k]
                 /\ r[Len(r)] = e
  <1> DEFINE r == Append(IF size <= Len(q) THEN Tail(q) ELSE q, e)
  <1>1. CASE size <= Len(q)
    <2>1. q # << >>
      BY <1>1
    <2>2. /\ Tail(q) \in Seq(E) /\ Len(Tail(q)) = Len(q) - 1 /\ Len(q) \in Nat
          /\ \A i \in 1 .. Len(Tail(q)) : Tail(q)[i] = q[i + 1]
      BY <2>1
    <2>3. r = Append(Tail(q), e)
      BY <1>1
    <2> DEFINE t == Tail(q)
    <2>0. t \in Seq(E) /\ Len(t) = Len(q) - 1 /\ \A i \in 1 .. Len(t) : t[i] = q[i + 1]
      BY <2>2
    <2> HIDE DEF t, r
    <2>4. /\ Len(r) = Len(q) - 1 + 1 /\ Len(r) >= 1
          /\ \A i \in 1 .. Len(r) - 1 : i + 1 \in 1 .. Len(q) /\ r[i] = q[i + 1]
          /\ r[Len(r)] = e
      <3>1. r = Append(t, e)
        BY <2>3 DEF t
      <3>2. /\ Len(r) = Len(t) + 1 /\ Len(t) \in Nat
            /\ \A i \in 1 .. Len(t) : r[i] = t[i]
            /\ r[Len(t) + 1] = e
        BY <2>0, <3>1
      <3> QED BY <2>0, <3>2
    <2>5. \E k \in 0 .. 1 :
                 /\ Len(r) = Len(q) - k + 1
                 /\ Len(r) >= 1
                 /\ \A i \in 1 .. Len(r) - 1 : i + k \in 1 .. Len(q) /\ r[i] = q[i + k]
                 /\ r[Len(r)] = e
      <3> WITNESS 1 \in 0 .. 1
      <3> QED BY <2>4
    <2> QED BY <2>5 DEF r
  <1>2. CASE ~(size <= Len(q))
    <2>1. r = Append(q, e)
      BY <1>2
    <2>2. /\ Len(r) = Len(q) - 0 + 1 /\ Len(r) >= 1
          /\ \A i \in 1 .. Len(r) - 1 : i + 0 \in 1 .. Len(q) /\ r[i] = q[i + 0]
          /\ r[Len(r)] = e
      BY <2>1
    <2> HIDE DEF r
    <2>3. \E k \in 0 .. 1 :
                 /\ Len(r) = Len(q) - k + 1
                 /\ Len(r) >= 1
                 /\ \A i \in 1 .. Len(r) - 1 : i + k \in 1 .. Len(q) /\ r[i] = q[i + k]
                 /\ r[Len(r)] = e
      <3> WITNESS 0 \in 0 .. 1
      <3> QED BY <2>2
    <2> QED BY <2>3 DEF r
  <1> QED BY <1>1, <1>2

\* What a push leaves ascends if the new number is above all others.
LEMMA PushAscends ==
    ASSUME NEW q \in Seq(Nat), NEW e \in Nat, NEW low \in Nat, NEW high \in Nat,
           NEW size \in Nat \ {0}, Ascending(q, low, high), high < e, low <= high
    PROVE  Ascending(Append(IF size <= Len(q) THEN Tail(q) ELSE q, e), low, e)
  <1> DEFINE r == Append(IF size <= Len(q) THEN Tail(q) ELSE q, e)
  <1>1. PICK k \in 0 .. 1 :
                 /\ Len(r) = Len(q) - k + 1
                 /\ Len(r) >= 1
                 /\ \A i \in 1 .. Len(r) - 1 : i + k \in 1 .. Len(q) /\ r[i] = q[i + k]
                 /\ r[Len(r)] = e
    BY PushElements
  <1>2. Len(q) \in Nat /\ \A i \in 1 .. Len(q) : q[i] \in Nat
    OBVIOUS
  <1> HIDE DEF r
  <1>3. ASSUME NEW i \in 1 .. Len(r) PROVE low < r[i] /\ r[i] <= e
    <2>1. CASE i = Len(r)
      BY <1>1, <1>2, <2>1
    <2>2. CASE i # Len(r)
      <3>0. i \in 1 .. Len(r) - 1
        BY <1>1, <1>2, <2>2
      <3>1. r[i] = q[i + k] /\ i + k \in 1 .. Len(q)
        BY <1>1, <3>0
      <3> QED BY <1>2, <3>1 DEF Ascending
    <2> QED BY <2>1, <2>2
  <1>4. ASSUME NEW i \in 1 .. Len(r), NEW j \in 1 .. Len(r), i < j PROVE r[i] < r[j]
    <2>0. i \in 1 .. Len(r) - 1
      BY <1>1, <1>2, <1>4
    <2>1. r[i] = q[i + k] /\ i + k \in 1 .. Len(q)
      BY <1>1, <2>0
    <2>2. CASE j = Len(r)
      <3>1. r[i] \in Nat /\ r[i] <= high
        BY <1>2, <2>1 DEF Ascending
      <3>2. r[j] = e
        BY <1>1, <2>2
      <3> QED BY <3>1, <3>2
    <2>3. CASE j # Len(r)
      <3>0. j \in 1 .. Len(r) - 1
        BY <1>1, <1>2, <2>3
      <3>1. r[j] = q[j + k] /\ j + k \in 1 .. Len(q)
        BY <1>1, <3>0
      <3>2. i + k < j + k
        BY <1>4
      <3> QED BY <2>1, <3>1, <3>2 DEF Ascending
    <2> QED BY <2>2, <2>3
  <1>5. Ascending(r, low, e)
    BY <1>3, <1>4 DEF Ascending
  <1> QED BY <1>5 DEF r

\* The same for messages, which keep their priority too.
LEMMA PushMessages ==
    ASSUME NEW q \in Seq(Packets), NEW e \in Packets, NEW p \in Priorities, NEW low \in Nat,
           NEW high \in Nat, NEW size \in Nat \ {0}, Messages(q, p, low, high), high < e.n,
           low <= high, PriorityOf(e.kind) = p
    PROVE  Messages(Append(IF size <= Len(q) THEN Tail(q) ELSE q, e), p, low, e.n)
  <1> DEFINE r == Append(IF size <= Len(q) THEN Tail(q) ELSE q, e)
  <1>1. PICK k \in 0 .. 1 :
                 /\ Len(r) = Len(q) - k + 1
                 /\ Len(r) >= 1
                 /\ \A i \in 1 .. Len(r) - 1 : i + k \in 1 .. Len(q) /\ r[i] = q[i + k]
                 /\ r[Len(r)] = e
    BY PushElements
  <1>2. Len(q) \in Nat /\ e.n \in Nat /\ \A i \in 1 .. Len(q) : q[i].n \in Nat
    <2>1. \A m \in Packets : m.n \in Nat
      BY BoundsAssumption DEF Packets
    <2>2. Len(q) \in Nat /\ \A i \in 1 .. Len(q) : q[i] \in Packets
      OBVIOUS
    <2> QED BY <2>1, <2>2
  <1> HIDE DEF r
  <1>3. ASSUME NEW i \in 1 .. Len(r)
        PROVE  PriorityOf(r[i].kind) = p /\ low < r[i].n /\ r[i].n <= e.n
    <2>1. CASE i = Len(r)
      BY <1>1, <1>2, <2>1
    <2>2. CASE i # Len(r)
      <3>0. i \in 1 .. Len(r) - 1
        BY <1>1, <1>2, <2>2
      <3>1. r[i] = q[i + k] /\ i + k \in 1 .. Len(q)
        BY <1>1, <3>0
      <3>2. /\ PriorityOf(q[i + k].kind) = p /\ low < q[i + k].n /\ q[i + k].n <= high
        BY <3>1 DEF Messages
      <3>3. q[i + k].n \in Nat /\ e.n \in Nat
        BY <1>2, <3>1
      <3>4. q[i + k].n <= e.n
        BY <3>2, <3>3
      <3> QED BY <3>1, <3>2, <3>4
    <2> QED BY <2>1, <2>2
  <1>4. ASSUME NEW i \in 1 .. Len(r), NEW j \in 1 .. Len(r), i < j PROVE r[i].n < r[j].n
    <2>0. i \in 1 .. Len(r) - 1
      BY <1>1, <1>2, <1>4
    <2>1. r[i] = q[i + k] /\ i + k \in 1 .. Len(q)
      BY <1>1, <2>0
    <2>2. CASE j = Len(r)
      <3>1. q[i + k].n \in Nat /\ e.n \in Nat
        BY <1>2, <2>1
      <3>2. q[i + k].n <= high
        BY <2>1 DEF Messages
      <3>3. q[i + k].n < e.n
        BY <3>1, <3>2
      <3>4. r[j] = e
        BY <1>1, <2>2
      <3> QED BY <2>1, <3>3, <3>4
    <2>3. CASE j # Len(r)
      <3>0. j \in 1 .. Len(r) - 1
        BY <1>1, <1>2, <2>3
      <3>1. r[j] = q[j + k] /\ j + k \in 1 .. Len(q)
        BY <1>1, <3>0
      <3>2. i + k < j + k
        BY <1>4
      <3> QED BY <2>1, <3>1, <3>2 DEF Messages
    <2> QED BY <2>2, <2>3
  <1>5. Messages(r, p, low, e.n)
    BY <1>3, <1>4 DEF Messages
  <1> QED BY <1>5 DEF r

\* What stays after the first is taken ascends from it.
LEMMA TailAscends ==
    ASSUME NEW q \in Seq(Nat), q # << >>, NEW low \in Nat, NEW high \in Nat, Ascending(q, low, high)
    PROVE  low < Head(q) /\ Head(q) <= high /\ Ascending(Tail(q), Head(q), high)
  <1>1. /\ Tail(q) \in Seq(Nat) /\ Len(Tail(q)) = Len(q) - 1 /\ Len(q) \in Nat /\ Len(q) # 0
        /\ \A i \in 1 .. Len(Tail(q)) : Tail(q)[i] = q[i + 1]
        /\ Head(q) = q[1]
    OBVIOUS
  <1> QED BY <1>1 DEF Ascending

LEMMA TailMessages ==
    ASSUME NEW q \in Seq(Packets), q # << >>, NEW p \in Priorities, NEW low \in Nat,
           NEW high \in Nat, Messages(q, p, low, high)
    PROVE  /\ PriorityOf(Head(q).kind) = p
           /\ low < Head(q).n /\ Head(q).n <= high /\ Messages(Tail(q), p, Head(q).n, high)
  <1>1. /\ Tail(q) \in Seq(Packets) /\ Len(Tail(q)) = Len(q) - 1 /\ Len(q) \in Nat /\ Len(q) # 0
        /\ \A i \in 1 .. Len(Tail(q)) : Tail(q)[i] = q[i + 1]
        /\ Head(q) = q[1]
    OBVIOUS
  <1> QED BY <1>1 DEF Messages

\* A packet older than all that are queued may be put back.
LEMMA PutBackAscends ==
    ASSUME NEW q \in Seq(Nat), NEW e \in Nat, NEW low \in Nat, NEW high \in Nat,
           Ascending(q, e, high), low < e, e <= high
    PROVE  Ascending(<<e>> \o q, low, high)
  <1> DEFINE r == <<e>> \o q
  <1>1. /\ Len(r) = Len(q) + 1 /\ Len(q) \in Nat /\ \A i \in 1 .. Len(q) : q[i] \in Nat
        /\ \A i \in 1 .. Len(r) : r[i] = IF i = 1 THEN e ELSE q[i - 1]
    OBVIOUS
  <1> HIDE DEF r
  <1>2. \A i \in 1 .. Len(r) : i = 1 \/ i - 1 \in 1 .. Len(q)
    BY <1>1
  <1>3. ASSUME NEW i \in 1 .. Len(r) PROVE low < r[i] /\ r[i] <= high
    <2>1. CASE i = 1
      BY <1>1, <2>1
    <2>2. CASE i # 1
      <3>1. i - 1 \in 1 .. Len(q) /\ r[i] = q[i - 1]
        BY <1>1, <1>2, <2>2
      <3>2. e < q[i - 1] /\ q[i - 1] <= high
        BY <3>1 DEF Ascending
      <3>3. q[i - 1] \in Nat
        BY <1>1, <3>1
      <3> QED BY <3>1, <3>2, <3>3
    <2> QED BY <2>1, <2>2
  <1>4. ASSUME NEW i \in 1 .. Len(r), NEW j \in 1 .. Len(r), i < j PROVE r[i] < r[j]
    <2>0. j # 1
      BY <1>4
    <2>1. j - 1 \in 1 .. Len(q) /\ r[j] = q[j - 1]
      BY <1>1, <1>2, <2>0
    <2>2. CASE i = 1
      <3>1. e < q[j - 1]
        BY <2>1 DEF Ascending
      <3>2. r[i] = e
        BY <1>1, <2>2
      <3> QED BY <2>1, <3>1, <3>2
    <2>3. CASE i # 1
      <3>1. i - 1 \in 1 .. Len(q) /\ r[i] = q[i - 1]
        BY <1>1, <1>2, <2>3
      <3>2. i - 1 < j - 1
        BY <1>4
      <3> QED BY <2>1, <3>1, <3>2 DEF Ascending
    <2> QED BY <2>2, <2>3
  <1>5. Ascending(r, low, high)
    BY <1>3, <1>4 DEF Ascending
  <1> QED BY <1>5 DEF r

-----------------------------------------------------------------------------
(* The steps of the threads                                                *)

\* A step that leaves the queues alone keeps what is said of them, if the
\* threads stay where they may be.
LEMMA QueuesKept ==
    ASSUME ServerIInv, UNCHANGED queues, PlacesOK', PacketHeld',
           running_cond' \in BOOLEAN, transport_rc' \in {"ok", "server_error"},
           (\A t \in Workers : pc[t] = "exited") => \A t \in Workers : pc'[t] = "exited"
    PROVE  ServerIInv'
  <1>1. SizesSet'
    BY DEF ServerIInv, SizesSet, queues
  <1>2. InputInOrder' /\ OutputInOrder'
    BY DEF ServerIInv, InputInOrder, OutputInOrder, queues
  <1>3. QueueBound' /\ RoomToPutBack'
    BY DEF ServerIInv, QueueBound, RoomToPutBack, queues
  <1> QED BY <1>1, <1>2, <1>3 DEF ServerIInv

\* One worker goes from one place to another.
LEMMA WorkerGoes ==
    ASSUME PlacesOK, NEW t \in Workers, pc[t] # "exited", NEW l \in WorkerPlaces, Go(t, l)
    PROVE  /\ PlacesOK'
           /\ \A u \in Threads : pc'[u] = IF u = t THEN l ELSE pc[u]
           /\ pc["main"] # "idle" /\ pc'["main"] = pc["main"]
  <1>1. t \in Threads /\ t # "main"
    BY DEF Threads, Workers
  <1>2. \A u \in Threads : pc'[u] = IF u = t THEN l ELSE pc[u]
    BY DEF PlacesOK, Go
  <1>3. pc["main"] # "idle" /\ pc'["main"] = pc["main"]
    BY <1>1, <1>2 DEF PlacesOK, Threads
  <1>4. pc' \in [Threads -> MainPlaces \cup WorkerPlaces]
    BY DEF PlacesOK, Go
  <1> QED BY <1>2, <1>3, <1>4 DEF PlacesOK, Threads

\* A notification wakes some that wait, and only those.
LEMMA Notified ==
    ASSUME PlacesOK, NEW p, p \in NotifyOne(pc) \/ p = NotifyAll(pc)
    PROVE  /\ p \in [Threads -> MainPlaces \cup WorkerPlaces]
           /\ \A u \in Threads : p[u] = pc[u] \/ (u \in Workers /\ pc[u] = "waiting" /\ p[u] = "woken")
  BY DEF PlacesOK, NotifyOne, NotifyAll, Waiting, Threads, WorkerPlaces

\* After one, a worker that did not wait goes on.
LEMMA NotifierGoes ==
    ASSUME PlacesOK, NEW p, p \in NotifyOne(pc) \/ p = NotifyAll(pc), NEW t \in Workers,
           pc[t] \notin {"exited", "waiting"}, NEW l \in WorkerPlaces, pc' = [p EXCEPT ![t] = l]
    PROVE  /\ PlacesOK'
           /\ pc'[t] = l
           /\ \A u \in Threads : u # t => pc'[u] = pc[u] \/ (pc[u] = "waiting" /\ pc'[u] = "woken")
           /\ pc["main"] # "idle" /\ pc'["main"] = pc["main"]
  <1>1. /\ p \in [Threads -> MainPlaces \cup WorkerPlaces]
        /\ \A u \in Threads : p[u] = pc[u] \/ (u \in Workers /\ pc[u] = "waiting" /\ p[u] = "woken")
    BY Notified
  <1>2. t \in Threads /\ t # "main" /\ "main" \in Threads /\ "main" \notin Workers
    BY DEF Threads, Workers
  <1>3. \A u \in Threads : pc'[u] = IF u = t THEN l ELSE p[u]
    BY <1>1, <1>2
  <1>4. pc["main"] # "idle" /\ pc'["main"] = pc["main"]
    BY <1>1, <1>2, <1>3 DEF PlacesOK
  <1>5. pc' \in [Threads -> MainPlaces \cup WorkerPlaces]
    BY <1>1
  <1>6. \A u \in Workers : pc'[u] \in WorkerPlaces
    BY <1>1, <1>3 DEF PlacesOK, Threads, WorkerPlaces
  <1> QED BY <1>1, <1>2, <1>3, <1>4, <1>5, <1>6 DEF PlacesOK

\* A start sets the limits, and the queues keep what they held.
LEMMA StartKeeps == ASSUME ServerIInv, Start PROVE ServerIInv'
  <1> USE DEF ServerIInv, Start
  <1>1. \A t \in Workers : pc[t] = "exited" /\ pc'[t] = "loop"
    BY DEF PlacesOK, Threads, Workers
  <1>2. PlacesOK'
    BY DEF PlacesOK, Threads, Workers, MainPlaces, WorkerPlaces
  <1>3. packet = 0 /\ packet' = 0 /\ PacketHeld'
    BY <1>1 DEF PacketHeld, Workers
  <1>4. /\ input' \in Schedulers(Packets) /\ input'.deque = input.deque
        /\ input'.sizes[0] = QueueSize /\ input'.sizes[1] = 1
    <2> DEFINE i == InitScheduler(input, QueueSize)
    <2>1. input \in Schedulers(Packets)
      BY DEF InputInOrder
    <2>2. i \in Schedulers(Packets) /\ i.deque = input.deque /\ i.sizes[0] = QueueSize
      BY <2>1, QueueSizeAssumption DEF Schedulers, Priorities, InitScheduler
    <2>3. input' = SetPrioritySize(i, 1, 1)
      OBVIOUS
    <2> HIDE DEF i
    <2>4. /\ input' \in Schedulers(Packets) /\ input'.deque = i.deque
          /\ \A u \in Priorities : input'.sizes[u] = IF u = 1 THEN 1 ELSE i.sizes[u]
      <3>1. 1 \in Priorities /\ 1 \in Nat
        BY DEF Priorities
      <3> QED BY <2>2, <2>3, <3>1, LimitReplaced
    <2> QED BY <2>2, <2>4 DEF Priorities
  <1>5. /\ output' \in Schedulers(Numbers) /\ output'.deque = output.deque
        /\ output'.sizes[0] = QueueSize
    BY QueueSizeAssumption DEF OutputInOrder, Schedulers, Priorities, InitScheduler
  <1>6. InputInOrder'
    BY <1>4 DEF InputInOrder
  <1>7. OutputInOrder'
    BY <1>5 DEF OutputInOrder
  <1>8. QueueBound' /\ RoomToPutBack'
    BY <1>3, <1>4, <1>5 DEF QueueBound, RoomToPutBack
  <1>9. running_cond' \in BOOLEAN /\ transport_rc' \in {"ok", "server_error"}
    OBVIOUS
  <1>10. SizesSet'
    BY <1>4, <1>5 DEF SizesSet
  <1> QED BY <1>2, <1>3, <1>6, <1>7, <1>8, <1>9, <1>10

\* stop empties nothing: the queues keep what they hold.
LEMMA StopKeeps == ASSUME ServerIInv, Stop PROVE ServerIInv'
  <1> USE DEF ServerIInv
  <1>1. ASSUME NEW l \in MainPlaces, Go("main", l),
               l = "idle" => \A t \in Workers : pc[t] = "exited"
        PROVE  PlacesOK' /\ \A t \in Workers : pc'[t] = pc[t]
    BY <1>1 DEF PlacesOK, Go, Threads, Workers
  <1>2. \A l \in MainPlaces : Go("main", l) /\ UNCHANGED packet => (PlacesOK' => PacketHeld')
    BY DEF PacketHeld, PlacesOK, Go, Threads, Workers
  <1>3. CASE StopRunning
    <2>1. Go("main", "deinit_input") /\ UNCHANGED queues /\ running_cond' = FALSE /\ UNCHANGED transport_rc
      BY <1>3 DEF StopRunning
    <2>2. PlacesOK' /\ \A t \in Workers : pc'[t] = pc[t]
      BY <1>1, <2>1 DEF MainPlaces
    <2>3. PacketHeld'
      BY <1>2, <2>1, <2>2 DEF MainPlaces, queues
    <2> QED BY <2>1, <2>2, <2>3, QueuesKept
  <1>4. CASE StopInput
    <2>1. /\ Go("main", "deinit_output")
          /\ UNCHANGED <<running_cond, transport_rc, output, packet, received, enqueued, sent, processed>>
          /\ input' = DeinitScheduler(input)
      BY <1>4 DEF StopInput
    <2>2. PlacesOK' /\ \A t \in Workers : pc'[t] = pc[t]
      BY <1>1, <2>1 DEF MainPlaces
    <2>3. PacketHeld'
      BY <1>2, <2>1, <2>2 DEF MainPlaces
    <2>4. /\ input' \in Schedulers(Packets) /\ input'.deque = input.deque
          /\ input'.sizes = input.sizes
      BY <2>1 DEF InputInOrder, Schedulers, DeinitScheduler
    <2>5. InputInOrder' /\ OutputInOrder'
      BY <2>1, <2>4 DEF InputInOrder, OutputInOrder
    <2>6. QueueBound' /\ RoomToPutBack' /\ SizesSet'
      BY <2>1, <2>2, <2>4 DEF QueueBound, RoomToPutBack, SizesSet
    <2> QED BY <2>1, <2>2, <2>3, <2>5, <2>6
  <1>5. CASE StopOutput
    <2>1. /\ Go("main", "notify")
          /\ UNCHANGED <<running_cond, transport_rc, input, packet, received, enqueued, sent, processed>>
          /\ output' = DeinitScheduler(output)
      BY <1>5 DEF StopOutput
    <2>2. PlacesOK' /\ \A t \in Workers : pc'[t] = pc[t]
      BY <1>1, <2>1 DEF MainPlaces
    <2>3. PacketHeld'
      BY <1>2, <2>1, <2>2 DEF MainPlaces
    <2>4. /\ output' \in Schedulers(Numbers) /\ output'.deque = output.deque
          /\ output'.sizes = output.sizes
      BY <2>1 DEF OutputInOrder, Schedulers, DeinitScheduler
    <2>5. InputInOrder' /\ OutputInOrder'
      BY <2>1, <2>4 DEF InputInOrder, OutputInOrder
    <2>6. QueueBound' /\ RoomToPutBack' /\ SizesSet'
      BY <2>1, <2>2, <2>4 DEF QueueBound, RoomToPutBack, SizesSet
    <2> QED BY <2>1, <2>2, <2>3, <2>5, <2>6
  <1>6. CASE StopNotify
    <2> DEFINE p == NotifyAll(pc)
    <2>1. /\ p \in [Threads -> MainPlaces \cup WorkerPlaces]
          /\ \A u \in Threads : p[u] = pc[u] \/ (u \in Workers /\ pc[u] = "waiting" /\ p[u] = "woken")
      BY Notified
    <2>2. pc' = [p EXCEPT !["main"] = "join"] /\ UNCHANGED <<queues, running_cond, transport_rc>>
      BY <1>6 DEF StopNotify
    <2> HIDE DEF p
    <2>3. pc' \in [Threads -> MainPlaces \cup WorkerPlaces] /\ pc'["main"] = "join"
          /\ \A u \in Workers : pc'[u] = p[u] /\ u \in Threads
      BY <2>1, <2>2 DEF Threads, Workers, MainPlaces
    <2>4. PlacesOK'
      BY <2>1, <2>3 DEF PlacesOK, MainPlaces, WorkerPlaces
    <2>5. PacketHeld' /\ ((\A t \in Workers : pc[t] = "exited") => \A t \in Workers : pc'[t] = "exited")
      BY <2>1, <2>2, <2>3 DEF PacketHeld, queues, Workers
    <2> QED BY <2>2, <2>4, <2>5, QueuesKept
  <1>7. CASE StopJoin
    <2>1. /\ Go("main", "idle") /\ UNCHANGED <<queues, running_cond, transport_rc>>
          /\ \A t \in Workers : pc[t] = "exited"
      BY <1>7 DEF StopJoin
    <2>2. PlacesOK' /\ \A t \in Workers : pc'[t] = pc[t]
      BY <1>1, <2>1 DEF MainPlaces
    <2>3. PacketHeld'
      BY <1>2, <2>1, <2>2 DEF MainPlaces, queues
    <2> QED BY <2>1, <2>2, <2>3, QueuesKept
  <1> QED BY <1>3, <1>4, <1>5, <1>6, <1>7 DEF Stop

\* A worker's step that only changes its place, between places where it has
\* no packet in its hands.
LEMMA WorkerStepKeeps ==
    ASSUME ServerIInv, NEW t \in Workers, pc[t] # "exited", NEW l \in WorkerPlaces, Go(t, l),
           UNCHANGED queues, running_cond' \in BOOLEAN, transport_rc' \in {"ok", "server_error"},
           t = "sender" => (pc[t] \in {"send", "report"} <=> l \in {"send", "report"})
    PROVE  ServerIInv'
  <1>1. PlacesOK' /\ \A u \in Threads : pc'[u] = IF u = t THEN l ELSE pc[u]
    BY WorkerGoes DEF ServerIInv
  <1>2. PacketHeld'
    BY <1>1 DEF ServerIInv, PacketHeld, queues, Threads, Workers
  <1> QED BY <1>1, <1>2, QueuesKept DEF ServerIInv

LEMMA LoopsKeep ==
    ASSUME ServerIInv, NEW t \in Workers, Loop(t) \/ Resume(t) \/ SpuriousWakeup(t)
    PROVE  ServerIInv'
  <1>1. PICK l \in WorkerPlaces \ {"send", "report"} : Go(t, l)
    BY DEF Loop, Resume, SpuriousWakeup, Body, Workers, WorkerPlaces
  <1>2. pc[t] \notin {"exited", "send", "report"} /\ UNCHANGED <<running_cond, transport_rc, queues>>
    BY DEF Loop, Resume, SpuriousWakeup
  <1> QED BY <1>1, <1>2, WorkerStepKeeps DEF ServerIInv

\* The receiver and the handler, which take nothing from a queue.
LEMMA ReceiverKeeps == ASSUME ServerIInv, Receiver PROVE ServerIInv'
  <1> USE DEF ServerIInv
  <1>1. ASSUME NEW k \in MessageKinds, Receive(k)
        PROVE  ServerIInv'
    <2> DEFINE m == [n |-> received + 1, kind |-> k]
               p == PriorityOf(k)
    <2>1. /\ pc["receiver"] = "receive" /\ Go("receiver", "loop")
          /\ received < MaxIn /\ received' = received + 1 /\ input' = Push(input, m, p)
          /\ UNCHANGED <<running_cond, transport_rc, output, packet, enqueued, sent, processed>>
      BY <1>1 DEF Receive
    <2>2. PlacesOK' /\ \A u \in Threads : pc'[u] = IF u = "receiver" THEN "loop" ELSE pc[u]
      BY <2>1, WorkerGoes DEF Workers, WorkerPlaces
    <2>3. PacketHeld'
      BY <2>1, <2>2 DEF PacketHeld, Threads, Workers
    <2>4. m \in Packets /\ p \in Priorities /\ m.n = received' /\ PriorityOf(m.kind) = p
      BY <2>1, BoundsAssumption DEF InputInOrder, Packets, Priorities, PriorityOf
    <2>5. input.sizes[0] = QueueSize /\ input.sizes[1] = 1 /\ output.sizes[0] = QueueSize
      BY <2>1 DEF SizesSet, Workers
    <2>6. input.sizes[p] \in Nat \ {0} /\ input.deque[p] \in Seq(Packets) /\ input \in Schedulers(Packets)
      BY <2>4, <2>5, QueueSizeAssumption DEF Priorities, InputInOrder, Schedulers
    <2> HIDE DEF m, p
    <2> DEFINE pushed == Append(IF input.sizes[p] <= Len(input.deque[p]) THEN Tail(input.deque[p])
                                ELSE input.deque[p], m)
    <2>7. /\ input' \in Schedulers(Packets) /\ input'.sizes = input.sizes
          /\ \A q \in Priorities : q # p => input'.deque[q] = input.deque[q]
          /\ input'.deque[p] = pushed
      BY <2>1, <2>4, <2>6, PushShape, SMTT(40)
    <2>8. received \in Nat /\ received' \in 0 .. MaxIn /\ received < received'
          /\ \A q \in Priorities : processed[q] \in Nat /\ processed[q] <= received
      <3>1. received \in 0 .. MaxIn /\ processed \in [Priorities -> 0 .. MaxIn]
        BY DEF InputInOrder
      <3>2. received \in Nat /\ \A q \in Priorities : processed[q] \in Nat
        BY <3>1, BoundsAssumption
      <3>3. \A q \in Priorities : processed[q] <= received
        BY DEF InputInOrder
      <3>4. received' \in 0 .. MaxIn /\ received < received'
        BY <2>1, <3>1, BoundsAssumption
      <3> QED BY <3>2, <3>3, <3>4
    <2>9. Messages(pushed, p, processed[p], received')
      BY <2>4, <2>6, <2>8, PushMessages DEF InputInOrder
    <2>10. pushed \in Seq(Packets) /\ (Len(pushed) <= input.sizes[p] \/ Len(pushed) = Len(input.deque[p]))
      BY <2>4, <2>6, PushLength
    <2> HIDE DEF pushed
    <2>11. InputInOrder'
      <3>1. ASSUME NEW q \in Priorities
            PROVE  processed'[q] <= received' /\ Messages(input'.deque[q], q, processed'[q], received')
        <4>1. CASE q = p
          BY <2>1, <2>7, <2>8, <2>9, <4>1
        <4>2. CASE q # p
          <5>1. \A i \in 1 .. Len(input.deque[q]) : input.deque[q][i].n \in Nat
            <6>1. \A e \in Packets : e.n \in Nat
              BY BoundsAssumption DEF Packets
            <6>2. input.deque[q] \in Seq(Packets)
              BY DEF InputInOrder, Schedulers
            <6> QED BY <6>1, <6>2
          <5>2. Messages(input.deque[q], q, processed[q], received)
            BY DEF InputInOrder
          <5>3. Messages(input.deque[q], q, processed[q], received')
            BY <2>8, <5>1, <5>2 DEF Messages
          <5> QED BY <2>1, <2>7, <2>8, <4>2, <5>3
        <4> QED BY <4>1, <4>2
      <3> QED BY <2>1, <2>7, <2>8, <3>1 DEF InputInOrder
    <2>12. OutputInOrder' /\ RoomToPutBack' /\ SizesSet'
      BY <2>1, <2>5, <2>7 DEF OutputInOrder, RoomToPutBack, SizesSet
    <2>13. QueueBound'
      BY <2>1, <2>4, <2>5, <2>7, <2>10, QueueSizeAssumption DEF QueueBound, Priorities
    <2> QED BY <2>1, <2>2, <2>3, <2>11, <2>12, <2>13
  <1>2. CASE ReceiveNothing
    BY <1>2, WorkerStepKeeps DEF ReceiveNothing, Workers, WorkerPlaces
  <1>3. CASE ReceiveError
    BY <1>3, WorkerStepKeeps DEF ReceiveError, Workers, WorkerPlaces
  <1>4. CASE ReceiverReports
    <2>1. PICK p \in NotifyOne(pc) : pc' = [p EXCEPT !["receiver"] = "waiting"]
      BY <1>4 DEF ReceiverReports
    <2>2. pc["receiver"] = "report" /\ transport_rc' = "server_error" /\ UNCHANGED <<running_cond, queues>>
      BY <1>4 DEF ReceiverReports
    <2>3. /\ PlacesOK' /\ pc'["receiver"] = "waiting"
          /\ \A u \in Threads : u # "receiver" => pc'[u] = pc[u] \/ (pc[u] = "waiting" /\ pc'[u] = "woken")
      BY <2>1, <2>2, NotifierGoes DEF Workers, WorkerPlaces
    <2>4. PacketHeld'
      BY <2>2, <2>3 DEF PacketHeld, queues, Threads, Workers
    <2> QED BY <2>2, <2>3, <2>4, QueuesKept DEF Workers
  <1> QED BY <1>1, <1>2, <1>3, <1>4 DEF Receiver

LEMMA HandlerKeeps == ASSUME ServerIInv, Handler PROVE ServerIInv'
  <1> USE DEF ServerIInv
  <1>1. CASE HandlerLocks
    BY <1>1, WorkerStepKeeps DEF HandlerLocks, Workers, WorkerPlaces
  <1>2. CASE HandlerWaits
    BY <1>2, WorkerStepKeeps DEF HandlerWaits, Workers, WorkerPlaces
  <1>3. CASE HandlerEnds
    <2>1. /\ pc["handler"] = "handling" /\ pc' = [NotifyAll(pc) EXCEPT !["handler"] = "loop"]
          /\ transport_rc' = "ok" /\ UNCHANGED <<running_cond, queues>>
      BY <1>3, SMTT(40) DEF HandlerEnds
    <2>2. /\ PlacesOK' /\ pc'["handler"] = "loop"
          /\ \A u \in Threads : u # "handler" => pc'[u] = pc[u] \/ (pc[u] = "waiting" /\ pc'[u] = "woken")
      BY <2>1, NotifierGoes DEF Workers, WorkerPlaces
    <2>3. PacketHeld'
      BY <2>1, <2>2 DEF PacketHeld, queues, Threads, Workers
    <2> QED BY <2>1, <2>2, <2>3, QueuesKept DEF Workers
  <1> QED BY <1>1, <1>2, <1>3 DEF Handler

\* A packet that is pushed goes behind all that are there, and leaves room
\* for the one in the sender's hands.
LEMMA PushOutputKeeps ==
    ASSUME ServerIInv, PushOutputPacket,
           \/ \E t \in Workers : pc[t] # "exited"
           \/ \E p \in Priorities : processed[p] # 0,
           UNCHANGED <<packet, sent>>
    PROVE  /\ OutputInOrder'
           /\ output'.sizes = output.sizes
           /\ Len(output'.deque[0]) <= QueueSize + 1
           /\ RoomToPutBack'
  <1> USE DEF ServerIInv
  <1> DEFINE n == enqueued + 1
             q == output.deque[0]
             pushed == Append(IF QueueSize <= Len(q) THEN Tail(q) ELSE q, n)
             low == IF packet = 0 THEN sent ELSE packet
  <1>1. enqueued < MaxOut /\ enqueued' = n /\ output' = Push(output, n, 0)
    BY DEF PushOutputPacket
  <1>2. n \in Numbers /\ n \in Nat /\ n <= MaxOut /\ enqueued \in Nat /\ enqueued < n /\ 0 \in Priorities /\ 1 \in Priorities
    BY <1>1, BoundsAssumption DEF OutputInOrder, Priorities, Numbers
  <1>3. output \in Schedulers(Numbers) /\ output.sizes[0] = QueueSize /\ q \in Seq(Numbers)
    BY <1>2 DEF SizesSet, OutputInOrder, Schedulers
  <1>4. q \in Seq(Nat) /\ low \in Nat /\ low <= enqueued /\ Ascending(q, low, enqueued)
    BY <1>3, BoundsAssumption DEF OutputInOrder, Numbers
  <1> HIDE DEF n
  <1>5. /\ output' \in Schedulers(Numbers) /\ output'.sizes = output.sizes
        /\ \A p \in Priorities : p # 0 => output'.deque[p] = output.deque[p]
        /\ output'.deque[0] = pushed
    <2>1. output.sizes[0] # 0
      BY <1>3, QueueSizeAssumption
    <2>2. /\ output' \in Schedulers(Numbers) /\ output'.sizes = output.sizes
          /\ \A p \in Priorities : p # 0 => output'.deque[p] = output.deque[p]
          /\ output'.deque[0] = Append(IF output.sizes[0] <= Len(q) THEN Tail(q) ELSE q, n)
      <3>1. /\ Push(output, n, 0) \in Schedulers(Numbers)
            /\ Push(output, n, 0).sizes = output.sizes
            /\ \A p \in Priorities : p # 0 => Push(output, n, 0).deque[p] = output.deque[p]
            /\ Push(output, n, 0).deque[0] =
                  Append(IF output.sizes[0] <= Len(output.deque[0]) THEN Tail(output.deque[0])
                         ELSE output.deque[0], n)
        BY <1>2, <1>3, <2>1, PushShape
      <3> QED BY <1>1, <3>1
    <2> QED BY <1>3, <2>2
  <1> HIDE DEF q, low
  <1>6. Ascending(pushed, low, n)
    BY <1>2, <1>4, PushAscends, QueueSizeAssumption
  <1>7. pushed \in Seq(Nat) /\ (Len(pushed) <= QueueSize \/ Len(pushed) = Len(q))
    BY <1>2, <1>4, PushLength, QueueSizeAssumption
  <1> HIDE DEF pushed
  <1>8. /\ enqueued' \in 0 .. MaxOut /\ sent' \in 0 .. MaxOut /\ packet' \in 0 .. MaxOut
        /\ sent' <= enqueued' /\ (packet' # 0 => sent' < packet' /\ packet' <= enqueued')
    BY <1>1, <1>2, BoundsAssumption DEF OutputInOrder
  <1>9. output'.deque[1] = << >>
    BY <1>2, <1>5 DEF OutputInOrder
  <1>10. OutputInOrder'
    BY <1>1, <1>5, <1>6, <1>8, <1>9 DEF OutputInOrder, low
  <1>11. Len(output'.deque[0]) \in Nat /\ (packet' # 0 => Len(output'.deque[0]) <= QueueSize)
    BY <1>5, <1>7, QueueSizeAssumption DEF RoomToPutBack, q
  <1>12. Len(output'.deque[0]) <= QueueSize + 1
    BY <1>5, <1>7, QueueSizeAssumption DEF QueueBound, q
  <1> QED BY <1>5, <1>10, <1>11, <1>12 DEF RoomToPutBack

\* What the sender takes is the oldest packet, and one that is put back is
\* older than all others.
LEMMA SenderKeeps == ASSUME ServerIInv, Sender PROVE ServerIInv'
  <1> USE DEF ServerIInv
  <1> DEFINE q == output.deque[0]
  <1>0. /\ output \in Schedulers(Numbers) /\ q \in Seq(Numbers) /\ q \in Seq(Nat)
        /\ output.deque[1] = << >> /\ 0 \in Priorities /\ 1 \in Priorities
        /\ Len(q) \in Nat /\ Len(q) <= QueueSize + 1
    <2>1. output \in Schedulers(Numbers) /\ output.deque[1] = << >> /\ 0 \in Priorities /\ 1 \in Priorities
      BY DEF OutputInOrder, Priorities
    <2>2. q \in Seq(Numbers)
      BY <2>1 DEF Schedulers
    <2> QED BY <2>1, <2>2, BoundsAssumption DEF QueueBound, Numbers
  <1>1. CASE SenderPops
    <2>1. CASE ~output.running
      BY <1>1, <2>1, WorkerStepKeeps DEF SenderPops, Workers, WorkerPlaces, queues
    <2>2. CASE output.running
      <3>1. /\ pc["sender"] = "pop" /\ Go("sender", "send") /\ CanPop(output)
            /\ packet' = Front(output) /\ output' = Pop(output)
            /\ UNCHANGED <<running_cond, transport_rc, input, received, enqueued, sent, processed>>
        BY <1>1, <2>2 DEF SenderPops
      <3>2. q # << >> /\ Available(output) = 0
        BY <1>0, <2>2, <3>1 DEF CanPop, Empty, Available, Priorities
      <3>3. packet = 0
        BY <3>1 DEF PacketHeld
      <3>4. sent < Head(q) /\ Head(q) <= enqueued /\ Ascending(Tail(q), Head(q), enqueued)
        BY <1>0, <3>2, <3>3, TailAscends, BoundsAssumption DEF OutputInOrder
      <3>5. Head(q) \in Numbers /\ Tail(q) \in Seq(Numbers) /\ Len(Tail(q)) = Len(q) - 1
        BY <1>0, <3>2, FirstTaken
      <3>6. packet' = Head(q)
        BY <3>1, <3>2 DEF Front
      <3>7. output' = WithQueue(output, 0, Tail(q))
        BY <3>1, <3>2 DEF Pop, WithQueue
      <3>8. /\ output' \in Schedulers(Numbers) /\ output'.sizes = output.sizes
            /\ output'.deque[0] = Tail(q) /\ output'.deque[1] = << >>
        <4> DEFINE rest == Tail(q)
        <4>1. rest \in Seq(Numbers)
          BY <3>5
        <4> HIDE DEF rest
        <4>2. /\ WithQueue(output, 0, rest) \in Schedulers(Numbers)
              /\ WithQueue(output, 0, rest).sizes = output.sizes
              /\ \A u \in Priorities :
                    WithQueue(output, 0, rest).deque[u] = IF u = 0 THEN rest ELSE output.deque[u]
          BY <1>0, <4>1, QueueReplaced
        <4>3. output' = WithQueue(output, 0, rest)
          BY <3>7 DEF rest
        <4>4. output'.deque[0] = rest /\ output'.deque[1] = << >>
          BY <1>0, <4>2, <4>3
        <4> QED BY <4>2, <4>3, <4>4 DEF rest
      <3> HIDE DEF q
      <3>9. packet' \in 1 .. MaxOut /\ packet' # 0
        BY <3>5, <3>6 DEF Numbers
      <3>10. OutputInOrder'
        BY <3>1, <3>4, <3>6, <3>8, <3>9, BoundsAssumption DEF OutputInOrder
      <3>11. Len(output'.deque[0]) <= QueueSize /\ Len(output'.deque[0]) <= QueueSize + 1
        BY <1>0, <3>5, <3>8, QueueSizeAssumption
      <3>12. PlacesOK' /\ \A u \in Threads : pc'[u] = IF u = "sender" THEN "send" ELSE pc[u]
        BY <3>1, WorkerGoes DEF Workers, WorkerPlaces
      <3>13. PacketHeld'
        BY <3>9, <3>12 DEF PacketHeld, Threads, Workers
      <3>14. InputInOrder'
        BY <3>1 DEF InputInOrder
      <3>15. SizesSet'
        BY <3>1, <3>8 DEF SizesSet, Workers
      <3>16. QueueBound' /\ RoomToPutBack'
        BY <3>1, <3>11 DEF QueueBound, RoomToPutBack
      <3> QED BY <3>1, <3>10, <3>12, <3>13, <3>14, <3>15, <3>16
    <2> QED BY <2>1, <2>2
  <1>2. ASSUME pc["sender"] = "send", Go("sender", "loop"), packet' = 0, sent' = packet \/ sent' = sent,
               UNCHANGED <<running_cond, transport_rc, input, output, received, enqueued, processed>>
        PROVE  ServerIInv'
    <2>1. packet # 0
      BY <1>2 DEF PacketHeld
    <2>2. sent' \in 0 .. MaxOut /\ sent' <= packet /\ packet \in 0 .. MaxOut /\ packet <= enqueued
          /\ sent' <= enqueued /\ enqueued \in Nat
      BY <1>2, <2>1, BoundsAssumption DEF OutputInOrder
    <2>3. Ascending(q, packet, enqueued)
      BY <2>1 DEF OutputInOrder
    <2>4. \A i \in 1 .. Len(q) : q[i] \in Nat
      BY <1>0
    <2> HIDE DEF q
    <2>5. Ascending(q, sent', enqueued)
      BY <2>2, <2>3, <2>4 DEF Ascending
    <2>6. OutputInOrder'
      <3>1. output'.deque[0] = q /\ (IF packet' = 0 THEN sent' ELSE packet') = sent' /\ enqueued' = enqueued
        BY <1>2 DEF q
      <3>2. output' \in Schedulers(Numbers) /\ output'.deque[1] = << >>
        BY <1>2, <1>0
      <3>3. packet' = 0 /\ packet' \in 0 .. MaxOut /\ enqueued' \in 0 .. MaxOut
        BY <1>2, BoundsAssumption DEF OutputInOrder
      <3> QED BY <2>2, <2>5, <3>1, <3>2, <3>3 DEF OutputInOrder
    <2>7. PlacesOK' /\ \A u \in Threads : pc'[u] = IF u = "sender" THEN "loop" ELSE pc[u]
      BY <1>2, WorkerGoes DEF Workers, WorkerPlaces
    <2>8. PacketHeld'
      BY <1>2, <2>7 DEF PacketHeld, Threads, Workers
    <2>9. InputInOrder'
      BY <1>2 DEF InputInOrder
    <2>10. SizesSet'
      BY <1>2 DEF SizesSet, Workers
    <2>11. QueueBound' /\ RoomToPutBack'
      BY <1>2 DEF QueueBound, RoomToPutBack
    <2> QED BY <1>2, <2>6, <2>7, <2>8, <2>9, <2>10, <2>11
  <1>3. CASE Send
    BY <1>2, <1>3 DEF Send
  <1>4. CASE SendFails
    BY <1>2, <1>4 DEF SendFails
  <1>5. CASE SendError
    <2>1. CASE running_cond
      BY <1>5, <2>1, WorkerStepKeeps DEF SendError, Workers, WorkerPlaces, queues
    <2>2. CASE ~running_cond
      BY <1>2, <1>5, <2>2 DEF SendError
    <2> QED BY <2>1, <2>2
  <1>6. CASE SenderReports
    <2>1. PICK p \in NotifyOne(pc) : pc' = [p EXCEPT !["sender"] = "waiting"]
      BY <1>6 DEF SenderReports
    <2>2. /\ pc["sender"] = "report" /\ transport_rc' = "server_error" /\ packet' = 0
          /\ output' = PushFront(output, packet, 0)
          /\ UNCHANGED <<running_cond, input, received, enqueued, sent, processed>>
      BY <1>6 DEF SenderReports
    <2>3. /\ PlacesOK' /\ pc'["sender"] = "waiting"
      BY <2>1, <2>2, NotifierGoes DEF Workers, WorkerPlaces
    <2>4. PacketHeld'
      BY <2>2, <2>3 DEF PacketHeld
    <2>5. /\ packet # 0 /\ packet \in 1 .. MaxOut /\ sent < packet /\ packet <= enqueued
          /\ sent \in Nat /\ enqueued \in Nat /\ Ascending(q, packet, enqueued) /\ Len(q) <= QueueSize
      <3>1. packet # 0 /\ Len(q) <= QueueSize
        BY <2>2 DEF PacketHeld, RoomToPutBack
      <3>2. packet \in 0 .. MaxOut /\ enqueued \in 0 .. MaxOut /\ sent \in 0 .. MaxOut
        BY DEF OutputInOrder
      <3>3. sent < packet /\ packet <= enqueued
        BY <3>1 DEF OutputInOrder
      <3>4. Ascending(q, packet, enqueued)
        BY <3>1 DEF OutputInOrder
      <3>5. packet \in 1 .. MaxOut /\ sent \in Nat /\ enqueued \in Nat
        BY <3>1, <3>2, BoundsAssumption
      <3> QED BY <3>1, <3>3, <3>4, <3>5
    <2>6. /\ <<packet>> \o q \in Seq(Numbers) /\ Len(<<packet>> \o q) = Len(q) + 1
          /\ Ascending(<<packet>> \o q, sent, enqueued)
      BY <1>0, <2>5, PutBackAscends DEF Numbers
    <2>7. output' = WithQueue(output, 0, <<packet>> \o q)
      BY <2>2 DEF PushFront, WithQueue
    <2> DEFINE back == <<packet>> \o q
    <2> HIDE DEF back
    <2>8. /\ output' \in Schedulers(Numbers) /\ output'.sizes = output.sizes
          /\ output'.deque[0] = back /\ output'.deque[1] = << >>
      <3>1. output' = WithQueue(output, 0, back)
        BY <2>7 DEF back
      <3>3. back \in Seq(Numbers)
        BY <2>6 DEF back
      <3>2. /\ WithQueue(output, 0, back) \in Schedulers(Numbers)
            /\ WithQueue(output, 0, back).sizes = output.sizes
            /\ \A u \in Priorities :
                  WithQueue(output, 0, back).deque[u] = IF u = 0 THEN back ELSE output.deque[u]
        BY <1>0, <3>3, QueueReplaced
      <3> QED BY <1>0, <3>1, <3>2
    <2>9. OutputInOrder'
      <3>1. (IF packet' = 0 THEN sent' ELSE packet') = sent' /\ sent' = sent /\ enqueued' = enqueued
        BY <2>2
      <3>2. Ascending(output'.deque[0], sent, enqueued)
        BY <2>6, <2>8 DEF back
      <3>3. /\ packet' = 0 /\ packet' \in 0 .. MaxOut /\ enqueued' \in 0 .. MaxOut
            /\ sent' \in 0 .. MaxOut /\ sent' <= enqueued'
        BY <2>2, BoundsAssumption DEF OutputInOrder
      <3> QED BY <2>8, <3>1, <3>2, <3>3 DEF OutputInOrder
    <2>10. Len(output'.deque[0]) <= QueueSize + 1
      BY <1>0, <2>5, <2>6, <2>8, QueueSizeAssumption DEF back
    <2>11. InputInOrder'
      BY <2>2 DEF InputInOrder
    <2>12. SizesSet'
      BY <2>2, <2>8 DEF SizesSet, Workers
    <2>13. QueueBound' /\ RoomToPutBack'
      BY <2>2, <2>10 DEF QueueBound, RoomToPutBack
    <2> QED BY <2>2, <2>3, <2>4, <2>9, <2>11, <2>12, <2>13
  <1> QED BY <1>1, <1>3, <1>4, <1>5, <1>6 DEF Sender

\* A worker that may push one packet and goes on.
LEMMA PushStepKeeps ==
    ASSUME ServerIInv, NEW t \in {"processing", "heartbeat"}, pc[t] # "exited", Go(t, "loop"),
           PushOutputPacket \/ UNCHANGED <<enqueued, output>>,
           UNCHANGED <<running_cond, transport_rc, input, packet, received, sent, processed>>
    PROVE  ServerIInv'
  <1> USE DEF ServerIInv
  <1>1. CASE UNCHANGED <<enqueued, output>>
    BY <1>1, WorkerStepKeeps DEF Workers, WorkerPlaces, queues
  <1>2. CASE PushOutputPacket
    <2>1. /\ OutputInOrder' /\ output'.sizes = output.sizes
          /\ Len(output'.deque[0]) <= QueueSize + 1 /\ RoomToPutBack'
      BY <1>2, PushOutputKeeps DEF Workers
    <2>2. PlacesOK' /\ \A u \in Threads : pc'[u] = IF u = t THEN "loop" ELSE pc[u]
      BY WorkerGoes DEF Workers, WorkerPlaces
    <2>3. PacketHeld'
      BY <2>2 DEF PacketHeld, Threads, Workers
    <2>4. InputInOrder'
      BY DEF InputInOrder
    <2>5. SizesSet'
      BY <2>1 DEF SizesSet, Workers
    <2>6. QueueBound'
      BY <2>1 DEF QueueBound
    <2> QED BY <2>1, <2>2, <2>3, <2>4, <2>5, <2>6
  <1> QED BY <1>1, <1>2

\* A reader's thread pushes at any time once a message was processed.
LEMMA ReaderPushKeeps == ASSUME ServerIInv, ReaderPushes PROVE ServerIInv'
  <1> USE DEF ServerIInv, ReaderPushes
  <1>1. /\ OutputInOrder' /\ output'.sizes = output.sizes
        /\ Len(output'.deque[0]) <= QueueSize + 1 /\ RoomToPutBack'
    BY PushOutputKeeps
  <1>2. PlacesOK' /\ PacketHeld' /\ InputInOrder'
    BY DEF PlacesOK, PacketHeld, InputInOrder
  <1>3. SizesSet'
    BY <1>1 DEF SizesSet
  <1>4. QueueBound'
    BY <1>1 DEF QueueBound
  <1> QED BY <1>1, <1>2, <1>3, <1>4

\* The processing thread takes the oldest message of the highest priority.
LEMMA ProcessingKeeps == ASSUME ServerIInv, Processing PROVE ServerIInv'
  <1> USE DEF ServerIInv
  <1>1. CASE Process
    BY <1>1, PushStepKeeps DEF Process
  <1>2. CASE ProcessingPops
    <2>1. CASE ~input.running
      BY <1>2, <2>1, WorkerStepKeeps DEF ProcessingPops, Workers, WorkerPlaces, queues
    <2>2. CASE input.running
      <3> DEFINE p == Available(input)
                 q == input.deque[p]
      <3>1. /\ pc["processing"] = "pop" /\ Go("processing", "process") /\ CanPop(input)
            /\ processed' = [processed EXCEPT ![PriorityOf(Head(q).kind)] = Head(q).n]
            /\ input' = [input EXCEPT !.deque[p] = Tail(q)]
            /\ UNCHANGED <<running_cond, transport_rc, output, packet, received, enqueued, sent>>
        BY <1>2, <2>2 DEF ProcessingPops, Front, Pop
      <3>2. q # << >> /\ p \in Priorities
        BY <2>2, <3>1 DEF CanPop, Empty, Available, Priorities
      <3>3. /\ input \in Schedulers(Packets) /\ received \in 0 .. MaxIn
            /\ processed \in [Priorities -> 0 .. MaxIn]
            /\ \A r \in Priorities : input.deque[r] \in Seq(Packets)
            /\ \A r \in Priorities : processed[r] <= received
                  /\ Messages(input.deque[r], r, processed[r], received)
        BY DEF InputInOrder, Schedulers
      <3> HIDE DEF p
      <3>4. q \in Seq(Packets) /\ Messages(q, p, processed[p], received)
            /\ processed[p] \in Nat /\ received \in Nat
        BY <3>2, <3>3, BoundsAssumption
      <3>5. /\ PriorityOf(Head(q).kind) = p
            /\ processed[p] < Head(q).n /\ Head(q).n <= received /\ Messages(Tail(q), p, Head(q).n, received)
        BY <3>2, <3>4, TailMessages
      <3>6. Head(q) \in Packets /\ Tail(q) \in Seq(Packets) /\ Len(Tail(q)) = Len(q) - 1 /\ Len(q) \in Nat
        BY <3>2, <3>4
      <3>7. Head(q).n \in 0 .. MaxIn
        BY <3>6, BoundsAssumption DEF Packets
      <3>8. /\ input' \in Schedulers(Packets) /\ input'.sizes = input.sizes
            /\ \A r \in Priorities : input'.deque[r] = IF r = p THEN Tail(q) ELSE input.deque[r]
        BY <3>1, <3>2, <3>3, <3>6 DEF Schedulers
      <3>9. /\ processed' \in [Priorities -> 0 .. MaxIn]
            /\ \A r \in Priorities : processed'[r] = IF r = p THEN Head(q).n ELSE processed[r]
        BY <3>1, <3>2, <3>3, <3>5, <3>7
      <3> HIDE DEF q
      <3>10. InputInOrder'
        <4>1. \A r \in Priorities : processed'[r] <= received'
                  /\ Messages(input'.deque[r], r, processed'[r], received')
          BY <3>1, <3>3, <3>5, <3>8, <3>9
        <4> QED BY <3>1, <3>3, <3>8, <3>9, <4>1 DEF InputInOrder
      <3>11. OutputInOrder' /\ RoomToPutBack'
        BY <3>1 DEF OutputInOrder, RoomToPutBack
      <3>12. PlacesOK' /\ \A u \in Threads : pc'[u] = IF u = "processing" THEN "process" ELSE pc[u]
        BY <3>1, WorkerGoes DEF Workers, WorkerPlaces
      <3>13. PacketHeld'
        BY <3>1, <3>12 DEF PacketHeld, Threads, Workers
      <3>14. SizesSet'
        BY <3>1, <3>8 DEF SizesSet, Workers
      <3>15. QueueBound'
        <4>1. 0 \in Priorities /\ 1 \in Priorities
          BY DEF Priorities
        <4>2. Len(Tail(q)) <= Len(q) /\ Len(Tail(q)) \in Nat /\ Len(q) \in Nat
          BY <3>2, <3>4, FirstTaken
        <4> DEFINE l == Len(Tail(q))
        <4>5. Len(q) = Len(input.deque[p])
          BY DEF q
        <4>6. Len(input'.deque[p]) = l /\ l <= Len(q) /\ l \in Nat
          BY <3>2, <3>8, <4>2
        <4> HIDE DEF l
        <4>3. Len(input'.deque[0]) <= QueueSize
          <5>1. CASE p = 0
            BY <4>2, <4>5, <4>6, <5>1, QueueSizeAssumption DEF QueueBound
          <5>2. CASE p # 0
            BY <3>8, <4>1, <5>2 DEF QueueBound
          <5> QED BY <5>1, <5>2
        <4>4. Len(input'.deque[1]) <= 1
          <5>1. CASE p = 1
            BY <4>2, <4>5, <4>6, <5>1 DEF QueueBound
          <5>2. CASE p # 1
            BY <3>8, <4>1, <5>2 DEF QueueBound
          <5> QED BY <5>1, <5>2
        <4> QED BY <3>1, <4>3, <4>4 DEF QueueBound
      <3> QED BY <3>1, <3>10, <3>11, <3>12, <3>13, <3>14, <3>15
    <2> QED BY <2>1, <2>2
  <1> QED BY <1>1, <1>2 DEF Processing

-----------------------------------------------------------------------------
(* The theorems                                                            *)

LEMMA ServerInvariant == ServerSpec => []ServerIInv
  <1>1. ServerInit => ServerIInv
    <2> SUFFICES ASSUME ServerInit PROVE ServerIInv
      OBVIOUS
    <2>1. PlacesOK /\ SizesSet
      BY DEF ServerInit, PlacesOK, SizesSet, Threads, Workers, MainPlaces, WorkerPlaces
    <2>2. NewScheduler \in Schedulers(Packets) /\ NewScheduler \in Schedulers(Numbers)
          /\ \A p \in Priorities : NewScheduler.deque[p] = << >>
      BY DEF NewScheduler, Schedulers
    <2>3. InputInOrder
      BY <2>2, BoundsAssumption DEF ServerInit, InputInOrder, Messages
    <2>4. OutputInOrder
      BY <2>2, BoundsAssumption DEF ServerInit, OutputInOrder, Ascending, Priorities
    <2>5. PacketHeld
      BY DEF ServerInit, PacketHeld, Threads, Workers
    <2>6. QueueBound /\ RoomToPutBack
      BY <2>2, QueueSizeAssumption DEF ServerInit, QueueBound, RoomToPutBack, Priorities
    <2>7. running_cond \in BOOLEAN /\ transport_rc \in {"ok", "server_error"}
      BY DEF ServerInit
    <2> QED BY <2>1, <2>3, <2>4, <2>5, <2>6, <2>7 DEF ServerIInv
  <1>2. ServerIInv /\ [ServerNext]_server_vars => ServerIInv'
    <2> SUFFICES ASSUME ServerIInv, [ServerNext]_server_vars PROVE ServerIInv'
      OBVIOUS
    <2>1. CASE CheckHeartbeats
      BY <2>1, PushStepKeeps DEF CheckHeartbeats
    <2>2. CASE \E t \in Workers : Loop(t) \/ Resume(t)
      BY <2>2, LoopsKeep
    <2>3. CASE \E t \in {"receiver", "sender", "handler"} : SpuriousWakeup(t)
      BY <2>3, LoopsKeep DEF Workers
    <2>4. CASE UNCHANGED server_vars
      BY <2>4 DEF server_vars, ServerIInv, PlacesOK, InputInOrder, OutputInOrder, PacketHeld,
         SizesSet, QueueBound, RoomToPutBack
    <2> QED BY <2>1, <2>2, <2>3, <2>4, StartKeeps, StopKeeps, ReceiverKeeps, SenderKeeps,
               ProcessingKeeps, ReaderPushKeeps, HandlerKeeps DEF ServerNext
  <1> QED BY <1>1, <1>2, PTL DEF ServerSpec

\* The queues keep their limits, but for the one packet that a failed send
\* puts back (PacketScheduler::push, push_front), for every size and in every
\* order of receiving, sending, errors, stops and starts.
THEOREM ServerIsSafe == ServerSpec => []ServerInv
  BY ServerInvariant, InvariantImplies, PTL

\* Both directions keep their order: packets dropped, lost or put back after
\* an error never let a younger one go first (sender_loop, processing_loop).
THEOREM ServedInOrderAlways == ServerSpec => ServedInOrder
  <1>1. ServerIInv /\ [ServerNext]_server_vars => [sent' # sent => sent' > sent]_server_vars
    <2> SUFFICES ASSUME ServerIInv, ServerNext, sent' # sent PROVE sent' > sent
      BY DEF server_vars
    <2>1. Send
      BY DEF ServerNext, Start, Stop, StopRunning, StopInput, StopOutput, StopNotify, StopJoin,
         Receiver, Receive, ReceiveNothing, ReceiveError, ReceiverReports, Sender, SenderPops,
         SendFails, SendError, SenderReports, Processing, ProcessingPops, Process,
         CheckHeartbeats, ReaderPushes, Handler, HandlerLocks, HandlerWaits, HandlerEnds, Loop, Resume,
         SpuriousWakeup, queues
    <2>2. packet # 0 /\ sent' = packet
      BY <2>1 DEF Send, ServerIInv, PacketHeld
    <2> QED BY <2>2, BoundsAssumption DEF ServerIInv, OutputInOrder
  <1>2. ServerIInv /\ [ServerNext]_server_vars
          => [\A p \in Priorities : processed'[p] # processed[p] => processed'[p] > processed[p]]_server_vars
    <2> SUFFICES ASSUME ServerIInv, ServerNext, NEW p \in Priorities, processed'[p] # processed[p]
                 PROVE  processed'[p] > processed[p]
      BY DEF server_vars
    <2>1. ProcessingPops /\ input.running
      BY DEF ServerNext, Start, Stop, StopRunning, StopInput, StopOutput, StopNotify, StopJoin,
         Receiver, Receive, ReceiveNothing, ReceiveError, ReceiverReports, Sender, SenderPops,
         Send, SendFails, SendError, SenderReports, Processing, ProcessingPops, Process,
         CheckHeartbeats, ReaderPushes, Handler, HandlerLocks, HandlerWaits, HandlerEnds, Loop, Resume,
         SpuriousWakeup, queues
    <2> DEFINE a == Available(input)
               q == input.deque[a]
    <2>2. q # << >> /\ a \in Priorities
      BY <2>1 DEF ProcessingPops, CanPop, Empty, Available, Priorities
    <2>3. processed' = [processed EXCEPT ![PriorityOf(Head(q).kind)] = Head(q).n]
      BY <2>1 DEF ProcessingPops, Front
    <2> HIDE DEF a
    <2>4. /\ q \in Seq(Packets) /\ Messages(q, a, processed[a], received)
          /\ processed \in [Priorities -> 0 .. MaxIn] /\ processed[a] \in Nat /\ received \in Nat
      BY <2>2, BoundsAssumption DEF ServerIInv, InputInOrder, Schedulers
    <2>5. PriorityOf(Head(q).kind) = a /\ processed[a] < Head(q).n /\ Head(q) \in Packets
      BY <2>2, <2>4, TailMessages
    <2>6. Head(q).n \in Nat
      BY <2>5, BoundsAssumption DEF Packets
    <2> HIDE DEF q
    <2>7. p = a /\ processed'[p] = Head(q).n
      BY <2>2, <2>3, <2>4, <2>5
    <2> QED BY <2>4, <2>5, <2>6, <2>7
  <1> QED BY ServerInvariant, <1>1, <1>2, PTL DEF ServerSpec, ServedInOrder, SentInOrder, ProcessedInOrder
=============================================================================
