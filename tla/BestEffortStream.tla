-------------------------- MODULE BestEffortStream --------------------------
(***************************************************************************)
(* BestEffortOutputStream and BestEffortInputStream: a queue of limited    *)
(* depth at either end, and between them a network that loses, duplicates  *)
(* and reorders.  What is not newer than what has been received is dropped *)
(* by its 16-bit number.  As in ReliableStream the Agent's code stands for *)
(* both ends, and a message is its absolute number, which the code never   *)
(* sees: only its residue.                                                 *)
(***************************************************************************)
EXTENDS SeqNum, Sequences, FiniteSets

CONSTANTS BestEffortDepth,        \* BEST_EFFORT_STREAM_DEPTH (16)
          MaxPushed,    \* bound: messages pushed in a run
          MaxInFlight,  \* bound: datagrams in flight
          Lifetime      \* a datagram is gone when this many newer ones were sent

ASSUME BestEffortAssumption ==
    /\ {BestEffortDepth, MaxPushed, MaxInFlight, Lifetime} \subseteq Nat
    /\ Lifetime < Half

VARIABLES be_pushed,         \* messages pushed so far
          out, be_last_sent, \* the output stream
          net,            \* datagrams in flight
          in,             \* messages_ of the input stream
          last_received,
          newest,         \* the newest message received, -1 before the first
          be_handed          \* the last message handed on, -1 before the first

best_effort_vars == <<be_pushed, out, be_last_sent, net, in, last_received, newest, be_handed>>

BestEffortInit ==
    /\ be_pushed = 0 /\ out = << >> /\ be_last_sent = Modulus - 1 /\ net = {}
    /\ in = << >> /\ last_received = Modulus - 1 /\ newest = -1 /\ be_handed = -1

\* BestEffortOutputStream::push_submessage of what fits the MTU; with a full
\* queue it is refused, and nothing changes.
push_best_effort ==
    /\ be_pushed < MaxPushed /\ Len(out) < BestEffortDepth
    /\ out' = Append(out, be_pushed) /\ be_pushed' = be_pushed + 1
    /\ be_last_sent' = Plus(be_last_sent, 1)
    /\ UNCHANGED <<net, in, last_received, newest, be_handed>>

\* BestEffortOutputStream::pop_message, and the packet is sent.
Send ==
    /\ out # << >> /\ Cardinality(net) < MaxInFlight
    /\ out' = Tail(out)
    /\ net' = {n \in net : Head(out) - n <= Lifetime} \cup {Head(out)}
    /\ UNCHANGED <<be_pushed, be_last_sent, in, last_received, newest, be_handed>>

LoseDatagram(n) ==
    /\ net' = net \ {n}
    /\ UNCHANGED <<be_pushed, out, be_last_sent, in, last_received, newest, be_handed>>

\* Mutant: a number that is equal counts as newer.
push_message_again(n) ==
    /\ ~Lt(n % Modulus, last_received) /\ Len(in) < BestEffortDepth
    /\ in' = Append(in, n) /\ last_received' = n % Modulus /\ newest' = n
    /\ net' \in {net, net \ {n}}
    /\ UNCHANGED <<be_pushed, out, be_last_sent, be_handed>>

\* BestEffortInputStream::push_message.  A datagram may come again.
push_message(n) ==
    /\ Gt(n % Modulus, last_received) /\ Len(in) < BestEffortDepth
    /\ in' = Append(in, n) /\ last_received' = n % Modulus /\ newest' = n
    /\ net' \in {net, net \ {n}}
    /\ UNCHANGED <<be_pushed, out, be_last_sent, be_handed>>

\* BestEffortInputStream::pop_message.
pop_message ==
    /\ in # << >>
    /\ in' = Tail(in) /\ be_handed' = Head(in)
    /\ UNCHANGED <<be_pushed, out, be_last_sent, net, last_received, newest>>

BestEffortNext == push_best_effort \/ Send \/ pop_message \/ \E n \in net : LoseDatagram(n) \/ push_message(n)

BestEffortSpec == BestEffortInit /\ [][BestEffortNext]_best_effort_vars

-----------------------------------------------------------------------------
(* What is handed on is newer than all that was before: nothing twice and  *)
(* nothing out of order, however the numbers wrap.                         *)
HandedOnlyForward == [][Len(in') < Len(in) => be_handed' > be_handed]_best_effort_vars

(* A datagram in flight that is newer than all that came, by less than     *)
(* half of the numbers, would be taken, and one that is not would be       *)
(* dropped, whatever was lost in between or refused at a full queue.       *)
NumbersTellNewFromOld ==
    \A n \in net :
        n - newest < Half => (Gt(n % Modulus, last_received) <=> n > newest)

\* What is handed on only ever gets newer, because the numbers tell new from
\* old across their wrap (push_message, pop_message).
BestEffortInOrder == []NumbersTellNewFromOld /\ HandedOnlyForward
=============================================================================
