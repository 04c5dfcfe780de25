----------------------------- MODULE Fragments -----------------------------
(***************************************************************************)
(* Submessages larger than the MTU on a reliable stream:                   *)
(* ReliableOutputStream::push_submessage cuts them into FRAGMENTs,         *)
(* ReliableInputStream::push_fragment and pop_fragment_message put them    *)
(* together again.  Between the two is the stream that ReliableStream      *)
(* checks, which hands on what it was given, once and in order.  As there, *)
(* the Agent's code stands for both ends.                                  *)
(*                                                                         *)
(* An octet is the submessage it belongs to and its place in it.           *)
(***************************************************************************)
EXTENDS Naturals, Sequences, SequencesExt

CONSTANTS Sizes,        \* serialized sizes of submessages, with their subheaders
          Mtu,          \* session_info.mtu
          HeaderSize, SubheaderSize,
          Limit,        \* 2^16, the modulus of serialized_size
          MaxMessages,  \* bound: submessages pushed in a run
          MaxQueue      \* bound: messages in the stream

ASSUME FragmentsAssumption ==
    /\ Sizes \subseteq Nat \ {0} /\ {HeaderSize, SubheaderSize, Limit, MaxMessages, MaxQueue} \subseteq Nat
    /\ Mtu \in Nat /\ HeaderSize + SubheaderSize < Mtu /\ Mtu < Limit

VARIABLES sent,          \* the submessages pushed, each the sequence of its octets
          cutting,       \* push_submessage is cutting the last of them
          serialized,    \* serialized_size
          cut,           \* the octets it has put into fragments
          queue,         \* the stream: messages [octets, fragment, last]
          fragment_msg,  \* fragment_msg_, without its header
          assembled,     \* what process_input_message was given
          restarted      \* history: the client has started anew

fragments_vars == <<sent, cutting, serialized, cut, queue, fragment_msg, assembled, restarted>>

Octets(id, size) == [i \in 1 .. size |-> <<id, i>>]

FragmentsInit ==
    /\ sent = << >> /\ cutting = FALSE /\ serialized = 0 /\ cut = << >>
    /\ queue = << >> /\ fragment_msg = << >> /\ assembled = << >>
    /\ restarted = FALSE

-----------------------------------------------------------------------------
\* push_submessage: a submessage that fits goes as it is, one that does not is
\* serialized and cut.
push_large_submessage(size) ==
    LET octets == Octets(Len(sent) + 1, size)
    IN /\ ~cutting /\ Len(sent) < MaxMessages /\ Len(queue) < MaxQueue
       /\ sent' = Append(sent, octets)
       /\ IF HeaderSize + size <= Mtu
          THEN /\ queue' = Append(queue, [octets |-> octets, fragment |-> FALSE, last |-> FALSE])
               /\ UNCHANGED <<cutting, serialized, cut>>
          ELSE /\ cutting' = TRUE /\ serialized' = 0 /\ cut' = << >>
               /\ UNCHANGED queue
       /\ UNCHANGED <<fragment_msg, assembled, restarted>>

max_fragment_size == Mtu - HeaderSize - SubheaderSize

\* Mutant: a rest that fits exactly is taken for too large, and cut short.
IsLast_strict(rest) == HeaderSize + SubheaderSize + rest < Mtu

\* The rest of the submessage fits into one fragment.
IsLast(rest) == HeaderSize + SubheaderSize + rest <= Mtu

\* One turn of the loop in push_submessage.  serialized_size has 16 bits.
CutFragment ==
    /\ cutting /\ Len(queue) < MaxQueue
    /\ LET octets == Last(sent)
           last == IsLast(Len(octets) - serialized)
           n == IF last THEN Len(octets) - serialized ELSE max_fragment_size
           part == SubSeq(octets, serialized + 1, serialized + n)
       IN /\ queue' = Append(queue, [octets |-> part, fragment |-> TRUE, last |-> last])
          /\ cut' = cut \o part
          /\ serialized' = (serialized + n) % Limit
          /\ cutting' = (serialized' < Len(octets))
    /\ UNCHANGED <<sent, fragment_msg, assembled, restarted>>

\* push_fragment, and pop_fragment_message after the last one.
process_fragment_submessage(m) ==
    IF m.last
    THEN /\ assembled' = Append(assembled, fragment_msg \o m.octets)
         /\ fragment_msg' = << >>
    ELSE /\ fragment_msg' = fragment_msg \o m.octets
         /\ UNCHANGED assembled

Receive ==
    /\ queue # << >>
    /\ queue' = Tail(queue)
    /\ IF Head(queue).fragment THEN process_fragment_submessage(Head(queue))
       ELSE assembled' = Append(assembled, Head(queue).octets) /\ UNCHANGED fragment_msg
    /\ UNCHANGED <<sent, cutting, serialized, cut, restarted>>

\* The client starts anew with the same session: ReliableInputStream::reset
\* forgets the numbers and the messages that were not handed on yet.
Reset ==
    /\ restarted' = TRUE
    /\ queue' = << >> /\ cutting' = FALSE /\ serialized' = 0 /\ cut' = << >>
    /\ UNCHANGED <<sent, fragment_msg, assembled>>

FragmentsNext == CutFragment \/ Receive \/ Reset \/ \E size \in Sizes : push_large_submessage(size)

FragmentsSpec == FragmentsInit /\ [][FragmentsNext]_fragments_vars

-----------------------------------------------------------------------------
(* While the client has not started anew, what is handed on are the        *)
(* submessages that were pushed, whole, once and in order, whatever their  *)
(* sizes; in the end all of them (push_submessage, push_fragment,          *)
(* pop_fragment_message).                                                  *)
SubmessagesInOrder ==
    ~restarted =>
        /\ IsPrefix(assembled, sent)
        /\ ~cutting /\ queue = << >> => assembled = sent

(* The fragments made so far are a beginning of the submessage, and all of *)
(* it when the loop has ended: no octet twice, none left out.              *)
FragmentsInOrder ==
    /\ cutting => IsPrefix(cut, Last(sent))
    /\ ~cutting /\ cut # << >> => \E m \in Range(sent) : m = cut

(* No message is larger than the MTU, and no fragment is empty.            *)
MessagesFit ==
    \A i \in DOMAIN queue :
        LET m == queue[i]
        IN /\ HeaderSize + (IF m.fragment THEN SubheaderSize ELSE 0) + Len(m.octets) <= Mtu
           /\ m.octets # << >>

\* Submessages of every size arrive whole and in order, in messages that fit.
FragmentsInv == SubmessagesInOrder /\ FragmentsInOrder /\ MessagesFit
=============================================================================
