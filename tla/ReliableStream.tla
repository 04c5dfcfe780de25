--------------------------- MODULE ReliableStream ---------------------------
(***************************************************************************)
(* A reliable XRCE stream of the Micro-XRCE-DDS Agent: the two classes     *)
(* ReliableOutputStream and ReliableInputStream (client/session/stream),   *)
(* with the Processor handlers that drive them, joined by a network that   *)
(* loses, duplicates and reorders datagrams.  Both ends of a session run   *)
(* this protocol; the model takes the Agent's code for both, one stream.   *)
(*                                                                         *)
(* The numbers the code keeps and sends are residues (SeqNum).  Messages   *)
(* themselves are absolute numbers, never seen by the code: the stream has *)
(* carried and settled the messages below base when the run starts, and    *)
(* the residue of message n is n % Modulus.                                *)
(***************************************************************************)
EXTENDS SeqNum, Sequences, FiniteSets, FiniteSetsExt

CONSTANTS
    Depth,        \* RELIABLE_STREAM_DEPTH (16)
    NackBits,     \* bits of an ACKNACK's bitmap (16)
    MaxFrags,     \* bound: the fragments of one submessage
    MaxPackets,   \* bound: the messages pushed in a run
    MaxControl,   \* bound: HEARTBEATs, and ACKNACKs, in flight
    Bases         \* how many messages the stream may have settled before

\* Messages the sender may have outstanding: push_submessage looks at the
\* window once, then pushes all the fragments.
MaxOutstanding == Depth - 1 + MaxFrags

ASSUME StreamAssumption ==
    /\ Depth \in Nat \ {0} /\ NackBits \in Nat \ {0}
    /\ MaxFrags \in Nat \ {0} /\ MaxPackets \in Nat /\ MaxControl \in Nat \ {0}
    /\ Bases \subseteq Nat
    /\ MaxOutstanding < Half

VARIABLES
    base,            \* the first message of this run
    pushed,          \* messages accepted by push_submessage in this run
    alive,           \* the sender has heard the client: state_ is alive, its endpoint known
    \* ReliableOutputStream
    messages,        \* messages_: residue -> message
    last_unacked, last_sent, first_unacked,
    \* ReliableInputStream
    in_messages,     \* messages_: residue -> message
    last_handled, last_announced,
    handed,          \* what process_input_message was given, in order
    \* the datagrams in flight; data is a set of messages
    data, heartbeats, acknacks

output_stream == <<messages, last_unacked, last_sent, first_unacked>>
input_stream  == <<in_messages, last_handled, last_announced, handed>>
stream_vars   == <<base, pushed, alive, output_stream, input_stream, data, heartbeats, acknacks>>

Residue(n) == n % Modulus

NoMessages == [r \in {} |-> 0]

\* emplace and insert: an entry that is there already stays.
Insert(map, r, n) == IF r \in DOMAIN map THEN map
                     ELSE [q \in DOMAIN map \cup {r} |-> IF q = r THEN n ELSE map[q]]

Erase(map, rs) == [q \in DOMAIN map \ rs |-> map[q]]

----------------------------------------------------------------------------
(***************************************************************************)
(* The network.                                                            *)
(***************************************************************************)

\* A datagram does not live while some 32000 (here Half, or a little less)
\* further messages are pushed: the assumption without which 16-bit numbers
\* could not be told apart at all.
FreshData(n) == base + pushed' - n <= Half

FreshControl(packet) == pushed' - packet.sentAt < Half - MaxOutstanding

\* Sending on a full control channel loses the datagram.
Transmit(channel, packet) ==
    IF Cardinality(channel) < MaxControl THEN channel \cup {packet} ELSE channel

\* A datagram that was received may still come a second time.
Received(channel, packet) == {channel, channel \ {packet}}

StreamInit ==
    /\ base \in Bases
    /\ pushed = 0 /\ alive = TRUE
    /\ messages = NoMessages
    /\ last_unacked = Residue(base + Modulus - 1)
    /\ last_sent = last_unacked
    /\ first_unacked = Residue(base)
    /\ in_messages = NoMessages
    /\ last_handled = last_unacked
    /\ last_announced = last_unacked
    /\ handed = <<>>
    /\ data = {} /\ heartbeats = {} /\ acknacks = {}

----------------------------------------------------------------------------
(***************************************************************************)
(* ReliableOutputStream.                                                   *)
(***************************************************************************)

\* The condition push_submessage waits for.
window_open == Lt(last_unacked, Plus(first_unacked, Depth - 1))

\* A push that times out changes nothing.  A submessage above the MTU takes
\* one message per fragment, all in the same critical section.
push_submessage(frags) ==
    /\ pushed + frags <= MaxPackets
    /\ window_open
    /\ last_unacked' = Plus(last_unacked, frags)
    /\ messages' =
          [r \in DOMAIN messages \cup {Plus(last_unacked, i) : i \in 1 .. frags} |->
              IF r \in DOMAIN messages THEN messages[r]
              ELSE base + pushed + Minus(r, last_unacked) - 1]
    /\ pushed' = pushed + frags
    /\ data' = {n \in data : FreshData(n)}
    /\ heartbeats' = {h \in heartbeats : FreshControl(h)}
    /\ acknacks' = {a \in acknacks : FreshControl(a)}
    /\ UNCHANGED <<base, alive, last_sent, first_unacked, input_stream>>

\* The thread that pushed sends what is not sent yet.
get_next_message ==
    /\ Lt(last_sent, last_unacked)
    /\ last_sent' = Plus(last_sent, 1)
    /\ data' = data \cup {messages[last_sent']}
    /\ UNCHANGED <<base, pushed, alive, messages, last_unacked, first_unacked,
                   input_stream, heartbeats, acknacks>>

\* Mutated form of fill_heartbeat: announces from the last sent message on.
AnnouncesSent ==
    /\ alive /\ DOMAIN messages # {}
    /\ heartbeats' = Transmit(heartbeats, [first |-> last_sent,
                                           last |-> last_unacked,
                                           sentAt |-> pushed])
    /\ UNCHANGED <<base, pushed, alive, output_stream, input_stream, data, acknacks>>

\* check_heartbeats, once a period for every client that is alive: HEARTBEATs are
\* sent while messages are outstanding, and announce messages that are not sent yet.
fill_heartbeat ==
    /\ alive /\ DOMAIN messages # {}
    /\ heartbeats' = Transmit(heartbeats, [first |-> first_unacked,
                                           last |-> last_unacked,
                                           sentAt |-> pushed])
    /\ UNCHANGED <<base, pushed, alive, output_stream, input_stream, data, acknacks>>

\* Nothing was heard of the client for CLIENT_DEAD_TIME: it is dead.
get_state ==
    /\ alive /\ alive' = FALSE
    /\ UNCHANGED <<base, pushed, output_stream, input_stream, data, heartbeats, acknacks>>

\* Any message of the client, on this stream or another, brings it back.
update_state ==
    /\ ~alive /\ alive' = TRUE
    /\ UNCHANGED <<base, pushed, output_stream, input_stream, data, heartbeats, acknacks>>

\* Mutated form of credible: one of the last sent message is not believed.
NeverTheLast(first) == Lt(first, Plus(last_sent, 1))

\* An acknowledgement of what was never sent is ignored.
credible(first) == Le(first, Plus(last_sent, 1))

\* The residues from first_unacked up to, not including, first.
acked_by(first) ==
    IF Gt(first, first_unacked)
    THEN {Plus(first_unacked, i) : i \in 0 .. Minus(first, first_unacked) - 1}
    ELSE {}

update_from_acknack(first) ==
    IF credible(first)
    THEN /\ messages' = Erase(messages, acked_by(first))
         /\ first_unacked' = Plus(first_unacked, Cardinality(acked_by(first)))
    ELSE UNCHANGED <<messages, first_unacked>>

\* First the nacked messages that are still kept are sent again, also one that
\* get_next_message has not reached; then the window moves.
process_acknack(a) ==
    /\ a \in acknacks
    /\ acknacks' \in Received(acknacks, a)
    /\ data' = data \cup {messages[r] : r \in
                  {Residue(a.first + i) : i \in a.nacks} \cap DOMAIN messages}
    /\ update_from_acknack(a.first)
    /\ alive' = TRUE
    /\ UNCHANGED <<base, pushed, last_unacked, last_sent, input_stream, heartbeats>>

----------------------------------------------------------------------------
(***************************************************************************)
(* ReliableInputStream.                                                    *)
(***************************************************************************)

\* Mutated form of fill_acknack: acknowledges what was announced.
AcksAnnounced(kept, handled, announced) ==
    [first |-> Plus(announced, 1), nacks |-> {}, sentAt |-> pushed]

\* fill_acknack: a bit for every announced message that is not here.
fill_acknack(kept, handled, announced) ==
    [first |-> Plus(handled, 1),
     nacks |-> {i \in 0 .. NackBits - 1 : /\ Lt(Plus(handled, i), announced)
                                          /\ Plus(handled, i + 1) \notin DOMAIN kept},
     sentAt |-> pushed]

\* push_message takes a message of the receive window.
in_window(r) == Gt(r, last_handled) /\ Le(r, Plus(last_handled, Depth))

\* The number of messages the pop_message loop of process_input_packet takes.
poppable(kept) ==
    Max({k \in 0 .. Cardinality(DOMAIN kept) :
            \A i \in 1 .. k : Plus(last_handled, i) \in DOMAIN kept})

\* process_input_packet: push_message, pop_message until it fails, ACKNACK.
process_data(n) ==
    LET r        == Residue(n)
        kept     == IF in_window(r) THEN Insert(in_messages, r, n) ELSE in_messages
        k        == poppable(kept)
        released == [i \in 1 .. k |-> Plus(last_handled, i)]
    IN  /\ n \in data
        /\ data' \in Received(data, n)
        /\ last_announced' = IF in_window(r) /\ Gt(r, last_announced)
                             THEN r ELSE last_announced
        /\ last_handled' = Plus(last_handled, k)
        /\ handed' = handed \o [i \in 1 .. k |-> kept[released[i]]]
        /\ in_messages' = Erase(kept, {released[i] : i \in 1 .. k})
        /\ acknacks' = Transmit(acknacks,
                           fill_acknack(in_messages', last_handled', last_announced'))
        /\ UNCHANGED <<base, pushed, alive, output_stream, heartbeats>>

\* Messages the sender does not keep any more are skipped.
skip_to(first) ==
    IF Lt(Plus(last_handled, 1), first) THEN Minus(first, 1) ELSE last_handled

\* process_heartbeat_submessage: update_from_heartbeat, ACKNACK.
process_heartbeat(h) ==
    /\ h \in heartbeats
    /\ heartbeats' \in Received(heartbeats, h)
    /\ last_handled' = skip_to(h.first)
    /\ last_announced' = IF Lt(last_announced, h.last) THEN h.last ELSE last_announced
    /\ acknacks' = Transmit(acknacks,
                       fill_acknack(in_messages, last_handled', last_announced'))
    /\ UNCHANGED <<base, pushed, alive, output_stream, in_messages, handed, data>>

----------------------------------------------------------------------------
Lose ==
    /\ \/ \E n \in data : data' = data \ {n} /\ UNCHANGED <<heartbeats, acknacks>>
       \/ \E h \in heartbeats : heartbeats' = heartbeats \ {h} /\ UNCHANGED <<data, acknacks>>
       \/ \E a \in acknacks : acknacks' = acknacks \ {a} /\ UNCHANGED <<data, heartbeats>>
    /\ UNCHANGED <<base, pushed, alive, output_stream, input_stream>>

StreamNext ==
    \/ \E frags \in 1 .. MaxFrags : push_submessage(frags)
    \/ get_next_message
    \/ fill_heartbeat \/ get_state \/ update_state
    \/ \E a \in acknacks : process_acknack(a)
    \/ \E n \in data : process_data(n)
    \/ \E h \in heartbeats : process_heartbeat(h)
    \/ Lose

StreamSpec == StreamInit /\ [][StreamNext]_stream_vars

\* Fairness.  A thread that pushed goes on to send.  The server's heartbeat thread
\* runs once a period for ever, and a client that was heard stays alive for
\* CLIENT_DEAD_TIME (30 s), many periods (of 200 ms): one that is heard again and
\* again is sent HEARTBEATs again and again.  The link is fair: a datagram that is sent
\* over and over again arrives, and is not kept in flight for ever.
StreamFairness ==
    /\ WF_stream_vars(get_next_message)
    /\ SF_stream_vars(fill_heartbeat)
    /\ SF_stream_vars(\E a \in acknacks : process_acknack(a) /\ a \notin acknacks')
    /\ \A i \in 0 .. MaxPackets - 1 :
           SF_stream_vars(process_data(base + i) /\ base + i \notin data')
    /\ SF_stream_vars(\E h \in heartbeats : process_heartbeat(h) /\ h \notin heartbeats')

StreamFairSpec == StreamSpec /\ StreamFairness

----------------------------------------------------------------------------
(***************************************************************************)
(* Properties.                                                             *)
(***************************************************************************)

Messages == {base + i : i \in 0 .. pushed - 1}

Control == [first : Residues, last : Residues, sentAt : 0 .. pushed]

StreamTypeOK ==
    /\ base \in Bases /\ pushed \in 0 .. MaxPackets /\ alive \in BOOLEAN
    /\ {last_unacked, last_sent, first_unacked, last_handled, last_announced}
          \subseteq Residues
    /\ \A r \in DOMAIN messages : r \in Residues /\ messages[r] \in Messages
    /\ \A r \in DOMAIN in_messages : r \in Residues /\ in_messages[r] \in Messages
    /\ handed \in Seq(Messages)
    /\ data \subseteq Messages
    /\ heartbeats \subseteq Control
    /\ \A a \in acknacks : /\ a.first \in Residues /\ a.sentAt \in 0 .. pushed
                           /\ a.nacks \subseteq 0 .. NackBits - 1

\* The sender keeps exactly the messages from first_unacked_ to last_unacked_,
\* each under its own number.  messages_.at(last_sent_) in get_next_message
\* therefore never throws, and every message that can be nacked can be sent
\* again, whatever acknowledgements arrive in whatever order.
SenderKeepsUnacked ==
    LET outstanding == Minus(Plus(last_unacked, 1), first_unacked)
    IN  /\ DOMAIN messages = {Plus(first_unacked, i) : i \in 0 .. outstanding - 1}
        /\ \A r \in DOMAIN messages : Residue(messages[r]) = r
        /\ Lt(last_sent, last_unacked) => Plus(last_sent, 1) \in DOMAIN messages

\* Nothing is skipped: the receiver's last_handled_ counts exactly what was
\* handed over.  update_from_heartbeat can jump over messages, but no HEARTBEAT,
\* however late, makes it do so.
NothingSkipped == last_handled = Residue(base + Modulus - 1 + Len(handed))

\* The receiver holds only messages beyond last_handled_, within the window.
ReceiverKeepsWindow ==
    DOMAIN in_messages \subseteq {Plus(last_handled, i) : i \in 1 .. Depth}

\* The stream implements the channel it promises: what was accepted is handed
\* over exactly once, in order, across the wrap of the numbers.
Channel == INSTANCE ReliableChannel WITH
               accepted <- [i \in 1 .. pushed |-> base + i - 1]
ImplementsChannel == Channel!Spec

\* Everything push_submessage accepted is handed over in the end, through the
\* HEARTBEAT / ACKNACK exchange, whatever the link loses: there are MaxPackets
\* pushes at most, so in the end nothing is missing.
EventuallyHanded == []<>(Len(handed) = pushed)

\* When nobody pushes any more the sender's map empties, although an
\* acknowledgement of a message that was sent only as an answer to an ACKNACK,
\* before get_next_message reached it, is ignored (update_from_acknack).
EventuallySettled == []<>(DOMAIN messages = {})

\* "No more than RELIABLE_STREAM_DEPTH message shall be pushed in a reliable
\* stream" (OutputStreamTest.cpp:167), read as a bound on the messages the
\* sender keeps for retransmission.  The fragments of one submessage exceed it.
WithinDepth == Cardinality(DOMAIN messages) <= Depth

\* The two windows: nothing that the receiver may still ask for is forgotten,
\* nothing is skipped, and what waits at the receiver lies within its window.
StreamInv == StreamTypeOK /\ SenderKeepsUnacked /\ NothingSkipped /\ ReceiverKeepsWindow

\* What is accepted is handed over and settled, if the client is heard again and
\* again.  (One that says nothing for CLIENT_DEAD_TIME gets no HEARTBEATs until it
\* does, and what it lost is not sent again meanwhile.)
StreamSettles == []<>alive => EventuallyHanded /\ EventuallySettled
=============================================================================
