------------------------------ MODULE AgentServer ------------------------------
(***************************************************************************)
(* The Agent's threads (src/cpp/transport/Server.cpp).  start makes five:  *)
(* the receiver fills the input queue, the processing thread empties it    *)
(* and answers, the heartbeat thread adds packets of its own, the sender   *)
(* empties the output queue, and the error handler repairs the transport   *)
(* when the receiver or the sender meets a server error.  The clients'     *)
(* reader threads push packets too.  stop clears running_cond_, ends both  *)
(* queues, notifies error_cv_ and joins.                                   *)
(*                                                                         *)
(* A thread's place is its label in pc.  error_mtx_ protects transport_rc_ *)
(* and is held across steps by the error handler alone: the receiver and   *)
(* the sender take it, report, and give it up in wait, which for every     *)
(* other thread is one step.  stop does not take it, so its notify_all may *)
(* fall between a thread's last look at running_cond_ and its wait.        *)
(*                                                                         *)
(* The transport (recv_message, send_message, handle_error) is virtual     *)
(* here; each call returns one of the outcomes its implementations have.   *)
(***************************************************************************)
EXTENDS PacketScheduler

CONSTANTS
    QueueSize,   \* SERVER_QUEUE_MAX_SIZE
    MaxIn,       \* bound: messages that arrive
    MaxOut,      \* bound: packets pushed to the output queue
    MaxErrors,   \* bound: calls that end in a server error
    MaxStarts    \* bound: calls of start

ASSUME QueueSizeAssumption == QueueSize \in Nat \ {0}
ASSUME BoundsAssumption ==
    /\ MaxIn \in Nat
    /\ MaxOut \in Nat
    /\ MaxErrors \in Nat
    /\ MaxStarts \in Nat

Workers == {"receiver", "sender", "processing", "heartbeat", "handler"}
Threads == Workers \union {"main"}

(* What an input message starts with and holds: data, a heartbeat, or a    *)
(* heartbeat with data after it.                                           *)
MessageKinds == {"data", "heartbeat", "heartbeat_data"}

VARIABLES
    pc,             \* the place of every thread
    running_cond,
    transport_rc,
    input,          \* input_scheduler_
    output,         \* output_scheduler_
    packet,         \* the sender's output_packet; 0 once it is not read again
    received,       \* messages that arrived; the last one's number
    enqueued,       \* packets pushed to the output queue; the last one's number
    sent,           \* the last packet the transport took
    processed,      \* the last message processed of each priority
    errors,         \* server errors so far
    starts          \* calls of start so far

server_vars == <<pc, running_cond, transport_rc, input, output, packet, received,
          enqueued, sent, processed, errors, starts>>

queues == <<input, output, packet, received, enqueued, sent, processed>>

Go(t, l) == pc' = [pc EXCEPT ![t] = l]

(***************************************************************************)
(* error_mtx_ and error_cv_.                                               *)
(***************************************************************************)
MutexFree == pc["handler"] \notin {"about_to_wait", "handling"}

Waiting == {t \in Workers : pc[t] = "waiting"}

(* notify_one wakes one of the threads that wait, any of them.             *)
NotifyOne(p) ==
    IF Waiting = {} THEN {p}
    ELSE {[p EXCEPT ![t] = "woken"] : t \in Waiting}

NotifyAll(p) == [t \in Threads |-> IF t \in Waiting THEN "woken" ELSE p[t]]

ServerInit ==
    /\ pc = [t \in Threads |-> IF t = "main" THEN "idle" ELSE "exited"]
    /\ running_cond = FALSE
    /\ transport_rc = "ok"
    /\ input = NewScheduler
    /\ output = NewScheduler
    /\ packet = 0
    /\ received = 0
    /\ enqueued = 0
    /\ sent = 0
    /\ processed = [p \in Priorities |-> 0]
    /\ errors = 0
    /\ starts = 0

(***************************************************************************)
(* start and stop, in the thread that calls them.                          *)
(***************************************************************************)
(* init of the transport may fail: then nothing changes.  What the queues  *)
(* held at the last stop is still there, and so is transport_rc_.          *)
Start ==
    /\ pc["main"] = "idle"
    /\ starts < MaxStarts
    /\ starts' = starts + 1
    /\ input' = SetPrioritySize(InitScheduler(input, QueueSize), 1, 1)
    /\ output' = InitScheduler(output, QueueSize)
    /\ running_cond' = TRUE
    /\ pc' = [t \in Threads |-> IF t = "main" THEN "started" ELSE "loop"]
    /\ UNCHANGED <<transport_rc, packet, received, enqueued, sent, processed, errors>>

StopRunning ==
    /\ pc["main"] = "started"
    /\ running_cond' = FALSE
    /\ Go("main", "deinit_input")
    /\ UNCHANGED <<transport_rc, queues, errors, starts>>

StopInput ==
    /\ pc["main"] = "deinit_input"
    /\ input' = DeinitScheduler(input)
    /\ Go("main", "deinit_output")
    /\ UNCHANGED <<running_cond, transport_rc, output, packet, received, enqueued,
                   sent, processed, errors, starts>>

StopOutput ==
    /\ pc["main"] = "deinit_output"
    /\ output' = DeinitScheduler(output)
    /\ Go("main", "notify")
    /\ UNCHANGED <<running_cond, transport_rc, input, packet, received, enqueued,
                   sent, processed, errors, starts>>

StopNotify ==
    /\ pc["main"] = "notify"
    /\ pc' = [NotifyAll(pc) EXCEPT !["main"] = "join"]
    /\ UNCHANGED <<running_cond, transport_rc, queues, errors, starts>>

(* The joins change nothing, so their order does not show: stop passes     *)
(* them when the last thread has ended.                                    *)
StopJoin ==
    /\ pc["main"] = "join"
    /\ \A t \in Workers : pc[t] = "exited"
    /\ Go("main", "idle")
    /\ UNCHANGED <<running_cond, transport_rc, queues, errors, starts>>

(***************************************************************************)
(* The head of every thread's loop: while (running_cond_).                 *)
(***************************************************************************)
Body(t) == CASE t = "receiver"   -> "receive"
             [] t = "sender"     -> "pop"
             [] t = "processing" -> "pop"
             [] t = "heartbeat"  -> "check"
             [] t = "handler"    -> "lock"

Loop(t) ==
    /\ pc[t] = "loop"
    /\ Go(t, IF running_cond THEN Body(t) ELSE "exited")
    /\ UNCHANGED <<running_cond, transport_rc, queues, errors, starts>>

(* wait returns, by a notification or without one, and takes error_mtx_    *)
(* again.  The handler evaluates its predicate again, the others unlock.   *)
Resume(t) ==
    /\ pc[t] = "woken"
    /\ MutexFree
    /\ Go(t, IF t = "handler" THEN "lock" ELSE "loop")
    /\ UNCHANGED <<running_cond, transport_rc, queues, errors, starts>>

SpuriousWakeup(t) ==
    /\ pc[t] = "waiting"
    /\ Go(t, "woken")
    /\ UNCHANGED <<running_cond, transport_rc, queues, errors, starts>>

(***************************************************************************)
(* receiver_loop.                                                          *)
(***************************************************************************)
(* count_submessages leaves its loop after one round, so it is 1 for every *)
(* message that has a submessage, and only the first one's kind decides.   *)
PriorityOf(kind) == IF kind = "data" THEN 0 ELSE 1

Receive(kind) ==
    /\ pc["receiver"] = "receive"
    /\ received < MaxIn
    /\ received' = received + 1
    /\ input' = Push(input, [n |-> received + 1, kind |-> kind], PriorityOf(kind))
    /\ Go("receiver", "loop")
    /\ UNCHANGED <<running_cond, transport_rc, output, packet, enqueued, sent,
                   processed, errors, starts>>

(* recv_message returns false: a timeout or another failure starts the     *)
(* loop again, a server error is reported while the server runs.           *)
ReceiveNothing ==
    /\ pc["receiver"] = "receive"
    /\ Go("receiver", "loop")
    /\ UNCHANGED <<running_cond, transport_rc, queues, errors, starts>>

ReceiveError ==
    /\ pc["receiver"] = "receive"
    /\ errors < MaxErrors
    /\ errors' = errors + 1
    /\ Go("receiver", IF running_cond THEN "report" ELSE "loop")
    /\ UNCHANGED <<running_cond, transport_rc, queues, starts>>

(* Under error_mtx_: report, notify_one, wait.                             *)
ReceiverReports ==
    /\ pc["receiver"] = "report"
    /\ MutexFree
    /\ transport_rc' = "server_error"
    /\ \E p \in NotifyOne(pc) : pc' = [p EXCEPT !["receiver"] = "waiting"]
    /\ UNCHANGED <<running_cond, queues, errors, starts>>

(***************************************************************************)
(* sender_loop.                                                            *)
(***************************************************************************)
SenderPops ==
    /\ pc["sender"] = "pop"
    /\ CanPop(output)
    /\ IF output.running
       THEN /\ packet' = Front(output)
            /\ output' = Pop(output)
            /\ Go("sender", "send")
       ELSE /\ Go("sender", "loop")
            /\ UNCHANGED <<packet, output>>
    /\ UNCHANGED <<running_cond, transport_rc, input, received, enqueued, sent,
                   processed, errors, starts>>

Send ==
    /\ pc["sender"] = "send"
    /\ sent' = packet
    /\ packet' = 0
    /\ Go("sender", "loop")
    /\ UNCHANGED <<running_cond, transport_rc, input, output, received, enqueued,
                   processed, errors, starts>>

(* A failure that is no server error loses the packet.                     *)
SendFails ==
    /\ pc["sender"] = "send"
    /\ packet' = 0
    /\ Go("sender", "loop")
    /\ UNCHANGED <<running_cond, transport_rc, input, output, received, enqueued, sent,
                   processed, errors, starts>>

SendError ==
    /\ pc["sender"] = "send"
    /\ errors < MaxErrors
    /\ errors' = errors + 1
    /\ packet' = IF running_cond THEN packet ELSE 0
    /\ Go("sender", IF running_cond THEN "report" ELSE "loop")
    /\ UNCHANGED <<running_cond, transport_rc, input, output, received, enqueued, sent,
                   processed, starts>>

SenderReports ==
    /\ pc["sender"] = "report"
    /\ MutexFree
    /\ transport_rc' = "server_error"
    /\ output' = PushFront(output, packet, 0)
    /\ packet' = 0
    /\ \E p \in NotifyOne(pc) : pc' = [p EXCEPT !["sender"] = "waiting"]
    /\ UNCHANGED <<running_cond, input, received, enqueued, sent, processed, errors, starts>>

(***************************************************************************)
(* processing_loop and heartbeat_loop.  What the Processor does with a     *)
(* message shows here as the packet it may push.                           *)
(***************************************************************************)
PushOutputPacket ==
    /\ enqueued < MaxOut
    /\ enqueued' = enqueued + 1
    /\ output' = Push(output, enqueued + 1, 0)

ProcessingPops ==
    /\ pc["processing"] = "pop"
    /\ CanPop(input)
    /\ IF input.running
       THEN /\ processed' = [processed EXCEPT ![PriorityOf(Front(input).kind)] = Front(input).n]
            /\ input' = Pop(input)
            /\ Go("processing", "process")
       ELSE /\ Go("processing", "loop")
            /\ UNCHANGED <<processed, input>>
    /\ UNCHANGED <<running_cond, transport_rc, output, packet, received, enqueued,
                   sent, errors, starts>>

Process ==
    /\ pc["processing"] = "process"
    /\ PushOutputPacket \/ UNCHANGED <<enqueued, output>>
    /\ Go("processing", "loop")
    /\ UNCHANGED <<running_cond, transport_rc, input, packet, received, sent,
                   processed, errors, starts>>

CheckHeartbeats ==
    /\ pc["heartbeat"] = "check"
    /\ PushOutputPacket \/ UNCHANGED <<enqueued, output>>
    /\ Go("heartbeat", "loop")
    /\ UNCHANGED <<running_cond, transport_rc, input, packet, received, sent,
                   processed, errors, starts>>

(* A client's DataReader pushes what it reads from a thread of its own,    *)
(* which a processed message started; it runs on while the server stops.   *)
ReaderPushes ==
    /\ \E p \in Priorities : processed[p] # 0
    /\ PushOutputPacket
    /\ UNCHANGED <<pc, running_cond, transport_rc, input, packet, received, sent,
                   processed, errors, starts>>

(***************************************************************************)
(* error_handler_loop.                                                     *)
(***************************************************************************)
HandlerPredicate == ~running_cond \/ transport_rc = "server_error"

(* With error_mtx_ taken, the predicate is looked at; a thread that is to  *)
(* wait holds the mutex until it does.  After the wait running_cond_ is    *)
(* read once more.                                                         *)
HandlerLocks ==
    /\ pc["handler"] = "lock"
    /\ Go("handler", IF HandlerPredicate
                     THEN IF running_cond THEN "handling" ELSE "loop"
                     ELSE "about_to_wait")
    /\ UNCHANGED <<running_cond, transport_rc, queues, errors, starts>>

HandlerWaits ==
    /\ pc["handler"] = "about_to_wait"
    /\ Go("handler", "waiting")
    /\ UNCHANGED <<running_cond, transport_rc, queues, errors, starts>>

(* A plausible bug: those that wait are not told.                          *)
HandlerEnds_silent ==
    /\ pc["handler"] = "handling"
    /\ transport_rc' = "ok"
    /\ Go("handler", "loop")
    /\ UNCHANGED <<running_cond, queues, errors, starts>>

(* handle_error is repeated until it succeeds or the server stops.  Then   *)
(* the error is cleared and everyone is notified.                          *)
HandlerEnds ==
    /\ pc["handler"] = "handling"
    /\ transport_rc' = "ok"
    /\ pc' = [NotifyAll(pc) EXCEPT !["handler"] = "loop"]
    /\ UNCHANGED <<running_cond, queues, errors, starts>>

Stop == StopRunning \/ StopInput \/ StopOutput \/ StopNotify \/ StopJoin
Receiver == (\E k \in MessageKinds : Receive(k)) \/ ReceiveNothing \/ ReceiveError \/ ReceiverReports
Sender == SenderPops \/ Send \/ SendFails \/ SendError \/ SenderReports
Processing == ProcessingPops \/ Process
Handler == HandlerLocks \/ HandlerWaits \/ HandlerEnds

ServerNext ==
    \/ Start
    \/ Stop
    \/ Receiver
    \/ Sender
    \/ Processing
    \/ CheckHeartbeats
    \/ ReaderPushes
    \/ Handler
    \/ \E t \in Workers : Loop(t) \/ Resume(t)
    \/ \E t \in {"receiver", "sender", "handler"} : SpuriousWakeup(t)

ServerSpec == ServerInit /\ [][ServerNext]_server_vars

(* Every thread is scheduled, a lock that is free is taken, receive and    *)
(* send return, and the transport is repaired in the end.  start and the   *)
(* beginning of stop are the user's; no wake-up comes without a reason.    *)
ServerFairness ==
    /\ WF_server_vars(StopInput) /\ WF_server_vars(StopOutput) /\ WF_server_vars(StopNotify) /\ WF_server_vars(StopJoin)
    /\ WF_server_vars(Receiver)
    /\ WF_server_vars(Sender)
    /\ WF_server_vars(Processing)
    /\ WF_server_vars(CheckHeartbeats)
    /\ WF_server_vars(Handler)
    /\ \A t \in Workers : WF_server_vars(Loop(t)) /\ WF_server_vars(Resume(t))

ServerFairSpec == ServerSpec /\ ServerFairness

--------------------------------------------------------------------------------
(***************************************************************************)
(* Properties.                                                             *)
(***************************************************************************)
Packets == [n : 1 .. MaxIn, kind : MessageKinds]

ServerTypeOK ==
    /\ DOMAIN pc = Threads
    /\ pc["main"] \in {"idle", "started", "deinit_input", "deinit_output", "notify", "join"}
    /\ \A t \in Workers :
         pc[t] \in {"loop", "exited", "receive", "report", "pop", "send", "process",
                    "check", "lock", "about_to_wait", "waiting", "woken", "handling"}
    /\ running_cond \in BOOLEAN
    /\ transport_rc \in {"ok", "server_error"}
    /\ \A p \in Priorities : input.deque[p] \in Seq(Packets) /\ output.deque[p] \in Seq(1 .. MaxOut)
    /\ packet \in 0 .. MaxOut

(* Packets leave in the order in which they were pushed, those that were   *)
(* put back after a server error included (sender_loop, push_front).       *)
SentInOrder == [][sent' # sent => sent' > sent]_server_vars

(* No queue grows past its limit but for the one packet a failed send puts *)
(* back, in whatever order pushes and errors come (PacketScheduler::push   *)
(* and push_front).                                                        *)
QueueBound ==
    /\ Len(output.deque[0]) <= QueueSize + 1
    /\ Len(input.deque[0]) <= QueueSize
    /\ Len(input.deque[1]) <= 1

(* Of two messages of the same priority the one that arrived first is      *)
(* processed first, and one that lost its place is not processed at all    *)
(* (receiver_loop, processing_loop).                                       *)
ProcessedInOrder ==
    [][\A p \in Priorities : processed'[p] # processed[p] => processed'[p] > processed[p]]_server_vars

(* A server error is repaired, whoever the notify_one of its report wakes  *)
(* (receiver_loop, sender_loop, error_handler_loop).                       *)
ErrorsAreHandled ==
    (transport_rc = "server_error" /\ running_cond) ~> (transport_rc = "ok" \/ ~running_cond)

(* The receiver and the sender go on after the error they reported, though *)
(* their wait has no predicate (receiver_loop, sender_loop).               *)
ReportersResume ==
    \A t \in {"receiver", "sender"} :
        (pc[t] = "waiting" /\ running_cond) ~> (pc[t] # "waiting" \/ ~running_cond)

(* A thread that began to wait for error_cv_ after stop's notify_all.      *)
MissedTheLastNotify ==
    /\ pc["main"] = "join"
    /\ Waiting # {}

(* stop returns, unless a thread began to wait after its notify_all: there *)
(* is no other way in which it hangs (Server::stop).                       *)
StopHangsOnlyInAWait ==
    (pc["main"] = "deinit_input") ~> (pc["main"] = "idle" \/ MissedTheLastNotify)

(* The two queues and what threads keep between their steps.               *)
ServerInv == ServerTypeOK /\ QueueBound

(* What the server receives it processes in order, and what it pushes it   *)
(* sends in order, whatever is dropped, fails or is put back.              *)
ServedInOrder == SentInOrder /\ ProcessedInOrder

(* Server errors pass: they are repaired, and the threads that met them go *)
(* on.                                                                     *)
ErrorsPass == ErrorsAreHandled /\ ReportersResume
================================================================================
