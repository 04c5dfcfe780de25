---------------------------- MODULE MultiTermios ----------------------------
(***************************************************************************)
(* MultiTermiosAgent: serial ports that come and go.  A thread of its own, *)
(* init_multiport, opens the devices that are there; the receiver and the  *)
(* sender use the open ports and note the ones that fail; handle_error     *)
(* closes those and leaves them to the thread; start() and stop() begin    *)
(* and end it all.  start(), handle_error and stop() never overlap: one    *)
(* control state, ctl, stands for the three.                               *)
(*                                                                         *)
(* A port stands for its file descriptor.  framing_mtx is the priority     *)
(* lock of SharedMutex, with one writer at a time: what is done under it   *)
(* exclusively is one step, who waits for it sleeps until he is notified.  *)
(* The lock and the condition variable of the server's error handling,     *)
(* which AgentServer checks, are the states "report" and "asleep" here.    *)
(***************************************************************************)
EXTENDS Naturals, FiniteSets

CONSTANTS Devices,       \* the configured devices
          IOThreads,     \* a subset of {"receiver", "sender"}
          StartedUp,     \* TRUE: begin after a start() that opened every port
          CloseMayFail,  \* TRUE when close() may report an error
          SpuriousWakes, \* TRUE when wait() may return without a notification
          MaxBreaks      \* how often a port may fail

ASSUME TermiosAssumption ==
    /\ IsFiniteSet(Devices) /\ Devices # {}
    /\ IOThreads \subseteq {"receiver", "sender"}
    /\ {StartedUp, CloseMayFail, SpuriousWakes} \subseteq BOOLEAN /\ MaxBreaks \in Nat

VARIABLES devs,         \* devs_: devices to be opened
          initialized,  \* initialized_devs_
          framing,      \* framing_io: the ports in use
          error_fd,     \* ports that were noted as failed
          givenUp,      \* devices that could not be opened
          broken,       \* ports whose device fails
          breaks,       \* number of failures so far, at most MaxBreaks
          exitSignal,   \* exitSignal
          init_multiport,       \* init_multiport: its place, devices to try, the one at hand, wake_main
          devsMtx,      \* who has devs_mtx: "none", "thread", "ctl"
          framing_mtx,  \* the writer on its count, and who sleeps on its cv_
          sleepers,     \* who sleeps on init_serial_cv: "thread", "caller"
          ctl,          \* control: its place, for whom, ports to close, result
          reported,     \* transport_rc_ is server_error
          io            \* receiver and sender: place, ports left, port, rc, rv

ports_vars == <<devs, initialized, framing, error_fd, givenUp, broken, breaks, exitSignal,
          init_multiport, devsMtx, framing_mtx, sleepers, ctl, reported, io>>

ports == <<devs, initialized, framing, givenUp>>
world == <<broken, breaks>>

Idle == [at |-> "idle", left |-> {}, port |-> "none", rc |-> FALSE, rv |-> FALSE]

PortsInit ==
    /\ devs = (IF StartedUp THEN {} ELSE Devices)
    /\ initialized = Devices \ devs /\ framing = Devices \ devs
    /\ error_fd = {} /\ givenUp = {} /\ broken = {} /\ breaks = 0
    /\ exitSignal = FALSE /\ devsMtx = "none" /\ reported = FALSE
    /\ framing_mtx = [wanted_by |-> "none", asleep |-> {}]
    /\ init_multiport = [at |-> IF StartedUp THEN "waiting" ELSE "off", left |-> {},
                 port |-> "none", woken |-> FALSE]
    /\ sleepers = (IF StartedUp THEN {"thread"} ELSE {})
    /\ ctl = [at |-> IF StartedUp THEN "running" ELSE "spawn", for |-> "start",
              left |-> {}, rv |-> TRUE]
    /\ io = [t \in IOThreads |-> Idle]

\* The type of the state, and who holds devs_mtx.
PortsTypeOK ==
    /\ devs \cup initialized \cup framing \cup error_fd \cup givenUp \cup broken
          \subseteq Devices
    /\ init_multiport.at \in {"off", "begin", "lock", "scan", "open", "insert", "add",
                              "toWait", "waiting", "check", "done"}
    /\ devsMtx \in {"none", "thread", "ctl"} /\ sleepers \subseteq {"thread", "caller"}
    /\ ctl.at \in {"spawn", "toWait", "waiting", "running", "failed", "handle", "lock",
                   "close", "handled", "fini", "join", "closeAll", "stopped"}
    /\ devsMtx = "thread" <=> init_multiport.at \in {"scan", "open", "insert", "add", "toWait"}
    /\ devsMtx = "ctl" <=> ctl.at = "close"
    /\ framing_mtx.wanted_by \in {"none", "thread", "ctl"}
    /\ framing_mtx.asleep \subseteq IOThreads \cup {"thread", "ctl"}
    /\ ctl.for \in {"start", "error", "stop"}
    /\ \A t \in IOThreads :
          io[t].at \in {"idle", "io", "push", "report", "asleep", "off"}

-----------------------------------------------------------------------------
\* Threads that hold framing_mtx shared.
SharingPorts == {t \in IOThreads : io[t].at \in {"io", "push"}}

\* error_mtx is held by handle_error from its beginning to its end.
ErrorMtxHeld == ctl.for = "error" /\ ctl.at \notin {"handle", "handled"}

\* notify_one; those that sleep are taken from `from'.
NotifyWaiter(from, plus) ==
    IF from = {} THEN sleepers' = plus
    ELSE \E s \in from : sleepers' = (from \ {s}) \cup plus

At(place) == ctl' = [ctl EXCEPT !.at = place]

\* ExclusiveLockPriority has framing_mtx, and gives it back: notify_all.
LockedExclusively(who) ==
    framing_mtx.wanted_by = who /\ who \notin framing_mtx.asleep /\ SharingPorts = {}

Freed == [wanted_by |-> "none", asleep |-> {}]

\* A writer that finds readers sleeps until it is notified.
WriterSleeps(who) ==
    /\ framing_mtx.wanted_by = who /\ who \notin framing_mtx.asleep /\ SharingPorts # {}
    /\ framing_mtx' = [framing_mtx EXCEPT !.asleep = @ \cup {who}]
    /\ UNCHANGED <<ports, world, error_fd, exitSignal, init_multiport, devsMtx, sleepers, ctl,
                   reported, io>>

-----------------------------------------------------------------------------
(* init_multiport                                                          *)

ThreadBegin ==
    /\ init_multiport.at = "begin"
    /\ exitSignal' = FALSE
    /\ init_multiport' = [init_multiport EXCEPT !.at = "lock", !.woken = FALSE]
    /\ UNCHANGED <<framing_mtx, ports, world, error_fd, devsMtx, sleepers, ctl, reported, io>>

LockDevs ==
    /\ init_multiport.at = "lock" /\ devsMtx = "none"
    /\ devsMtx' = "thread"
    /\ init_multiport' = [init_multiport EXCEPT !.at = "scan", !.left = devs]
    /\ UNCHANGED <<framing_mtx, ports, world, error_fd, exitSignal, sleepers, ctl, reported, io>>

\* access: the device is there (or has been refused too often), or stays in the
\* list.
Access(d) ==
    /\ init_multiport.at = "scan" /\ d \in init_multiport.left
    /\ \/ init_multiport' = [init_multiport EXCEPT !.at = "open", !.left = @ \ {d}, !.port = d]
       \/ init_multiport' = [init_multiport EXCEPT !.left = @ \ {d}]
    /\ UNCHANGED <<framing_mtx, ports, world, error_fd, exitSignal, devsMtx, sleepers, ctl, reported, io>>

\* The device is opened and set up; insert_serial begins, and asks for the lock.
Open ==
    /\ init_multiport.at = "open"
    /\ broken' = broken \ {init_multiport.port}
    /\ framing_mtx' = [framing_mtx EXCEPT !.wanted_by = "thread"]
    /\ init_multiport' = [init_multiport EXCEPT !.at = "insert"]
    /\ UNCHANGED <<ports, breaks, error_fd, exitSignal, devsMtx, sleepers, ctl, reported, io>>

insert_serial ==
    /\ init_multiport.at = "insert" /\ LockedExclusively("thread")
    /\ framing' = framing \cup {init_multiport.port}
    /\ framing_mtx' = Freed
    /\ init_multiport' = [init_multiport EXCEPT !.at = "add"]
    /\ UNCHANGED <<devs, initialized, givenUp, world, error_fd, exitSignal, devsMtx, sleepers,
                   ctl, reported, io>>

\* Into initialized_devs_, which handle_error compares without devs_mtx, and out
\* of devs_.
AddDevice ==
    /\ init_multiport.at = "add"
    /\ devs' = devs \ {init_multiport.port}
    /\ initialized' = initialized \cup {init_multiport.port}
    /\ init_multiport' = [init_multiport EXCEPT !.at = "scan", !.port = "none"]
    /\ UNCHANGED <<framing_mtx, framing, givenUp, world, error_fd, exitSignal, devsMtx, sleepers,
                   ctl, reported, io>>

\* open, tcgetattr or tcsetattr fails: the device is taken from the list.
OpenFails ==
    /\ init_multiport.at = "open"
    /\ devs' = devs \ {init_multiport.port} /\ givenUp' = givenUp \cup {init_multiport.port}
    /\ init_multiport' = [init_multiport EXCEPT !.at = "scan", !.port = "none"]
    /\ UNCHANGED <<framing_mtx, initialized, framing, world, error_fd, exitSignal, devsMtx, sleepers, ctl,
                   reported, io>>

\* Some devices are missing: the caller of init is woken once, if there is a
\* port.
SomeMissing ==
    /\ init_multiport.at = "scan" /\ init_multiport.left = {} /\ devs # {}
    /\ IF ~init_multiport.woken /\ initialized # {}
       THEN NotifyWaiter(sleepers, {}) /\ init_multiport' = [init_multiport EXCEPT !.at = "check", !.woken = TRUE]
       ELSE UNCHANGED sleepers /\ init_multiport' = [init_multiport EXCEPT !.at = "check"]
    /\ devsMtx' = "none"
    /\ UNCHANGED <<framing_mtx, ports, world, error_fd, exitSignal, ctl, reported, io>>

AllHandled ==
    /\ init_multiport.at = "scan" /\ init_multiport.left = {} /\ devs = {}
    /\ IF exitSignal THEN init_multiport' = [init_multiport EXCEPT !.at = "check"] /\ devsMtx' = "none"
       ELSE init_multiport' = [init_multiport EXCEPT !.at = "toWait"] /\ UNCHANGED devsMtx
    /\ UNCHANGED <<framing_mtx, ports, world, error_fd, exitSignal, sleepers, ctl, reported, io>>

\* Notify the main thread, and wait for more ports.
WaitForPorts ==
    /\ init_multiport.at = "toWait"
    /\ NotifyWaiter(sleepers, {"thread"})
    /\ devsMtx' = "none"
    /\ init_multiport' = [init_multiport EXCEPT !.at = "waiting"]
    /\ UNCHANGED <<framing_mtx, ports, world, error_fd, exitSignal, ctl, reported, io>>

ThreadWoken ==
    /\ init_multiport.at = "waiting" /\ "thread" \notin sleepers /\ devsMtx = "none"
    /\ init_multiport' = [init_multiport EXCEPT !.at = "check"]
    /\ UNCHANGED <<framing_mtx, ports, world, error_fd, exitSignal, devsMtx, sleepers, ctl, reported, io>>

CheckExit ==
    /\ init_multiport.at = "check"
    /\ init_multiport' = [init_multiport EXCEPT !.at = IF exitSignal THEN "done" ELSE "lock"]
    /\ UNCHANGED <<framing_mtx, ports, world, error_fd, exitSignal, devsMtx, sleepers, ctl, reported, io>>

InitMultiport ==
    \/ ThreadBegin \/ LockDevs \/ Open \/ OpenFails \/ insert_serial \/ AddDevice
    \/ SomeMissing \/ AllHandled \/ WaitForPorts \/ ThreadWoken \/ CheckExit
    \/ WriterSleeps("thread")
    \/ \E d \in Devices : Access(d)

-----------------------------------------------------------------------------
(* init, for start() and for handle_error                                  *)

Spawn ==
    /\ ctl.at = "spawn"
    /\ init_multiport' = [init_multiport EXCEPT !.at = "begin"] /\ At("toWait")
    /\ UNCHANGED <<framing_mtx, ports, world, error_fd, exitSignal, devsMtx, sleepers, reported, io>>

WaitForPort ==
    /\ ctl.at = "toWait"
    /\ sleepers' = sleepers \cup {"caller"} /\ At("waiting")
    /\ UNCHANGED <<framing_mtx, ports, world, error_fd, exitSignal, init_multiport, devsMtx, reported, io>>

\* handle_error clears error_fd, and is called again when init found no port.
InitReturns ==
    /\ ctl.at = "waiting" /\ "caller" \notin sleepers
    /\ IF ctl.for = "start"
       THEN At(IF framing # {} THEN "running" ELSE "failed") /\ UNCHANGED error_fd
       ELSE At(IF framing # {} THEN "handled" ELSE "handle") /\ error_fd' = {}
    /\ UNCHANGED <<framing_mtx, ports, world, exitSignal, init_multiport, devsMtx, sleepers, reported, io>>

-----------------------------------------------------------------------------
(* handle_error                                                            *)

ErrorHandler ==
    /\ ctl.at = "running" /\ reported
    /\ ctl' = [ctl EXCEPT !.at = "handle", !.for = "error"]
    /\ UNCHANGED <<framing_mtx, ports, world, error_fd, exitSignal, init_multiport, devsMtx, sleepers, reported, io>>

\* Every port has failed, some have, or none was noted.
HandleError ==
    /\ ctl.at = "handle"
    /\ At(IF Cardinality(error_fd) = Cardinality(initialized) THEN "fini"
          ELSE IF error_fd # {} THEN "lock" ELSE "handled")
    /\ UNCHANGED <<framing_mtx, ports, world, error_fd, exitSignal, init_multiport, devsMtx, sleepers, reported, io>>

LockToClose ==
    /\ ctl.at = "lock" /\ devsMtx = "none"
    /\ devsMtx' = "ctl"
    /\ ctl' = [ctl EXCEPT !.at = "close", !.left = error_fd, !.rv = TRUE]
    /\ UNCHANGED <<framing_mtx, ports, world, error_fd, exitSignal, init_multiport, sleepers, reported, io>>

\* remove_serial asks for the lock.
CloseBegins ==
    /\ \/ ctl.at = "close" /\ ctl.left \cap initialized # {}
       \/ ctl.at = "closeAll" /\ ctl.left # {}
    /\ framing_mtx.wanted_by = "none"
    /\ framing_mtx' = [framing_mtx EXCEPT !.wanted_by = "ctl"]
    /\ UNCHANGED <<ports, world, error_fd, exitSignal, init_multiport, devsMtx, sleepers, ctl,
                   reported, io>>

\* Mutant: the port is removed while it may be in use.
restart_serial_unlocked(d, ok) ==
    /\ framing_mtx.wanted_by = "ctl"
    /\ ctl' = [ctl EXCEPT !.left = @ \ {d}, !.rv = @ /\ ok]
    /\ framing' = framing \ {d} /\ framing_mtx' = Freed
    /\ IF ok THEN devs' = devs \cup {d} /\ initialized' = initialized \ {d}
       ELSE UNCHANGED <<devs, initialized>>

\* restart_serial and the erase after it: the port is removed and closed, and
\* its device goes back to the list when close succeeds.
restart_serial(d, ok) ==
    /\ LockedExclusively("ctl") /\ (~ok => CloseMayFail)
    /\ ctl' = [ctl EXCEPT !.left = @ \ {d}, !.rv = @ /\ ok]
    /\ framing' = framing \ {d} /\ framing_mtx' = Freed
    /\ IF ok THEN devs' = devs \cup {d} /\ initialized' = initialized \ {d}
       ELSE UNCHANGED <<devs, initialized>>

\* The loop does not get past a port that is not in initialized_devs_.
CloseFailed(d, ok) ==
    /\ ctl.at = "close" /\ d \in ctl.left \cap initialized
    /\ restart_serial(d, ok)
    /\ error_fd' = IF ok THEN error_fd \ {d} ELSE error_fd
    /\ UNCHANGED <<world, givenUp, exitSignal, init_multiport, devsMtx, sleepers, reported, io>>

\* Mutant: the thread is not woken.
FailedClosed_silent ==
    /\ ctl.at = "close" /\ ctl.left = {}
    /\ devsMtx' = "none"
    /\ ctl' = [ctl EXCEPT !.at = IF ctl.rv THEN "handled" ELSE "handle", !.rv = TRUE]
    /\ UNCHANGED <<framing_mtx, ports, world, error_fd, exitSignal, init_multiport, sleepers, reported, io>>

\* The thread is woken; handle_error is called again if a close failed.
FailedClosed ==
    /\ ctl.at = "close" /\ ctl.left = {}
    /\ NotifyWaiter(sleepers, {}) /\ devsMtx' = "none"
    /\ ctl' = [ctl EXCEPT !.at = IF ctl.rv THEN "handled" ELSE "handle", !.rv = TRUE]
    /\ UNCHANGED <<framing_mtx, ports, world, error_fd, exitSignal, init_multiport, reported, io>>

\* The error handler wakes receiver and sender.
Handled ==
    /\ ctl.at = "handled"
    /\ ctl' = [ctl EXCEPT !.at = "running", !.for = "start"]
    /\ reported' = FALSE
    /\ io' = [t \in IOThreads |-> IF io[t].at = "asleep" THEN Idle ELSE io[t]]
    /\ UNCHANGED <<framing_mtx, ports, world, error_fd, exitSignal, init_multiport, devsMtx, sleepers>>

-----------------------------------------------------------------------------
(* fini, for handle_error and for stop()                                   *)

\* stop() has ended the receiver, the sender and the error handler, which tries
\* no more.
StopPorts ==
    /\ ctl.at \in {"running", "failed", "handle"}
    /\ \A t \in IOThreads :
          io[t].at \in {"idle", "asleep", "report"} /\ t \notin framing_mtx.asleep
    /\ io' = [t \in IOThreads |-> [Idle EXCEPT !.at = "off"]]
    /\ ctl' = [ctl EXCEPT !.at = "fini", !.for = "stop"]
    /\ UNCHANGED <<framing_mtx, ports, world, error_fd, exitSignal, init_multiport, devsMtx, sleepers, reported>>

SignalExit ==
    /\ ctl.at = "fini"
    /\ exitSignal' = TRUE /\ NotifyWaiter(sleepers, {}) /\ At("join")
    /\ UNCHANGED <<framing_mtx, ports, world, error_fd, init_multiport, devsMtx, reported, io>>

JoinThread ==
    /\ ctl.at = "join" /\ init_multiport.at = "done"
    /\ init_multiport' = [init_multiport EXCEPT !.at = "off"]
    /\ ctl' = [ctl EXCEPT !.at = "closeAll", !.left = initialized, !.rv = TRUE]
    /\ UNCHANGED <<framing_mtx, ports, world, error_fd, exitSignal, devsMtx, sleepers, reported, io>>

CloseAll(d, ok) ==
    /\ ctl.at = "closeAll" /\ d \in ctl.left
    /\ restart_serial(d, ok)
    /\ UNCHANGED <<world, error_fd, givenUp, exitSignal, init_multiport, devsMtx, sleepers, reported, io>>

\* In handle_error init follows if everything could be closed, and error_fd is
\* cleared if not.
FiniReturns ==
    /\ ctl.at = "closeAll" /\ ctl.left = {}
    /\ IF ctl.for = "stop" THEN At("stopped") /\ UNCHANGED error_fd
       ELSE IF ctl.rv THEN At("spawn") /\ UNCHANGED error_fd
       ELSE ctl' = [ctl EXCEPT !.at = "handle", !.rv = TRUE] /\ error_fd' = {}
    /\ UNCHANGED <<framing_mtx, ports, world, exitSignal, init_multiport, devsMtx, sleepers, reported, io>>

PortsControl ==
    \/ Spawn \/ WaitForPort \/ InitReturns \/ ErrorHandler \/ HandleError
    \/ LockToClose \/ CloseBegins \/ WriterSleeps("ctl") \/ FailedClosed \/ Handled
    \/ SignalExit \/ JoinThread \/ FiniReturns
    \/ \E d \in Devices, ok \in BOOLEAN : CloseFailed(d, ok) \/ CloseAll(d, ok)

-----------------------------------------------------------------------------
(* The receiver and the sender                                             *)

Serving == ctl.at \notin {"failed", "stopped"} /\ ~(ctl.for = "start" /\ ctl.at # "running")

\* SharedLockPriority: readers wait for writers, and sleep.
ReaderSleeps(t) ==
    /\ Serving /\ io[t].at = "idle"
    /\ framing_mtx.wanted_by # "none" /\ t \notin framing_mtx.asleep
    /\ framing_mtx' = [framing_mtx EXCEPT !.asleep = @ \cup {t}]
    /\ UNCHANGED <<ports, world, error_fd, exitSignal, init_multiport, devsMtx, sleepers, ctl,
                   reported, io>>

\* The lock is taken; the receiver reads the ports that select reports, the
\* sender writes to the one of its packet, if it is there.  When select fails
\* (with no port in use it is called with what rbegin() of nothing gives)
\* there is an error of no port.
BeginIO(t) ==
    /\ Serving /\ io[t].at = "idle"
    /\ framing_mtx.wanted_by = "none" /\ t \notin framing_mtx.asleep
    /\ \E s \in SUBSET framing, failed \in BOOLEAN :
          /\ t = "sender" => Cardinality(s) <= 1
          /\ failed => t = "receiver" /\ s = {}
          /\ io' = [io EXCEPT ![t] = [Idle EXCEPT !.at = "io", !.left = s, !.rc = failed]]
    /\ UNCHANGED <<framing_mtx, ports, world, error_fd, exitSignal, init_multiport, devsMtx, sleepers, ctl, reported>>

\* read_data or write_data.  transport_rc is for the whole of recv_message: once
\* it is server_error, every port read after that is noted as failed.
UsePort(t, d) ==
    /\ io[t].at = "io" /\ d \in io[t].left
    /\ LET bad == io[t].rc \/ d \in broken
       IN io' = [io EXCEPT ![t] =
                   [io[t] EXCEPT !.left = @ \ {d}, !.rc = bad, !.rv = @ \/ d \notin broken,
                                 !.at = IF bad THEN "push" ELSE @,
                                 !.port = IF bad THEN d ELSE "none"]]
    /\ UNCHANGED <<framing_mtx, ports, world, error_fd, exitSignal, init_multiport, devsMtx, sleepers, ctl, reported>>

NoteFailed(t) ==
    /\ io[t].at = "push" /\ ~ErrorMtxHeld
    /\ error_fd' = error_fd \cup {io[t].port}
    /\ io' = [io EXCEPT ![t] = [@ EXCEPT !.at = "io", !.port = "none"]]
    /\ UNCHANGED <<framing_mtx, ports, world, exitSignal, init_multiport, devsMtx, sleepers, ctl, reported>>

\* The lock is given back, and the last one wakes one thread.  A message that
\* was received hides the error.
EndIO(t) ==
    /\ io[t].at = "io" /\ io[t].left = {}
    /\ \E message \in BOOLEAN :
          /\ message => io[t].rv
          /\ io' = [io EXCEPT ![t] = IF io[t].rc /\ ~message THEN [Idle EXCEPT !.at = "report"]
                                     ELSE Idle]
    /\ IF SharingPorts = {t} /\ framing_mtx.asleep # {}
       THEN \E s \in framing_mtx.asleep :
               framing_mtx' = [framing_mtx EXCEPT !.asleep = @ \ {s}]
       ELSE UNCHANGED framing_mtx
    /\ UNCHANGED <<ports, world, error_fd, exitSignal, init_multiport, devsMtx, sleepers, ctl, reported>>

\* The error handler has the server's error_mtx_ while it is at work.
Report(t) ==
    /\ io[t].at = "report" /\ ctl.for # "error"
    /\ reported' = TRUE
    /\ io' = [io EXCEPT ![t].at = "asleep"]
    /\ UNCHANGED <<framing_mtx, ports, world, error_fd, exitSignal, init_multiport, devsMtx, sleepers, ctl>>

IO(t) == ReaderSleeps(t) \/ BeginIO(t) \/ NoteFailed(t) \/ EndIO(t) \/ Report(t) \/ \E d \in Devices : UsePort(t, d)

\* A device is unplugged, or its line fails.
Break(d) ==
    /\ d \in framing \ broken /\ breaks < MaxBreaks
    /\ broken' = broken \cup {d} /\ breaks' = breaks + 1
    /\ UNCHANGED <<framing_mtx, ports, error_fd, exitSignal, init_multiport, devsMtx, sleepers, ctl, reported, io>>

WakeSpuriously ==
    /\ SpuriousWakes
    /\ \/ /\ \E s \in sleepers : sleepers' = sleepers \ {s}
          /\ UNCHANGED framing_mtx
       \/ /\ \E s \in framing_mtx.asleep :
                framing_mtx' = [framing_mtx EXCEPT !.asleep = @ \ {s}]
          /\ UNCHANGED sleepers
    /\ UNCHANGED <<ports, world, error_fd, exitSignal, init_multiport, devsMtx, ctl, reported, io>>

PortsNext ==
    \/ InitMultiport \/ PortsControl \/ StopPorts \/ WakeSpuriously
    \/ \E t \in IOThreads : IO(t)
    \/ \E d \in Devices : Break(d)

PortsSpec == PortsInit /\ [][PortsNext]_ports_vars

(* Threads that can go on do, a mutex that is free again and again is got, *)
(* and a device that stays plugged in is opened or given up.  Nothing is   *)
(* assumed of framing_mtx: whom notify_one wakes is anyone's guess.        *)
PortsFairSpec ==
    /\ PortsSpec
    /\ WF_ports_vars(InitMultiport)
    /\ WF_ports_vars(PortsControl) /\ SF_ports_vars(LockToClose)
    /\ \A t \in IOThreads : WF_ports_vars(IO(t))
    /\ \A d \in Devices : SF_ports_vars(Access(d) /\ init_multiport'.at = "open")

-----------------------------------------------------------------------------
(* A device is never forgotten and never held twice: it waits to be        *)
(* opened, is open, or could not be opened.  Every port in use is one that *)
(* can be closed again.                                                    *)
NoPortIsLost ==
    /\ devs \cup initialized \cup givenUp = Devices
    /\ Cardinality(devs) + Cardinality(initialized) + Cardinality(givenUp)
          = Cardinality(Devices)
    /\ \A d \in framing \ initialized : init_multiport.at = "add" /\ d = init_multiport.port

(* A port is not closed under the thread that reads or writes it, nor are  *)
(* the entries that its loop has still to visit.                           *)
PortInUseStaysOpen ==
    \A t \in SharingPorts : io[t].left \cup ({io[t].port} \ {"none"}) \subseteq framing

(* The error handler has error_mtx and waits, itself or through the thread *)
(* that it waits for, for framing_mtx, which a thread holds shared that    *)
(* waits for error_mtx to note a failed port.                              *)
LocksCross ==
    /\ ErrorMtxHeld /\ \E t \in IOThreads : io[t].at = "push"
    /\ \/ framing_mtx.wanted_by = "ctl"
       \/ init_multiport.at = "insert" /\ (ctl.at \in {"lock", "join"} \/ "caller" \in sleepers)

(* A writer of framing_mtx sleeps, and nobody is there to wake it: the     *)
(* last reader has woken another reader, which sleeps again.               *)
WakeUpLost == framing_mtx.wanted_by \in framing_mtx.asleep /\ SharingPorts = {}

(* The thread waits for more ports, and who waits for the thread was, or   *)
(* has, notified before the wait began.                                    *)
NotificationLost ==
    "thread" \in sleepers /\ (ctl.at = "join" \/ "caller" \in sleepers)

(* A port whose error is handled is closed and, with a device that can be  *)
(* opened, in use again, unless the agent is stopped, a port could not be  *)
(* closed (which the code leaves to do), or the threads hang in one of the *)
(* three ways above, and in no other.                                      *)
PortReopens(d) ==
    ctl.at = "handle" /\ d \in error_fd ~>
        \/ d \in framing \ error_fd \/ d \in givenUp
        \/ ctl.for = "stop" \/ initialized \ framing # {}
        \/ LocksCross \/ WakeUpLost \/ NotificationLost

(* Nothing tells the devices apart, so that one stands for all.            *)
FailedPortsReopen == PortReopens(CHOOSE d \in Devices : TRUE)

(* Devices and ports are accounted for, and a port in use stays open.      *)
PortsInv == PortsTypeOK /\ NoPortIsLost /\ PortInUseStaysOpen
=============================================================================
