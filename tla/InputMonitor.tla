---------------------------- MODULE InputMonitor ----------------------------
(***************************************************************************)
(* The input diagnostics of px4_position_cmd: every subscription callback  *)
(* calls note_input, and a 100 ms timer calls check_inputs, which share a  *)
(* missing flag per topic.  The operator reads link outages off the pairs  *)
(* of TIMEOUT and RECOVERED log lines, so these log lines are modelled.    *)
(***************************************************************************)
EXTENDS Integers

CONSTANTS
    Topics,
    Timeout,          \* params::message_timeout_sec, in clock units
    GapLimit          \* the gap a topic's callback warns about

ASSUME MonitorAssumption ==
    /\ Timeout \in Nat \ {0}
    /\ GapLimit \in [Topics -> Nat \ {0}]
    /\ \A t \in Topics : GapLimit[t] <= Timeout

(* Definitions named for a defect are mutated forms of the definition that
   follows them; no specification uses them. *)

VARIABLES
    received,         \* has_*_
    age,              \* time since last_*_time_, up to Timeout
    missing,          \* *_missing_
    open_reports,     \* TIMEOUT lines minus RECOVERED lines, per topic
    warned            \* the last callback logged a gap warning for its topic

monitor_vars == <<received, age, missing, open_reports, warned>>

AgeGrown(a) == IF a < Timeout THEN a + 1 ELSE Timeout

ForgetsRecovery(t) ==
    /\ warned' = (received[t] /\ age[t] >= GapLimit[t])
    /\ missing' = [missing EXCEPT ![t] = FALSE]
    /\ UNCHANGED open_reports
note_input(t) ==
    /\ warned' = (received[t] /\ age[t] >= GapLimit[t])
    /\ missing' = [missing EXCEPT ![t] = FALSE]
    /\ open_reports' = [open_reports EXCEPT ![t] = IF missing[t] THEN @ - 1 ELSE @]

\* A subscription callback: note_input, then the message is stored.
callback(t) ==
    /\ note_input(t)
    /\ received' = [received EXCEPT ![t] = TRUE]
    /\ age' = [age EXCEPT ![t] = 0]

ReportsOnlyReceived(t) == age[t] >= Timeout /\ ~missing[t] /\ received[t]
check_input(t) == age[t] >= Timeout /\ ~missing[t]

check_inputs ==
    /\ missing' = [t \in Topics |-> missing[t] \/ check_input(t)]
    /\ open_reports' = [t \in Topics |-> open_reports[t] + IF check_input(t) THEN 1 ELSE 0]
    /\ UNCHANGED <<received, age, warned>>

MonitorAdvance ==
    /\ age' = [t \in Topics |-> AgeGrown(age[t])]
    /\ UNCHANGED <<received, missing, open_reports, warned>>

\* last_*_time_ starts at the node's start.
MonitorInit ==
    /\ received = [t \in Topics |-> FALSE]
    /\ age = [t \in Topics |-> 0]
    /\ missing = [t \in Topics |-> FALSE]
    /\ open_reports = [t \in Topics |-> 0]
    /\ warned = FALSE

MonitorNext == (\E t \in Topics : callback(t)) \/ check_inputs \/ MonitorAdvance

\* The diagnostic timer keeps firing and time passes.
MonitorSpec == MonitorInit /\ [][MonitorNext]_monitor_vars /\ WF_monitor_vars(check_inputs) /\ WF_monitor_vars(MonitorAdvance)

-----------------------------------------------------------------------------

\* Type correctness; TIMEOUT and RECOVERED lines alternate, starting with TIMEOUT.
MonitorTypeOK ==
    /\ received \in [Topics -> BOOLEAN]
    /\ age \in [Topics -> 0..Timeout]
    /\ missing \in [Topics -> BOOLEAN]
    /\ open_reports \in [Topics -> 0..1]
    /\ warned \in BOOLEAN

\* The log tells the truth: a topic has an unanswered TIMEOUT line exactly when
\* its flag is set, and then it really has been silent for the timeout.
ReportsAreTrue ==
    \A t \in Topics :
        /\ missing[t] <=> open_reports[t] = 1
        /\ missing[t] => age[t] >= Timeout

\* A callback that ends a reported outage of a topic that had been received
\* before also logs the gap (no topic's gap limit exceeds the timeout).
RecoveryWarnsOfGap ==
    [][\A t \in Topics : received[t] /\ missing[t] /\ ~missing'[t] => warned']_monitor_vars

\* A topic that stays silent, or never speaks at all, is reported.
SilenceReported ==
    \A t \in Topics : <>[](age[t] = Timeout) => <>[]missing[t]
=============================================================================
