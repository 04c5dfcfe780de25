--------------------------- MODULE ServoDynamixel ---------------------------
(***************************************************************************)
(* The node px4_servo_to_dynamixel: it brings up a chain of servos over a  *)
(* serial bus, walks them to neutral, then repeats the latest commanded    *)
(* goal at 400 Hz; when commands stop it walks the servos back to neutral, *)
(* and it reopens the port when transmissions fail.                        *)
(*                                                                         *)
(* The servos' registers and the bus are external and outlive the process, *)
(* which may be killed and started again at any time.  A register write    *)
(* that reports failure may still have taken effect (the answer was lost). *)
(* Goals are written by SyncWrite, a broadcast no servo answers: success   *)
(* says that it was transmitted, not which servos have taken it.           *)
(* Angles are levels: 0 is neutral, larger is farther from it.             *)
(***************************************************************************)
EXTENDS Integers

CONSTANTS
    N,               \* number of servos, params::DXL_SERVOS.size()
    MaxLevel,        \* largest deflection level
    DdsTimeout,      \* params::DDS_RECEIVE_TIMEOUT_SEC, in clock units
    ReturnTime,      \* params::SERVO_RETURN_TIME_SEC
    StartupTime,     \* params::SERVO_STARTUP_RETURN_TIME_SEC
    ReopenInterval   \* the 1 s of reopen_port_after_failure

ASSUME ServoAssumption ==
    /\ N \in Nat \ {0}
    /\ MaxLevel \in Nat
    /\ DdsTimeout \in Nat \ {0}
    /\ ReturnTime \in Nat \ {0}
    /\ StartupTime \in Nat \ {0}
    /\ ReopenInterval \in Nat \ {0}

(* Definitions named for a defect are mutated forms of the definition that
   follows them.  No specification uses them: they show which property
   notices the defect. *)

VARIABLES
    \* the servos' registers, and the position of the shafts
    torque, position_mode, hardware_error, goal, position,
    \* the bus: "good", "noisy" (transactions may fail) or "unplugged"
    bus,
    \* the process
    phase,                       \* "down", "init", "startup", "run", "closing"
    ok,                          \* rclcpp::ok()
    port,                        \* "closed", "open", "broken" (open handle, device gone)
    step, idx,                   \* where initial_setting, or torque_off_all, is
    torque_enabled, initial_ppr, \* locals of initial_setting
    missed,                      \* history: servos that did not take the goal of hold
    servo_lpf, latest_goal,
    have_goal,                   \* dds_received_ and have_goal_, set together
    returning_to_zero, zero_return_complete,
    receive_gap, return_elapsed, since_reopen,
    shutdown_report              \* what the destructor logged

hardware == <<torque, position_mode, hardware_error, goal, position>>
locals == <<step, idx, torque_enabled, initial_ppr, missed>>
return_state == <<returning_to_zero, zero_return_complete>>
clocks == <<receive_gap, return_elapsed, since_reopen>>
servo_vars == <<hardware, bus, phase, ok, port, locals, servo_lpf, latest_goal, have_goal,
          return_state, clocks, shutdown_report>>

Servos == 1..N
Level == 0..MaxLevel
Angles == [Servos -> Level]
Zero == [i \in Servos |-> 0]
Unset == -1                      \* latest_goal_ppr_ before the first command
InitSteps == {"ping", "inspect", "watchdog", "gains", "read", "hold", "torque"}

ReturnCap == IF ReturnTime > StartupTime THEN ReturnTime ELSE StartupTime

ServoAged(age, cap) == IF age < cap THEN age + 1 ELSE cap

-----------------------------------------------------------------------------
(* The bus (external) *)

\* A transaction, or a transmission, succeeds or fails.
MaySucceed == port = "open" /\ bus \in {"good", "noisy"}
MayFail == port # "open" \/ bus # "good"

\* The servos that may take a broadcast: all on a good bus, any on a noisy one,
\* whether txPacket reports success or not.
Listeners ==
    IF port # "open" THEN {{}} ELSE IF bus = "good" THEN {Servos} ELSE SUBSET Servos

\* A goal that reaches a servo under torque moves its shaft there.
TakenBy(got, g) ==
    /\ goal' = [i \in Servos |-> IF i \in got THEN g[i] ELSE goal[i]]
    /\ position' = [i \in Servos |-> IF i \in got /\ torque[i] THEN g[i] ELSE position[i]]

Broadcast(g) == \E got \in Listeners : TakenBy(got, g)

BusChanges(b) ==
    /\ bus' = b
    /\ port' = IF b = "unplugged" /\ port = "open" THEN "broken" ELSE port
    /\ UNCHANGED <<hardware, phase, ok, locals, servo_lpf, latest_goal, have_goal,
                   return_state, clocks, shutdown_report>>

\* While the node is down a limp servo can be turned by hand.
TurnedByHand(i, l) ==
    /\ phase = "down"
    /\ ~torque[i]
    /\ position' = [position EXCEPT ![i] = l]
    /\ UNCHANGED <<torque, position_mode, hardware_error, goal, bus, phase, ok, port,
                   locals, servo_lpf, latest_goal, have_goal, return_state, clocks,
                   shutdown_report>>

-----------------------------------------------------------------------------
(* initial_setting.  One action per bus transaction that can fail; its retries
   are part of it. *)

\* The constructor failed: the port is closed, the exception ends the process,
\* and no destructor runs.
InitFails ==
    /\ phase' = "down"
    /\ port' = "closed"
    /\ UNCHANGED <<step, idx, torque_enabled, initial_ppr>>

\* The loop over the servos moves on, and after the last one to the next loop.
NextServo(next) ==
    /\ idx' = IF idx < N THEN idx + 1 ELSE 1
    /\ step' = IF idx < N THEN step ELSE next
    /\ UNCHANGED <<phase, port>>

InitUnchanged ==
    UNCHANGED <<bus, ok, servo_lpf, latest_goal, have_goal, return_state, clocks,
                shutdown_report>>

\* A new process that gets the port open (one that does not ends at once and
\* changes nothing): every member starts from its initializer.
Start ==
    /\ phase = "down"
    /\ bus # "unplugged"
    /\ phase' = "init"
    /\ ok' = TRUE
    /\ port' = "open"
    /\ step' = "ping" /\ idx' = 1
    /\ torque_enabled' = [i \in Servos |-> FALSE]
    /\ initial_ppr' = Zero /\ missed' = {}
    /\ servo_lpf' = Zero
    /\ latest_goal' = [i \in Servos |-> Unset]
    /\ have_goal' = FALSE
    /\ returning_to_zero' = FALSE /\ zero_return_complete' = FALSE
    /\ receive_gap' = 0 /\ return_elapsed' = 0 /\ since_reopen' = ReopenInterval
    /\ shutdown_report' = "none"
    /\ UNCHANGED <<hardware, bus>>

ping ==
    /\ phase = "init" /\ step = "ping"
    /\ \/ MaySucceed /\ NextServo("inspect") /\ UNCHANGED <<torque_enabled, initial_ppr>>
       \/ MayFail /\ InitFails
    /\ UNCHANGED <<hardware, missed>>
    /\ InitUnchanged

\* The states initial_setting accepts: no hardware error, and a torqued servo
\* is already in position mode, because torque is never dropped to change it.
acceptable(i) == ~hardware_error[i] /\ (torque[i] => position_mode[i])

inspect ==
    /\ phase = "init" /\ step = "inspect"
    /\ \/ /\ MaySucceed
          /\ acceptable(idx)
          /\ torque_enabled' = [torque_enabled EXCEPT ![idx] = torque[idx]]
          /\ position_mode' = [position_mode EXCEPT ![idx] = @ \/ ~torque[idx]]
          /\ NextServo("watchdog")
          /\ UNCHANGED initial_ppr
       \/ /\ MayFail \/ ~acceptable(idx)
          /\ InitFails
          \* the mode write was applied although its answer was lost
          /\ \/ UNCHANGED position_mode
             \/ /\ MaySucceed /\ acceptable(idx)
                /\ position_mode' = [position_mode EXCEPT ![idx] = @ \/ ~torque[idx]]
    /\ UNCHANGED <<torque, hardware_error, goal, position, missed>>
    /\ InitUnchanged

\* The writes that clear the bus watchdog and set the five gains.
watchdog_and_gains ==
    /\ phase = "init" /\ step \in {"watchdog", "gains"}
    /\ \/ /\ MaySucceed
          /\ NextServo(IF step = "watchdog" THEN "gains" ELSE "read")
          /\ UNCHANGED <<torque_enabled, initial_ppr>>
       \/ MayFail /\ InitFails
    /\ UNCHANGED <<hardware, missed>>
    /\ InitUnchanged

ReadNothing ==
    /\ phase = "init" /\ step = "read"
    /\ NextServo("hold")
    /\ UNCHANGED <<initial_ppr, torque_enabled, missed, hardware>>
    /\ InitUnchanged
read_position ==
    /\ phase = "init" /\ step = "read"
    /\ \/ /\ MaySucceed
          /\ initial_ppr' = [initial_ppr EXCEPT ![idx] = position[idx]]
          /\ NextServo("hold")
          /\ UNCHANGED torque_enabled
       \/ MayFail /\ InitFails
    /\ UNCHANGED <<hardware, missed>>
    /\ InitUnchanged

\* write_goal(initial_ppr): a failed transmission also triggers a reopen, but
\* the port is closed again as the constructor gives up.
hold ==
    /\ phase = "init" /\ step = "hold"
    /\ \E got \in Listeners : TakenBy(got, initial_ppr) /\ missed' = Servos \ got
    /\ \/ /\ MaySucceed
          /\ step' = "torque"
          /\ UNCHANGED <<phase, port, idx, torque_enabled, initial_ppr>>
       \/ MayFail /\ InitFails
    /\ UNCHANGED <<torque, position_mode, hardware_error>>
    /\ InitUnchanged

\* Torque goes on under the goal register as it is now.
TorqueOn(i) ==
    /\ torque' = [torque EXCEPT ![i] = TRUE]
    /\ position' = [position EXCEPT ![i] = goal[i]]

\* Torque is written only where it was off; then initial_return_to_zero starts.
enable_torque ==
    /\ phase = "init" /\ step = "torque"
    /\ \/ /\ torque_enabled[idx] \/ MaySucceed
          /\ IF torque_enabled[idx] THEN UNCHANGED <<torque, position>> ELSE TorqueOn(idx)
          /\ IF idx < N
             THEN /\ idx' = idx + 1
                  /\ UNCHANGED <<phase, servo_lpf, return_elapsed, missed>>
             ELSE /\ idx' = 1 /\ missed' = {}
                  /\ phase' = "startup"
                  /\ servo_lpf' = initial_ppr
                  /\ return_elapsed' = 0
          /\ UNCHANGED <<port, step, torque_enabled, initial_ppr>>
       \/ /\ ~torque_enabled[idx] /\ MayFail
          /\ InitFails
          /\ \/ UNCHANGED <<torque, position>>
             \/ port = "open" /\ TorqueOn(idx)   \* applied, answer lost
          /\ UNCHANGED <<servo_lpf, return_elapsed, missed>>
    /\ UNCHANGED <<position_mode, hardware_error, goal, bus, ok, latest_goal, have_goal,
                   return_state, receive_gap, since_reopen, shutdown_report>>

-----------------------------------------------------------------------------
(* write_goal and reopen_port_after_failure *)

\* At most one attempt per interval; a failed one leaves the port closed.
reopen_port_after_failure ==
    IF since_reopen < ReopenInterval
    THEN UNCHANGED <<port, since_reopen>>
    ELSE /\ since_reopen' = 0
         /\ \/ bus # "unplugged" /\ port' = "open"
            \/ bus # "good" /\ port' = "closed"

NeverReopens(g) ==
    /\ Broadcast(g)
    /\ UNCHANGED <<port, since_reopen>>
write_goal(g) ==
    /\ Broadcast(g)
    /\ \/ MaySucceed /\ UNCHANGED <<port, since_reopen>>
       \/ MayFail /\ reopen_port_after_failure

\* One low-pass update towards zero: each level stays or drops by one.
Decayed(angles) ==
    {f \in Angles : \A i \in Servos : f[i] \in {angles[i], angles[i] - 1}}

-----------------------------------------------------------------------------
(* initial_return_to_zero, still in the constructor *)

startup_tick ==
    /\ phase = "startup" /\ ok /\ return_elapsed < StartupTime
    /\ \E f \in Decayed(servo_lpf) : servo_lpf' = f /\ write_goal(f)
    /\ UNCHANGED <<torque, position_mode, hardware_error, bus, phase, ok, locals,
                   latest_goal, have_goal, return_state, receive_gap, return_elapsed,
                   shutdown_report>>

\* The last write of the startup walk, then the node is ready.
startup_done ==
    /\ phase = "startup" /\ (~ok \/ return_elapsed >= StartupTime)
    /\ IF ok THEN write_goal(Zero) ELSE UNCHANGED <<goal, position, port, since_reopen>>
    /\ servo_lpf' = Zero
    /\ receive_gap' = 0
    /\ phase' = "run"
    /\ UNCHANGED <<torque, position_mode, hardware_error, bus, ok, locals, latest_goal,
                   have_goal, return_state, return_elapsed, shutdown_report>>

-----------------------------------------------------------------------------
(* The running node *)

\* A command with finite values; any other is dropped and changes nothing.
dds_callback(m) ==
    /\ phase = "run" /\ ok
    /\ servo_lpf' = m /\ latest_goal' = m
    /\ have_goal' = TRUE
    /\ receive_gap' = 0
    /\ returning_to_zero' = FALSE /\ zero_return_complete' = FALSE
    /\ UNCHANGED <<hardware, bus, phase, ok, port, locals, return_elapsed, since_reopen,
                   shutdown_report>>

\* The time since the return began; it begins at this tick if not before.
ReturnAge == IF returning_to_zero THEN return_elapsed ELSE 0

outage == receive_gap >= DdsTimeout /\ ~zero_return_complete

return_step ==
    /\ outage /\ ReturnAge < ReturnTime
    /\ \E f \in Decayed(servo_lpf) :
           servo_lpf' = f /\ latest_goal' = f /\ write_goal(f)
    /\ returning_to_zero' = TRUE
    /\ return_elapsed' = ReturnAge
    /\ UNCHANGED zero_return_complete

return_finish ==
    /\ outage /\ ReturnAge >= ReturnTime
    /\ servo_lpf' = Zero /\ latest_goal' = Zero
    /\ write_goal(Zero)
    /\ returning_to_zero' = FALSE
    /\ zero_return_complete' = TRUE
    /\ UNCHANGED return_elapsed

\* Until the first command the timer only reports.
has_goal == phase = "run" /\ ok /\ have_goal

timeout_callback ==
    /\ has_goal
    /\ \/ return_step
       \/ return_finish
       \/ /\ ~outage
          /\ write_goal(latest_goal)
          /\ UNCHANGED <<servo_lpf, latest_goal, return_state, return_elapsed>>
    /\ UNCHANGED <<torque, position_mode, hardware_error, bus, phase, ok, locals,
                   have_goal, receive_gap, shutdown_report>>

-----------------------------------------------------------------------------
(* Stopping *)

\* SIGINT: rclcpp::ok() turns false; the constructor still runs to its end.
OperatorShutdown ==
    /\ phase \in {"init", "startup", "run"} /\ ok
    /\ ok' = FALSE
    /\ UNCHANGED <<hardware, bus, phase, port, locals, servo_lpf, latest_goal, have_goal,
                   return_state, clocks, shutdown_report>>

\* spin returns once ok is false, and the destructor runs torque_off_all:
\* shutdown_report is its local success until the loop has ended.
Destructor ==
    /\ phase = "run" /\ ~ok
    /\ phase' = "closing"
    /\ idx' = 1
    /\ shutdown_report' = "disabled"
    /\ UNCHANGED <<hardware, bus, ok, port, step, torque_enabled, initial_ppr, missed,
                   servo_lpf, latest_goal, have_goal, return_state, clocks>>

\* One attempt per servo; a failure does not stop the loop.
torque_off_all ==
    /\ phase = "closing"
    /\ \/ /\ MaySucceed
          /\ torque' = [torque EXCEPT ![idx] = FALSE]
          /\ UNCHANGED shutdown_report
       \/ /\ MayFail
          /\ \/ UNCHANGED torque
             \/ port = "open" /\ torque' = [torque EXCEPT ![idx] = FALSE]
          /\ shutdown_report' = "failed"
    /\ IF idx < N
       THEN idx' = idx + 1 /\ UNCHANGED <<phase, port>>
       ELSE idx' = 1 /\ phase' = "down" /\ port' = "closed"
    /\ UNCHANGED <<position_mode, hardware_error, goal, position, bus, ok, step,
                   torque_enabled, initial_ppr, missed, servo_lpf, latest_goal, have_goal,
                   return_state, clocks>>

DropsTorque ==
    /\ phase # "down"
    /\ phase' = "down"
    /\ port' = "closed"
    /\ torque' = [i \in Servos |-> FALSE]
    /\ UNCHANGED <<position_mode, hardware_error, goal, position, bus, ok, locals,
                   servo_lpf, latest_goal, have_goal, return_state, clocks,
                   shutdown_report>>
\* The process is killed, or leaves spin through an exception: the destructor,
\* if it runs, finds ok still true and leaves torque as it is.
StopsWithoutShutdown ==
    /\ phase # "down"
    /\ phase' = "down"
    /\ port' = "closed"
    /\ shutdown_report' = "none"
    /\ UNCHANGED <<hardware, bus, ok, locals, servo_lpf, latest_goal, have_goal,
                   return_state, clocks>>

-----------------------------------------------------------------------------

\* The steady clock; before startup no timer has been set.
ServoAdvance ==
    /\ phase \in {"startup", "run"}
    /\ receive_gap' = ServoAged(receive_gap, DdsTimeout)
    /\ return_elapsed' = ServoAged(return_elapsed, ReturnCap)
    /\ since_reopen' = ServoAged(since_reopen, ReopenInterval)
    /\ UNCHANGED <<hardware, bus, phase, ok, port, locals, servo_lpf, latest_goal,
                   have_goal, return_state, shutdown_report>>

\* The servos are in any state an earlier run, or their own setup, left.
ServoInit ==
    /\ torque \in [Servos -> BOOLEAN]
    /\ position_mode \in [Servos -> BOOLEAN]
    /\ hardware_error \in [Servos -> BOOLEAN]
    /\ goal = Zero /\ position = Zero
    /\ bus = "good" /\ port = "closed"
    /\ phase = "down" /\ ok = FALSE
    /\ step = "ping" /\ idx = 1
    /\ torque_enabled = [i \in Servos |-> FALSE] /\ initial_ppr = Zero /\ missed = {}
    /\ servo_lpf = Zero /\ latest_goal = [i \in Servos |-> Unset] /\ have_goal = FALSE
    /\ returning_to_zero = FALSE /\ zero_return_complete = FALSE
    /\ receive_gap = 0 /\ return_elapsed = 0 /\ since_reopen = ReopenInterval
    /\ shutdown_report = "none"

ServoNext ==
    \/ Start \/ ping \/ inspect \/ watchdog_and_gains \/ read_position \/ hold
    \/ enable_torque
    \/ startup_tick \/ startup_done
    \/ \E m \in Angles : dds_callback(m)
    \/ timeout_callback
    \/ OperatorShutdown \/ Destructor \/ torque_off_all \/ StopsWithoutShutdown
    \/ \E b \in {"good", "noisy", "unplugged"} : BusChanges(b)
    \/ \E i \in Servos, l \in Level : TurnedByHand(i, l)
    \/ ServoAdvance

\* The executor keeps firing the timer, and time passes.
ServoFairness == WF_servo_vars(timeout_callback) /\ WF_servo_vars(ServoAdvance)

ServoSpec == ServoInit /\ [][ServoNext]_servo_vars

ServoFairSpec == ServoSpec /\ ServoFairness

-----------------------------------------------------------------------------
(* Properties *)

\* Type correctness.  goal ranges over real angles only: the ppr value 0 that
\* latest_goal_ppr_ holds before the first command, far from neutral, is never
\* written to a servo.
ServoTypeOK ==
    /\ torque \in [Servos -> BOOLEAN] /\ position_mode \in [Servos -> BOOLEAN]
    /\ hardware_error \in [Servos -> BOOLEAN]
    /\ goal \in Angles /\ position \in Angles
    /\ bus \in {"good", "noisy", "unplugged"}
    /\ phase \in {"down", "init", "startup", "run", "closing"}
    /\ ok \in BOOLEAN
    /\ port \in {"closed", "open", "broken"}
    /\ step \in InitSteps /\ idx \in Servos
    /\ torque_enabled \in [Servos -> BOOLEAN] /\ initial_ppr \in Angles
    /\ missed \subseteq Servos
    /\ servo_lpf \in Angles
    /\ IF have_goal THEN latest_goal \in Angles ELSE latest_goal = [i \in Servos |-> Unset]
    /\ have_goal \in BOOLEAN
    /\ returning_to_zero \in BOOLEAN /\ zero_return_complete \in BOOLEAN
    /\ receive_gap \in 0..DdsTimeout /\ return_elapsed \in 0..ReturnCap
    /\ since_reopen \in 0..ReopenInterval
    /\ shutdown_report \in {"none", "disabled", "failed"}

\* A servo in flight must not go limp: whatever fails, is killed or restarted,
\* torque goes off only in the destructor of an operator shutdown.
TorqueKept ==
    [][\A i \in Servos : torque[i] /\ ~torque'[i] => phase = "closing" /\ ~ok]_servo_vars

\* The comment at line 270, "Hold the measured initial position before enabling
\* torque": a servo that gets torque is told to stay where its shaft is, whatever
\* goal an earlier run left in its register.  A jump takes a servo that missed the
\* goal of hold: write_goal cannot know, and initial_setting does not read the
\* register back.  (Nobody turns the shaft between the measurement and the torque:
\* TurnedByHand needs the node to be down.)
TorqueOnWithoutJump ==
    [][\A i \in Servos :
           ~torque[i] /\ torque'[i] => i \in missed \/ goal[i] = position[i]]_servo_vars

\* Once bring-up has finished every servo is under torque, in position mode and
\* free of hardware errors, also after partial bring-ups and restarts.
ReadyServos ==
    phase \in {"startup", "run"} =>
        \A i \in Servos : torque[i] /\ position_mode[i] /\ ~hardware_error[i]

\* The destructor logs "torque disabled" only if no servo is left under torque.
ShutdownReportTrue ==
    phase = "down" /\ shutdown_report = "disabled" => \A i \in Servos : ~torque[i]

\* The goal repeated to the servos and the filter the outage return starts from
\* never drift apart, so neither the start of a return nor a command that
\* interrupts one makes the goal jump; a completed return means neutral.
GoalTracksFilter ==
    /\ have_goal => latest_goal = servo_lpf
    /\ zero_return_complete => have_goal /\ latest_goal = Zero
    /\ ~(returning_to_zero /\ zero_return_complete)

SilentOnGoodBus ==
    /\ phase = "run" /\ ok /\ have_goal
    /\ receive_gap >= DdsTimeout
    /\ bus = "good"

\* If commands stop for good while the node runs and the bus works again for
\* good, then whatever failed before, the port is reopened and every servo ends
\* up at neutral for good.
OutageReturnsToNeutral == <>[]SilentOnGoodBus => <>[](goal = Zero)

-----------------------------------------------------------------------------
(* The inductive invariant: what each loop of initial_setting has achieved. *)

\* The inspection loop has passed servo i, and nothing it found is undone.
Inspected(i) ==
    \/ phase \in {"startup", "run"}
    \/ /\ phase = "init"
       /\ \/ step \in {"watchdog", "gains", "read", "hold", "torque"}
          \/ step = "inspect" /\ i < idx

\* The reading loop has passed servo i.
Measured(i) ==
    /\ phase = "init"
    /\ \/ step \in {"hold", "torque"}
       \/ step = "read" /\ i < idx

\* The torque loop has passed servo i.
Torqued(i) ==
    \/ phase \in {"startup", "run"}
    \/ phase = "init" /\ step = "torque" /\ i < idx

\* Bring-up in progress: a servo that was inspected is in position mode and has
\* no error, the local copy of its torque flag is right, a measured servo has not
\* moved since, and torque follows when the goal is the measured position at every
\* servo that took it.
BringUp ==
    \A i \in Servos :
        /\ Inspected(i) => position_mode[i] /\ ~hardware_error[i]
        /\ phase = "init" /\ Inspected(i) /\ torque_enabled[i] => torque[i]
        /\ Measured(i) /\ ~torque[i] => initial_ppr[i] = position[i]
        /\ phase = "init" /\ step = "torque" => i \in missed \/ goal[i] = initial_ppr[i]
        /\ Torqued(i) => torque[i]

\* The torque loop starts at the first servo.
HoldAtFirst == phase = "init" /\ step = "hold" => idx = 1

\* Only an operator shutdown gets as far as torque_off_all.
ClosingIsShutdown == phase = "closing" => ~ok

\* What TorqueKept, TorqueOnWithoutJump and ReadyServos follow from.
BringUpInv == ServoTypeOK /\ BringUp /\ HoldAtFirst /\ ClosingIsShutdown

\* What GoalTracksFilter needs besides itself: bring-up, which moves the filter
\* alone, is over before the first command.
GoalInv == GoalTracksFilter /\ (phase \in {"init", "startup"} => ~have_goal)

\* What ShutdownReportTrue follows from: the report belongs to this shutdown,
\* and success so far means the servos passed so far are limp.
ReportInv ==
    /\ phase \in {"init", "startup", "run"} => shutdown_report = "none"
    /\ phase = "closing" /\ shutdown_report = "disabled" =>
           \A i \in Servos : i < idx => ~torque[i]
    /\ ShutdownReportTrue

\* What holds of the node at every moment, with what makes it inductive: how far
\* bring-up and shutdown have got with each servo, that servos in use are ready,
\* that goal and filter agree, and that the report of a shutdown is true.
ServoInv == BringUpInv /\ ReadyServos /\ GoalInv /\ ReportInv
=============================================================================
