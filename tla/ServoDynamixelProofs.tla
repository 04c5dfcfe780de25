------------------------ MODULE ServoDynamixelProofs ------------------------
(***************************************************************************)
(* The safety of bring-up, for any number of servos: torque is never lost  *)
(* by accident, moves no servo that took the goal of hold, and is complete *)
(* when the node runs, through any sequence of bus failures, kills and     *)
(* restarts.                                                               *)
(***************************************************************************)
EXTENDS ServoDynamixel, TLAPS

\* Saturating counters stay within their cap.
LEMMA AgedRange ==
    ASSUME NEW cap \in Nat, NEW age \in 0..cap
    PROVE  ServoAged(age, cap) \in 0..cap
  BY DEF ServoAged

\* Neutral is an angle, the first servo exists, and the caps are natural.
LEMMA Constants ==
    /\ Zero \in Angles
    /\ 1 \in Servos
    /\ ReturnCap \in Nat /\ DdsTimeout \in Nat /\ ReopenInterval \in Nat
  BY ServoAssumption DEF ReturnCap, Servos, Level, Angles, Zero

\* A loop over the servos stays on a servo.
LEMMA NextServoType ==
    ASSUME ServoTypeOK, NEW next \in InitSteps, NextServo(next)
    PROVE  idx' \in Servos /\ step' \in InitSteps /\ phase' = phase /\ port' = port
  BY ServoAssumption DEF ServoTypeOK, NextServo, Servos

\* A broadcast is heard by servos, and leaves goal registers and shafts at angles
\* whoever takes it.
LEMMA TakenType ==
    ASSUME ServoTypeOK, NEW g \in Angles, NEW got \in Listeners, TakenBy(got, g)
    PROVE  goal' \in Angles /\ position' \in Angles /\ got \subseteq Servos
  <1>1. got \subseteq Servos BY DEF Listeners
  <1>2. goal' \in Angles BY DEF ServoTypeOK, TakenBy, Angles
  <1>3. position' \in Angles BY DEF ServoTypeOK, TakenBy, Angles
  <1> QED BY <1>1, <1>2, <1>3

\* So does a write that may fail and reopen the port.
LEMMA WriteGoalType ==
    ASSUME ServoTypeOK, NEW g \in Angles, write_goal(g)
    PROVE  /\ goal' \in Angles /\ position' \in Angles
           /\ port' \in {"closed", "open", "broken"}
           /\ since_reopen' \in 0..ReopenInterval
  <1>1. goal' \in Angles /\ position' \in Angles
    BY TakenType DEF write_goal, Broadcast
  <1>2. CASE UNCHANGED <<port, since_reopen>>
    BY <1>1, <1>2 DEF ServoTypeOK
  <1>3. CASE reopen_port_after_failure
    BY <1>1, <1>3, Constants DEF ServoTypeOK, reopen_port_after_failure
  <1> QED BY <1>2, <1>3 DEF write_goal

\* The state the node finds is well typed.
LEMMA InitType == ServoInit => ServoTypeOK
  <1> SUFFICES ASSUME ServoInit PROVE ServoTypeOK
    OBVIOUS
  <1>1. torque_enabled \in [Servos -> BOOLEAN]
    BY DEF ServoInit
  <1>2. /\ goal \in Angles /\ position \in Angles /\ servo_lpf \in Angles
        /\ initial_ppr \in Angles /\ idx \in Servos /\ missed \subseteq Servos
    BY Constants DEF ServoInit
  <1>3. /\ receive_gap \in 0..DdsTimeout /\ return_elapsed \in 0..ReturnCap
        /\ since_reopen \in 0..ReopenInterval
    BY Constants DEF ServoInit
  <1> QED BY <1>1, <1>2, <1>3 DEF ServoInit, ServoTypeOK, InitSteps

-----------------------------------------------------------------------------

\* Every step of bring-up preserves type correctness.
LEMMA BringUpType ==
    ASSUME ServoTypeOK, 
           Start \/ ping \/ inspect \/ watchdog_and_gains \/ read_position \/ hold
             \/ enable_torque
    PROVE  ServoTypeOK'
  <1> USE Constants
  <1>1. CASE Start
    <2>1. torque_enabled' \in [Servos -> BOOLEAN]
      BY <1>1 DEF Start
    <2>2. /\ servo_lpf' \in Angles /\ initial_ppr' \in Angles /\ idx' \in Servos
          /\ missed' \subseteq Servos
      BY <1>1 DEF Start
    <2>3. /\ receive_gap' \in 0..DdsTimeout /\ return_elapsed' \in 0..ReturnCap
          /\ since_reopen' \in 0..ReopenInterval
      BY <1>1 DEF Start
    <2> QED BY <1>1, <2>1, <2>2, <2>3 DEF Start, ServoTypeOK, hardware, InitSteps
  <1>2. CASE ping
    BY <1>2, NextServoType DEF ping, InitFails, InitUnchanged, ServoTypeOK, hardware,
       return_state, clocks, InitSteps
  <1>3. CASE inspect
    BY <1>3, NextServoType, ZenonT(60) DEF inspect, InitFails, InitUnchanged, ServoTypeOK,
       return_state, clocks, InitSteps
  <1>4. CASE watchdog_and_gains
    BY <1>4, NextServoType DEF watchdog_and_gains, InitFails, InitUnchanged, ServoTypeOK,
       hardware, return_state, clocks, InitSteps
  <1>5. CASE read_position
    <2>1. initial_ppr' \in Angles
      BY <1>5 DEF read_position, InitFails, ServoTypeOK, hardware, Angles
    <2> QED BY <1>5, <2>1, NextServoType DEF read_position, InitFails, InitUnchanged,
               ServoTypeOK, hardware, return_state, clocks, InitSteps
  <1>6. CASE hold
    <2>1. /\ goal' \in Angles /\ position' \in Angles
          /\ missed' \subseteq Servos /\ initial_ppr' \in Angles
      BY <1>6, TakenType DEF hold, InitFails, ServoTypeOK
    <2> QED BY <1>6, <2>1 DEF hold, InitFails, InitUnchanged, ServoTypeOK,
               return_state, clocks, InitSteps
  <1>7. CASE enable_torque
    <2>1. torque' \in [Servos -> BOOLEAN] /\ position' \in Angles
      <3>1. UNCHANGED <<torque, position>> \/ TorqueOn(idx)
        BY <1>7 DEF enable_torque
      <3> QED BY <3>1 DEF TorqueOn, ServoTypeOK, Angles
    <2>2. /\ idx' \in Servos /\ step' \in InitSteps
          /\ torque_enabled' \in [Servos -> BOOLEAN] /\ initial_ppr' \in Angles
          /\ phase' \in {"down", "init", "startup", "run", "closing"}
          /\ port' \in {"closed", "open", "broken"}
      BY <1>7, ServoAssumption DEF enable_torque, InitFails, ServoTypeOK, Servos
    <2>3. servo_lpf' \in Angles /\ return_elapsed' \in 0..ReturnCap
      BY <1>7 DEF enable_torque, ServoTypeOK
    <2>4. missed' \subseteq Servos
      BY <1>7 DEF enable_torque, ServoTypeOK
    <2> QED BY <1>7, <2>1, <2>2, <2>3, <2>4 DEF enable_torque, ServoTypeOK, return_state
  <1> QED BY <1>1, <1>2, <1>3, <1>4, <1>5, <1>6, <1>7

\* Every step of the running node, of its end and of its environment does too.
LEMMA RunType ==
    ASSUME ServoTypeOK,
           \/ startup_tick \/ startup_done
           \/ \E m \in Angles : dds_callback(m)
           \/ timeout_callback
           \/ OperatorShutdown \/ Destructor \/ torque_off_all \/ StopsWithoutShutdown
           \/ \E b \in {"good", "noisy", "unplugged"} : BusChanges(b)
           \/ \E i \in Servos, l \in Level : TurnedByHand(i, l)
           \/ ServoAdvance
    PROVE  ServoTypeOK'
  <1> USE Constants
  <1>1. CASE startup_tick
    BY <1>1, WriteGoalType DEF startup_tick, Decayed, ServoTypeOK, locals, return_state
  <1>2. CASE startup_done
    BY <1>2, WriteGoalType DEF startup_done, ServoTypeOK, locals, return_state
  <1>3. ASSUME NEW m \in Angles, dds_callback(m) PROVE ServoTypeOK'
    <2>1. /\ servo_lpf' \in Angles /\ latest_goal' \in Angles /\ have_goal'
          /\ have_goal' \in BOOLEAN
          /\ returning_to_zero' \in BOOLEAN /\ zero_return_complete' \in BOOLEAN
      BY <1>3, Zenon DEF dds_callback
    <2>3. receive_gap' \in 0..DdsTimeout
      <3>1. receive_gap' = 0 BY <1>3, Zenon DEF dds_callback
      <3> QED BY <3>1
    <2>2. UNCHANGED <<hardware, bus, phase, ok, port, locals, return_elapsed,
                      since_reopen, shutdown_report>>
      BY <1>3 DEF dds_callback
    <2> QED BY <2>1, <2>2, <2>3 DEF ServoTypeOK, hardware, locals
  <1>4. CASE timeout_callback
    <2>1. ReturnAge \in 0..ReturnCap BY DEF ServoTypeOK, ReturnAge
    <2> USE <1>4 DEF timeout_callback, ServoTypeOK, locals, return_state, has_goal
    <2>2. CASE return_step
      BY <2>1, <2>2, WriteGoalType DEF return_step, Decayed
    <2>3. CASE return_finish
      BY <2>3, WriteGoalType DEF return_finish
    <2>4. CASE ~outage /\ write_goal(latest_goal)
                 /\ UNCHANGED <<servo_lpf, latest_goal, return_state, return_elapsed>>
      BY <2>4, WriteGoalType
    <2> QED BY <2>2, <2>3, <2>4
  <1>5. CASE OperatorShutdown
    BY <1>5 DEF OperatorShutdown, ServoTypeOK, hardware, locals, return_state, clocks
  <1>6. CASE Destructor
    BY <1>6 DEF Destructor, ServoTypeOK, hardware, return_state, clocks
  <1>7. CASE torque_off_all
    <2>1. torque' \in [Servos -> BOOLEAN]
      BY <1>7 DEF torque_off_all, ServoTypeOK
    <2>2. /\ idx' \in Servos
          /\ phase' \in {"down", "init", "startup", "run", "closing"}
          /\ port' \in {"closed", "open", "broken"}
          /\ shutdown_report' \in {"none", "disabled", "failed"}
      BY <1>7, ServoAssumption DEF torque_off_all, ServoTypeOK, Servos
    <2> QED BY <1>7, <2>1, <2>2 DEF torque_off_all, ServoTypeOK, return_state, clocks
  <1>8. CASE StopsWithoutShutdown
    BY <1>8 DEF StopsWithoutShutdown, ServoTypeOK, hardware, locals, return_state, clocks
  <1>9. ASSUME NEW b \in {"good", "noisy", "unplugged"}, BusChanges(b) PROVE ServoTypeOK'
    BY <1>9 DEF BusChanges, ServoTypeOK, hardware, locals, return_state, clocks
  <1>10. ASSUME NEW i \in Servos, NEW l \in Level, TurnedByHand(i, l) PROVE ServoTypeOK'
    <2>1. position' \in Angles
      BY <1>10 DEF TurnedByHand, ServoTypeOK, Angles
    <2> QED BY <1>10, <2>1 DEF TurnedByHand, ServoTypeOK, locals, return_state, clocks
  <1>11. CASE ServoAdvance
    <2>1. /\ ServoAged(receive_gap, DdsTimeout) \in 0..DdsTimeout
          /\ ServoAged(return_elapsed, ReturnCap) \in 0..ReturnCap
          /\ ServoAged(since_reopen, ReopenInterval) \in 0..ReopenInterval
      BY AgedRange DEF ServoTypeOK
    <2> QED BY <1>11, <2>1 DEF ServoAdvance, ServoTypeOK, hardware, locals, return_state
  <1> QED BY <1>1, <1>2, <1>3, <1>4, <1>5, <1>6, <1>7, <1>8, <1>9, <1>10, <1>11

\* Every step, or a stutter, preserves type correctness.
LEMMA NextType == ServoTypeOK /\ [ServoNext]_servo_vars => ServoTypeOK'
  <1>1. ASSUME ServoTypeOK, UNCHANGED servo_vars PROVE ServoTypeOK'
    BY <1>1 DEF servo_vars, ServoTypeOK, hardware, locals, return_state, clocks
  <1> QED BY <1>1, BringUpType, RunType DEF ServoNext

\* Every reachable state is well typed; in particular no servo is ever told the
\* unset goal.
THEOREM TypeCorrect == ServoSpec => []ServoTypeOK
  BY InitType, NextType, PTL DEF ServoSpec

-----------------------------------------------------------------------------
(* Bring-up, one lemma per loop of initial_setting.  Each action of the loop
   extends what holds of the servos before idx to the servo idx itself. *)

\* A process that has ended, or has not begun, owes nothing to bring-up.
LEMMA DownHoldsAll ==
    ASSUME phase \in {"down", "closing"}
    PROVE  BringUp /\ HoldAtFirst
  BY DEF BringUp, HoldAtFirst, Inspected, Measured, Torqued

\* The same of the next state.
LEMMA DownHoldsAllNext ==
    ASSUME phase' \in {"down", "closing"}
    PROVE  BringUp' /\ HoldAtFirst'
  BY DEF BringUp, HoldAtFirst, Inspected, Measured, Torqued

\* The loops before and after the inspection change nothing bring-up speaks of.
LEMMA PlainLoops ==
    ASSUME BringUpInv, ping \/ watchdog_and_gains
    PROVE  BringUp' /\ HoldAtFirst'
  <1>1. CASE InitFails BY <1>1, DownHoldsAllNext DEF InitFails
  <1>2. CASE ping /\ ~InitFails
    BY <1>2, ServoAssumption DEF ping, NextServo, hardware, BringUpInv, ServoTypeOK, BringUp,
       HoldAtFirst, Inspected, Measured, Torqued, Servos
  <1>3. CASE watchdog_and_gains /\ ~InitFails
    BY <1>3, ServoAssumption DEF watchdog_and_gains, NextServo, hardware, BringUpInv,
       ServoTypeOK, BringUp, HoldAtFirst, Inspected, Measured, Torqued, Servos
  <1> QED BY <1>1, <1>2, <1>3

\* The inspection leaves servo idx in position mode with its torque flag copied.
LEMMA InspectLoop ==
    ASSUME BringUpInv, inspect
    PROVE  BringUp' /\ HoldAtFirst'
  <1>1. CASE InitFails BY <1>1, DownHoldsAllNext DEF InitFails
  <1>2. CASE ~InitFails
    <2>1. /\ acceptable(idx)
          /\ torque_enabled' = [torque_enabled EXCEPT ![idx] = torque[idx]]
          /\ position_mode' = [position_mode EXCEPT ![idx] = @ \/ ~torque[idx]]
          /\ NextServo("watchdog")
      BY <1>2 DEF inspect
    <2>2. /\ phase = "init" /\ step = "inspect" /\ phase' = "init"
          /\ UNCHANGED <<torque, hardware_error, goal, position>>
          /\ step' \in {"inspect", "watchdog"}
      BY <2>1 DEF inspect, NextServo
    <2>3. ASSUME NEW i \in Servos, Inspected(i)'
          PROVE  /\ position_mode'[i] /\ ~hardware_error'[i]
                 /\ torque_enabled'[i] => torque'[i]
      <3>1. i < idx \/ i = idx
        BY <2>1, <2>2, <2>3, ServoAssumption DEF NextServo, Inspected, Servos,
           BringUpInv, ServoTypeOK
      <3>2. CASE i = idx
        BY <2>1, <2>2, <3>2 DEF acceptable, BringUpInv, ServoTypeOK
      <3>3. CASE i < idx
        <4>1. Inspected(i) /\ i # idx
          BY <2>2, <3>3, ServoAssumption DEF Inspected, BringUpInv, ServoTypeOK, Servos
        <4> QED BY <2>1, <2>2, <4>1 DEF BringUpInv, BringUp, ServoTypeOK
      <3> QED BY <3>1, <3>2, <3>3
    <2> QED BY <2>2, <2>3 DEF BringUp, HoldAtFirst, Measured, Torqued
  <1> QED BY <1>1, <1>2

\* The reading loop leaves servo idx measured.
LEMMA ReadLoop ==
    ASSUME BringUpInv, read_position
    PROVE  BringUp' /\ HoldAtFirst'
  <1>1. CASE InitFails BY <1>1, DownHoldsAllNext DEF InitFails
  <1>2. CASE ~InitFails
    <2>1. /\ initial_ppr' = [initial_ppr EXCEPT ![idx] = position[idx]]
          /\ NextServo("hold")
          /\ phase = "init" /\ step = "read" /\ phase' = "init"
          /\ UNCHANGED <<torque, position_mode, hardware_error, goal, position,
                         torque_enabled>>
          /\ step' \in {"read", "hold"}
      BY <1>2 DEF read_position, NextServo, hardware
    <2>2. ASSUME NEW i \in Servos, Measured(i)', ~torque'[i]
          PROVE  initial_ppr'[i] = position'[i]
      <3>1. i < idx \/ i = idx
        BY <2>1, <2>2, ServoAssumption DEF NextServo, Measured, Servos, BringUpInv, ServoTypeOK
      <3>2. CASE i = idx
        BY <2>1, <3>2 DEF BringUpInv, ServoTypeOK, Angles
      <3>3. CASE i < idx
        <4>1. Measured(i) /\ i # idx
          BY <2>1, <3>3, ServoAssumption DEF Measured, BringUpInv, ServoTypeOK, Servos
        <4> QED BY <2>1, <2>2, <4>1 DEF BringUpInv, BringUp, ServoTypeOK, Angles
      <3> QED BY <3>1, <3>2, <3>3
    <2>3. \A i \in Servos : /\ position_mode'[i] /\ ~hardware_error'[i]
                            /\ torque_enabled'[i] => torque'[i]
      BY <2>1 DEF BringUpInv, BringUp, Inspected
    <2>4. HoldAtFirst'
      BY <2>1 DEF NextServo, HoldAtFirst
    <2> QED BY <2>1, <2>2, <2>3, <2>4 DEF BringUp, Torqued
  <1> QED BY <1>1, <1>2

\* The hold leaves the goal at the measured position at every servo that takes it,
\* and moves no limp shaft.
LEMMA HoldStep ==
    ASSUME BringUpInv, hold
    PROVE  BringUp' /\ HoldAtFirst'
  <1>1. CASE InitFails BY <1>1, DownHoldsAllNext DEF InitFails
  <1>2. CASE ~InitFails
    <2>1. /\ \E got \in Listeners : TakenBy(got, initial_ppr) /\ missed' = Servos \ got
          /\ phase = "init" /\ step = "hold" /\ phase' = "init" /\ step' = "torque"
          /\ UNCHANGED <<idx, torque, position_mode, hardware_error, torque_enabled,
                         initial_ppr>>
      BY <1>2 DEF hold
    <2>2. idx = 1
      BY <2>1 DEF BringUpInv, HoldAtFirst
    <2>3. ASSUME NEW i \in Servos
          PROVE  /\ position_mode'[i] /\ ~hardware_error'[i]
                 /\ torque_enabled'[i] => torque'[i]
                 /\ ~torque'[i] => initial_ppr'[i] = position'[i]
                 /\ i \in missed' \/ goal'[i] = initial_ppr'[i]
      <3>1. PICK got \in Listeners : TakenBy(got, initial_ppr) /\ missed' = Servos \ got
        BY <2>1
      <3> QED BY <2>1, <3>1 DEF BringUpInv, BringUp, Inspected, Measured, TakenBy
    <2>4. \A i \in Servos : ~Torqued(i)'
      BY <2>1, <2>2 DEF Torqued, Servos
    <2> QED BY <2>1, <2>3, <2>4 DEF BringUp, HoldAtFirst
  <1> QED BY <1>1, <1>2

\* The torque loop leaves servo idx under torque; it turns on in place.
LEMMA TorqueLoop ==
    ASSUME BringUpInv, enable_torque
    PROVE  BringUp' /\ HoldAtFirst'
  <1>1. CASE InitFails BY <1>1, DownHoldsAllNext DEF InitFails
  <1>2. CASE ~InitFails
    <2>1. /\ phase = "init" /\ step = "torque"
          /\ IF torque_enabled[idx] THEN UNCHANGED <<torque, position>> ELSE TorqueOn(idx)
          /\ IF idx < N THEN idx' = idx + 1 /\ phase' = "init" ELSE phase' = "startup"
          /\ UNCHANGED <<step, position_mode, hardware_error, goal, torque_enabled,
                         initial_ppr>>
          /\ phase' = "init" => UNCHANGED missed
      BY <1>2 DEF enable_torque
    <2>2. ASSUME NEW i \in Servos
          PROVE  /\ position_mode[i] /\ ~hardware_error[i]
                 /\ torque_enabled[i] => torque[i]
                 /\ ~torque[i] => initial_ppr[i] = position[i]
                 /\ i \in missed \/ goal[i] = initial_ppr[i]
      BY <2>1 DEF BringUpInv, BringUp, Inspected, Measured
    <2>3. ASSUME NEW i \in Servos, i # idx
          PROVE  torque'[i] = torque[i] /\ position'[i] = position[i]
      BY <2>1, <2>3 DEF TorqueOn, BringUpInv, ServoTypeOK, Angles
    <2>4. idx \in Servos /\ torque'[idx]
      BY <2>1, <2>2 DEF TorqueOn, BringUpInv, ServoTypeOK
    <2>5. ASSUME NEW i \in Servos, Torqued(i)' PROVE torque'[i]
      <3>1. i < idx \/ i = idx
        BY <2>1, <2>4, <2>5, ServoAssumption DEF Torqued, Servos
      <3>2. CASE i < idx
        BY <2>1, <2>3, <2>4, <3>2, ServoAssumption DEF Torqued, BringUpInv, BringUp, Servos
      <3> QED BY <2>4, <3>1, <3>2
    <2> QED BY <2>1, <2>2, <2>3, <2>4, <2>5 DEF BringUp, HoldAtFirst
  <1> QED BY <1>1, <1>2

\* After bring-up no action touches what it established until torque_off_all.
LEMMA RunKeepsBringUp ==
    ASSUME BringUpInv,
           phase \in {"startup", "run"}, phase' \in {"startup", "run"},
           UNCHANGED <<torque, position_mode, hardware_error>>
    PROVE  BringUp' /\ HoldAtFirst'
  BY DEF BringUpInv, BringUp, HoldAtFirst, Inspected, Measured, Torqued

\* Steps that touch neither the servos nor the progress of bring-up keep it.
LEMMA FrameKeepsBringUp ==
    ASSUME BringUpInv,
           UNCHANGED <<torque, position_mode, hardware_error, goal, position, phase,
                       step, idx, torque_enabled, initial_ppr, missed>>
    PROVE  BringUp' /\ HoldAtFirst'
  BY DEF BringUpInv, BringUp, HoldAtFirst, Inspected, Measured, Torqued

-----------------------------------------------------------------------------

\* The whole step relation preserves the invariant.
LEMMA BringUpStep == BringUpInv /\ [ServoNext]_servo_vars => BringUpInv'
  <1> SUFFICES ASSUME BringUpInv, [ServoNext]_servo_vars PROVE BringUpInv'
    OBVIOUS
  <1>1. ServoTypeOK'
    BY NextType DEF BringUpInv
  <1>2. BringUp' /\ HoldAtFirst'
    <2>1. CASE Start
      BY <2>1, Constants DEF Start, BringUp, HoldAtFirst, Inspected, Measured, Torqued
    <2>2. CASE ping \/ watchdog_and_gains BY <2>2, PlainLoops
    <2>3. CASE inspect BY <2>3, InspectLoop
    <2>4. CASE read_position BY <2>4, ReadLoop
    <2>5. CASE hold BY <2>5, HoldStep
    <2>6. CASE enable_torque BY <2>6, TorqueLoop
    <2>7. CASE startup_tick \/ startup_done \/ timeout_callback
      BY <2>7, RunKeepsBringUp DEF startup_tick, startup_done, timeout_callback, has_goal
    <2>8. ASSUME NEW m \in Angles, dds_callback(m) PROVE BringUp' /\ HoldAtFirst'
      BY <2>8, FrameKeepsBringUp DEF dds_callback, hardware, locals
    <2>9. CASE OperatorShutdown \/ ServoAdvance
      BY <2>9, FrameKeepsBringUp DEF OperatorShutdown, ServoAdvance, hardware, locals
    <2>10. CASE Destructor \/ torque_off_all \/ StopsWithoutShutdown
      BY <2>10, DownHoldsAllNext DEF Destructor, torque_off_all, StopsWithoutShutdown
    <2>11. ASSUME NEW b \in {"good", "noisy", "unplugged"}, BusChanges(b)
           PROVE  BringUp' /\ HoldAtFirst'
      BY <2>11, FrameKeepsBringUp DEF BusChanges, hardware, locals
    <2>12. ASSUME NEW i \in Servos, NEW l \in Level, TurnedByHand(i, l)
           PROVE  BringUp' /\ HoldAtFirst'
      BY <2>12, DownHoldsAllNext DEF TurnedByHand
    <2>13. CASE UNCHANGED servo_vars
      BY <2>13, FrameKeepsBringUp DEF servo_vars, hardware, locals
    <2> QED BY <2>1, <2>2, <2>3, <2>4, <2>5, <2>6, <2>7, <2>8, <2>9, <2>10, <2>11,
               <2>12, <2>13 DEF ServoNext
  <1>3. ClosingIsShutdown'
    <2>1. CASE phase' # "closing" BY <2>1 DEF ClosingIsShutdown
    <2>2. CASE Destructor BY <2>2 DEF Destructor, ClosingIsShutdown
    <2>3. CASE UNCHANGED <<phase, ok>>
      BY <2>3 DEF BringUpInv, ClosingIsShutdown
    <2>4. phase' # "closing" \/ Destructor \/ UNCHANGED <<phase, ok>>
      <3>1. CASE Start BY <3>1 DEF Start
      <3>2. CASE ping \/ inspect \/ watchdog_and_gains \/ read_position \/ hold
                   \/ enable_torque
        BY <3>2 DEF ping, inspect, watchdog_and_gains, read_position, hold,
           enable_torque, NextServo, InitFails
      <3>3. CASE startup_tick \/ startup_done \/ timeout_callback
        BY <3>3 DEF startup_tick, startup_done, timeout_callback
      <3>4. ASSUME NEW m \in Angles, dds_callback(m) PROVE UNCHANGED <<phase, ok>>
        BY <3>4 DEF dds_callback
      <3>5. CASE OperatorShutdown \/ torque_off_all \/ StopsWithoutShutdown \/ ServoAdvance
        BY <3>5 DEF OperatorShutdown, torque_off_all, StopsWithoutShutdown, ServoAdvance
      <3>6. ASSUME NEW b \in {"good", "noisy", "unplugged"}, BusChanges(b)
            PROVE  UNCHANGED <<phase, ok>>
        BY <3>6 DEF BusChanges
      <3>7. ASSUME NEW i \in Servos, NEW l \in Level, TurnedByHand(i, l)
            PROVE  UNCHANGED <<phase, ok>>
        BY <3>7 DEF TurnedByHand
      <3>8. CASE UNCHANGED servo_vars BY <3>8 DEF servo_vars
      <3> QED BY <3>1, <3>2, <3>3, <3>4, <3>5, <3>6, <3>7, <3>8 DEF ServoNext
    <2> QED BY <2>1, <2>2, <2>3, <2>4
  <1> QED BY <1>1, <1>2, <1>3 DEF BringUpInv

\* What each loop of initial_setting has achieved holds in every reachable state.
THEOREM BringUpAlways == ServoSpec => []BringUpInv
  <1>1. ServoInit => BringUpInv
    BY InitType, DownHoldsAll DEF ServoInit, BringUpInv, ClosingIsShutdown
  <1> QED BY <1>1, BringUpStep, PTL DEF ServoSpec

\* Once bring-up has finished every servo is under torque, in position mode and
\* free of hardware errors, whatever failed or was restarted before.
THEOREM ReadyServosAlways == ServoSpec => []ReadyServos
  <1>1. BringUpInv => ReadyServos
    BY DEF BringUpInv, BringUp, Inspected, Torqued, ReadyServos
  <1> QED BY <1>1, BringUpAlways, PTL

\* Only torque_off_all and enable_torque write torque enable.
LEMMA TorqueWriters ==
    ASSUME [ServoNext]_servo_vars, ~enable_torque, ~torque_off_all
    PROVE  torque' = torque
  <1>1. CASE Start \/ ping \/ inspect \/ watchdog_and_gains \/ read_position \/ hold
    BY <1>1 DEF Start, ping, inspect, watchdog_and_gains, read_position, hold, hardware
  <1>2. CASE startup_tick \/ startup_done \/ timeout_callback \/ OperatorShutdown
               \/ Destructor \/ StopsWithoutShutdown \/ ServoAdvance
    BY <1>2 DEF startup_tick, startup_done, timeout_callback, OperatorShutdown,
       Destructor, StopsWithoutShutdown, ServoAdvance, hardware
  <1>3. ASSUME NEW m \in Angles, dds_callback(m) PROVE torque' = torque
    BY <1>3 DEF dds_callback, hardware
  <1>4. ASSUME NEW b \in {"good", "noisy", "unplugged"}, BusChanges(b)
        PROVE  torque' = torque
    BY <1>4 DEF BusChanges, hardware
  <1>5. ASSUME NEW i \in Servos, NEW l \in Level, TurnedByHand(i, l)
        PROVE  torque' = torque
    BY <1>5 DEF TurnedByHand
  <1>6. CASE UNCHANGED servo_vars BY <1>6 DEF servo_vars, hardware
  <1> QED BY <1>1, <1>2, <1>3, <1>4, <1>5, <1>6 DEF ServoNext

\* Whatever fails, is killed or restarted, torque goes off only in the destructor
\* of an operator shutdown.
THEOREM TorqueKeptAlways == ServoSpec => TorqueKept
  <1> DEFINE Kept ==
        \A i \in Servos : torque[i] /\ ~torque'[i] => phase = "closing" /\ ~ok
  <1>1. ASSUME BringUpInv, [ServoNext]_servo_vars PROVE Kept
    <2>1. CASE torque_off_all
      BY <1>1, <2>1 DEF torque_off_all, BringUpInv, ClosingIsShutdown
    <2>2. CASE enable_torque
      <3>1. UNCHANGED <<torque, position>> \/ TorqueOn(idx)
        BY <2>2 DEF enable_torque
      <3> QED BY <1>1, <3>1 DEF TorqueOn, BringUpInv, ServoTypeOK
    <2> QED BY <1>1, <2>1, <2>2, TorqueWriters
  <1>2. BringUpInv /\ [ServoNext]_servo_vars => [Kept]_servo_vars
    BY <1>1
  <1> QED BY <1>2, BringUpAlways, PTL DEF ServoSpec, TorqueKept

\* A servo that gets torque, and took the goal of hold, is told to stay where its
\* shaft is, whatever goal an earlier run left in its register.
THEOREM TorqueOnWithoutJumpAlways == ServoSpec => TorqueOnWithoutJump
  <1> DEFINE InPlace ==
        \A i \in Servos :
            ~torque[i] /\ torque'[i] => i \in missed \/ goal[i] = position[i]
  <1>1. ASSUME BringUpInv, [ServoNext]_servo_vars PROVE InPlace
    <2>1. CASE enable_torque
      <3>1. phase = "init" /\ step = "torque"
        BY <2>1 DEF enable_torque
      <3>2. \A i \in Servos :
              /\ ~torque[i] => initial_ppr[i] = position[i]
              /\ i \in missed \/ goal[i] = initial_ppr[i]
        BY <1>1, <3>1 DEF BringUpInv, BringUp, Measured
      <3> QED BY <3>2
    <2>2. CASE torque_off_all
      <3>1. UNCHANGED torque \/ torque' = [torque EXCEPT ![idx] = FALSE]
        BY <2>2 DEF torque_off_all
      <3> QED BY <1>1, <3>1 DEF BringUpInv, ServoTypeOK
    <2> QED BY <1>1, <2>1, <2>2, TorqueWriters
  <1>2. BringUpInv /\ [ServoNext]_servo_vars => [InPlace]_servo_vars
    BY <1>1
  <1> QED BY <1>2, BringUpAlways, PTL DEF ServoSpec, TorqueOnWithoutJump

-----------------------------------------------------------------------------
(* The goal repeated to the servos, and the report of the destructor. *)

\* A step that leaves commands, filter and return alone keeps them in agreement,
\* unless a new process begins.
LEMMA FrameKeepsGoal ==
    ASSUME GoalInv,
           UNCHANGED <<servo_lpf, latest_goal, have_goal, returning_to_zero,
                       zero_return_complete>>,
           phase' = phase \/ phase' \in {"down", "run", "closing"}
    PROVE  GoalInv'
  BY DEF GoalInv, GoalTracksFilter

\* Every step keeps the repeated goal and the filter together.
LEMMA GoalStep == ServoTypeOK /\ GoalInv /\ [ServoNext]_servo_vars => GoalInv'
  <1> SUFFICES ASSUME ServoTypeOK, GoalInv, [ServoNext]_servo_vars PROVE GoalInv'
    OBVIOUS
  <1> USE DEF return_state
  <1>1. CASE Start
    BY <1>1 DEF Start, GoalInv, GoalTracksFilter
  <1>2. CASE ping \/ inspect \/ watchdog_and_gains \/ read_position \/ hold
    BY <1>2, FrameKeepsGoal DEF ping, inspect, watchdog_and_gains, read_position, hold,
       NextServo, InitFails, InitUnchanged
  <1>3. CASE enable_torque \/ startup_tick \/ startup_done
    <2>1. /\ ~have_goal /\ UNCHANGED <<have_goal, returning_to_zero, zero_return_complete>>
      BY <1>3 DEF enable_torque, startup_tick, startup_done, GoalInv
    <2> QED BY <2>1 DEF GoalInv, GoalTracksFilter
  <1>4. ASSUME NEW m \in Angles, dds_callback(m) PROVE GoalInv'
    BY <1>4 DEF dds_callback, GoalInv, GoalTracksFilter
  <1>5. CASE timeout_callback
    <2>1. have_goal' /\ phase' = "run"
      BY <1>5 DEF timeout_callback, has_goal
    <2>2. CASE return_step
      BY <2>1, <2>2 DEF return_step, outage, GoalInv, GoalTracksFilter
    <2>3. CASE return_finish
      BY <2>1, <2>3 DEF return_finish, GoalInv, GoalTracksFilter
    <2>4. CASE UNCHANGED <<servo_lpf, latest_goal, return_state, return_elapsed>>
      BY <1>5, <2>1, <2>4, FrameKeepsGoal DEF timeout_callback
    <2> QED BY <1>5, <2>2, <2>3, <2>4 DEF timeout_callback
  <1>6. CASE OperatorShutdown \/ Destructor \/ torque_off_all \/ StopsWithoutShutdown
               \/ ServoAdvance
    BY <1>6, FrameKeepsGoal DEF OperatorShutdown, Destructor, torque_off_all,
       StopsWithoutShutdown, ServoAdvance
  <1>7. ASSUME NEW b \in {"good", "noisy", "unplugged"}, BusChanges(b) PROVE GoalInv'
    BY <1>7, FrameKeepsGoal DEF BusChanges
  <1>8. ASSUME NEW i \in Servos, NEW l \in Level, TurnedByHand(i, l) PROVE GoalInv'
    BY <1>8, FrameKeepsGoal DEF TurnedByHand
  <1>9. CASE UNCHANGED servo_vars BY <1>9, FrameKeepsGoal DEF servo_vars
  <1> QED BY <1>1, <1>2, <1>3, <1>4, <1>5, <1>6, <1>7, <1>8, <1>9 DEF ServoNext

\* The goal repeated to the servos and the filter an outage return starts from
\* never drift apart, and a completed return means neutral.
THEOREM GoalTracksFilterAlways == ServoSpec => []GoalTracksFilter
  <1>1. ServoInit => GoalInv BY DEF ServoInit, GoalInv, GoalTracksFilter
  <1>2. GoalInv => GoalTracksFilter BY DEF GoalInv
  <1> QED BY <1>1, <1>2, TypeCorrect, GoalStep, PTL DEF ServoSpec

\* A step that leaves the report alone keeps it true, if torque does not change
\* and it is not the start of a shutdown.
LEMMA FrameKeepsReport ==
    ASSUME ReportInv, UNCHANGED <<torque, shutdown_report>>,
           \/ UNCHANGED <<phase, idx>>
           \/ /\ phase \in {"init", "startup", "run"}
              /\ phase' \in {"init", "startup", "run", "down"}
    PROVE  ReportInv'
  BY DEF ReportInv, ShutdownReportTrue

\* Every step keeps the report of the destructor true.
LEMMA ReportStep == ServoTypeOK /\ ReportInv /\ [ServoNext]_servo_vars => ReportInv'
  <1> SUFFICES ASSUME ServoTypeOK, ReportInv, [ServoNext]_servo_vars PROVE ReportInv'
    OBVIOUS
  <1> USE DEF hardware, locals
  <1>1. CASE Start \/ StopsWithoutShutdown
    BY <1>1 DEF Start, StopsWithoutShutdown, ReportInv, ShutdownReportTrue
  <1>2. CASE ping \/ inspect \/ watchdog_and_gains \/ read_position \/ hold
    BY <1>2, FrameKeepsReport DEF ping, inspect, watchdog_and_gains, read_position,
       hold, NextServo, InitFails, InitUnchanged
  <1>3. CASE enable_torque
    BY <1>3 DEF enable_torque, InitFails, ReportInv, ShutdownReportTrue
  <1>4. CASE startup_tick \/ startup_done \/ timeout_callback \/ OperatorShutdown
               \/ ServoAdvance
    BY <1>4, FrameKeepsReport DEF startup_tick, startup_done, timeout_callback,
       has_goal, OperatorShutdown, ServoAdvance
  <1>5. CASE Destructor
    BY <1>5 DEF Destructor, ReportInv, ShutdownReportTrue, Servos
  <1>6. CASE torque_off_all
    <2>1. CASE shutdown_report' = "failed"
      BY <1>6, <2>1 DEF torque_off_all, ReportInv, ShutdownReportTrue
    <2>2. CASE shutdown_report' # "failed"
      <3>1. /\ phase = "closing" /\ UNCHANGED shutdown_report
            /\ torque' = [torque EXCEPT ![idx] = FALSE]
        BY <1>6, <2>2 DEF torque_off_all
      <3>2. ASSUME NEW i \in Servos, shutdown_report = "disabled", i < idx \/ i = idx
            PROVE  ~torque'[i]
        BY <3>1, <3>2 DEF ReportInv, ServoTypeOK
      <3>3. CASE idx < N
        <4>1. idx' = idx + 1 /\ phase' = "closing"
          BY <1>6, <3>1, <3>3 DEF torque_off_all
        <4>2. \A i \in Servos : i < idx' => i < idx \/ i = idx
          BY <4>1, ServoAssumption DEF ServoTypeOK, Servos
        <4> QED BY <3>1, <3>2, <4>1, <4>2 DEF ReportInv, ShutdownReportTrue
      <3>4. CASE ~(idx < N)
        <4>1. phase' = "down"
          BY <1>6, <3>4 DEF torque_off_all
        <4>2. \A i \in Servos : i < idx \/ i = idx
          BY <3>4, ServoAssumption DEF ServoTypeOK, Servos
        <4> QED BY <3>1, <3>2, <4>1, <4>2 DEF ReportInv, ShutdownReportTrue
      <3> QED BY <3>3, <3>4
    <2> QED BY <2>1, <2>2
  <1>7. ASSUME NEW m \in Angles, dds_callback(m) PROVE ReportInv'
    BY <1>7, FrameKeepsReport DEF dds_callback
  <1>8. ASSUME NEW b \in {"good", "noisy", "unplugged"}, BusChanges(b) PROVE ReportInv'
    BY <1>8, FrameKeepsReport DEF BusChanges
  <1>9. ASSUME NEW i \in Servos, NEW l \in Level, TurnedByHand(i, l) PROVE ReportInv'
    BY <1>9, FrameKeepsReport DEF TurnedByHand
  <1>10. CASE UNCHANGED servo_vars BY <1>10, FrameKeepsReport DEF servo_vars
  <1> QED BY <1>1, <1>2, <1>3, <1>4, <1>5, <1>6, <1>7, <1>8, <1>9, <1>10 DEF ServoNext

\* The destructor logs "torque disabled" only if no servo is left under torque.
THEOREM ShutdownReportTrueAlways == ServoSpec => []ShutdownReportTrue
  <1>1. ServoInit => ReportInv BY DEF ServoInit, ReportInv, ShutdownReportTrue
  <1>2. ReportInv => ShutdownReportTrue BY DEF ReportInv
  <1> QED BY <1>1, <1>2, TypeCorrect, ReportStep, PTL DEF ServoSpec

\* What holds of the servo node at every moment, in one formula: how far
\* bring-up and shutdown have got, the readiness of servos in use, the goal
\* that the filter follows, and the truth of the shutdown's report.
THEOREM ServoAlwaysSafe == ServoSpec => []ServoInv
  <1>1. ServoInit => GoalInv /\ ReportInv
    BY DEF ServoInit, GoalInv, GoalTracksFilter, ReportInv, ShutdownReportTrue
  <1>2. BringUpInv /\ ReadyServos /\ GoalInv /\ ReportInv => ServoInv BY DEF ServoInv
  <1> QED
    BY <1>1, <1>2, BringUpAlways, ReadyServosAlways, TypeCorrect, GoalStep, ReportStep, PTL
       DEF ServoSpec
=============================================================================
