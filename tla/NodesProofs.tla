----------------------------- MODULE NodesProofs -----------------------------
(***************************************************************************)
(* The nodes that watch their inputs, the bridges and the command node,    *)
(* for any number of topics and joints, any limits and any timing: what    *)
(* they report is true, what they forward is new, what they command is     *)
(* consistent, and the command node hands back exactly when it should.     *)
(***************************************************************************)
EXTENDS Nodes, TLAPS

-----------------------------------------------------------------------------
(* The input diagnostics of the command node                               *)

MonitorIInv == MonitorTypeOK /\ ReportsAreTrue

\* A message of a topic answers its TIMEOUT line.
LEMMA CallbackKeepsReports ==
    ASSUME MonitorIInv, NEW t \in Topics, callback(t)
    PROVE  MonitorIInv'
  <1> USE DEF MonitorIInv, callback, note_input
  <1>1. \A u \in Topics : /\ missing'[u] = IF u = t THEN FALSE ELSE missing[u]
                          /\ age'[u] = IF u = t THEN 0 ELSE age[u]
                          /\ open_reports'[u] = IF u = t THEN 0 ELSE open_reports[u]
    BY DEF MonitorTypeOK, ReportsAreTrue
  <1>2. open_reports' \in [Topics -> 0..1]
    BY <1>1 DEF MonitorTypeOK
  <1>3. age' \in [Topics -> 0..Timeout]
    BY MonitorAssumption DEF MonitorTypeOK
  <1>4. received' \in [Topics -> BOOLEAN] /\ missing' \in [Topics -> BOOLEAN]
    BY DEF MonitorTypeOK
  <1>5. warned' \in BOOLEAN
    OBVIOUS
  <1>6. ReportsAreTrue'
    BY <1>1, MonitorAssumption DEF ReportsAreTrue, MonitorTypeOK
  <1> QED BY <1>2, <1>3, <1>4, <1>5, <1>6 DEF MonitorTypeOK

\* The timer reports each topic that is overdue and was not reported.
LEMMA CheckKeepsReports ==
    ASSUME MonitorIInv, check_inputs
    PROVE  MonitorIInv'
  <1> USE DEF MonitorIInv, check_inputs, check_input
  <1>1. open_reports' \in [Topics -> 0..1]
    BY DEF MonitorTypeOK, ReportsAreTrue
  <1>2. missing' \in [Topics -> BOOLEAN]
    OBVIOUS
  <1>3. ASSUME NEW t \in Topics
        PROVE  (missing'[t] <=> open_reports'[t] = 1) /\ (missing'[t] => age'[t] >= Timeout)
    <2>1. missing'[t] <=> (missing[t] \/ check_input(t))
      BY DEF MonitorTypeOK
    <2>2. open_reports'[t] = open_reports[t] + IF check_input(t) THEN 1 ELSE 0
      OBVIOUS
    <2>3. open_reports[t] \in 0..1 /\ (missing[t] <=> open_reports[t] = 1) /\ age' = age
      BY DEF MonitorTypeOK, ReportsAreTrue
    <2>4. CASE check_input(t)
      BY <2>1, <2>2, <2>3, <2>4
    <2>5. CASE ~check_input(t)
      BY <2>1, <2>2, <2>3, <2>5 DEF ReportsAreTrue
    <2> QED BY <2>4, <2>5
  <1>4. ReportsAreTrue'
    BY <1>3 DEF ReportsAreTrue
  <1> QED BY <1>1, <1>2, <1>4 DEF MonitorTypeOK

\* Ages grow up to the timeout, and reported topics are there already.
LEMMA AdvanceKeepsReports ==
    ASSUME MonitorIInv, MonitorAdvance
    PROVE  MonitorIInv'
  <1> USE DEF MonitorIInv, MonitorAdvance, AgeGrown
  <1>1. age' \in [Topics -> 0..Timeout]
    BY MonitorAssumption DEF MonitorTypeOK
  <1>2. ReportsAreTrue'
    BY MonitorAssumption DEF ReportsAreTrue, MonitorTypeOK
  <1> QED BY <1>1, <1>2 DEF MonitorTypeOK

LEMMA MonitorInvariant == MonitorInit /\ [][MonitorNext]_monitor_vars => []MonitorIInv
  <1>1. MonitorInit => MonitorIInv
    <2> SUFFICES ASSUME MonitorInit PROVE MonitorIInv
      OBVIOUS
    <2>1. age \in [Topics -> 0..Timeout] /\ open_reports \in [Topics -> 0..1]
      BY MonitorAssumption DEF MonitorInit
    <2>2. received \in [Topics -> BOOLEAN] /\ missing \in [Topics -> BOOLEAN] /\ warned \in BOOLEAN
      BY DEF MonitorInit
    <2>3. ReportsAreTrue
      BY DEF MonitorInit, ReportsAreTrue
    <2> QED BY <2>1, <2>2, <2>3 DEF MonitorIInv, MonitorTypeOK
  <1>2. MonitorIInv /\ [MonitorNext]_monitor_vars => MonitorIInv'
    <2>1. MonitorIInv /\ UNCHANGED monitor_vars => MonitorIInv'
      BY DEF MonitorIInv, MonitorTypeOK, ReportsAreTrue, monitor_vars
    <2> QED BY <2>1, CallbackKeepsReports, CheckKeepsReports, AdvanceKeepsReports DEF MonitorNext
  <1> QED BY <1>1, <1>2, PTL

\* An outage that was reported ends with a warning of the gap, since no
\* topic's gap limit exceeds the timeout (note_input).
THEOREM RecoveryAlwaysWarns == MonitorSpec => RecoveryWarnsOfGap
  <1>1. MonitorIInv /\ [MonitorNext]_monitor_vars
          => [\A t \in Topics : received[t] /\ missing[t] /\ ~missing'[t] => warned']_monitor_vars
    <2> SUFFICES ASSUME MonitorIInv, MonitorNext, NEW t \in Topics,
                        received[t], missing[t], ~missing'[t]
                 PROVE  warned'
      BY DEF monitor_vars
    <2>1. CASE \E u \in Topics : callback(u)
      <3>1. PICK u \in Topics : callback(u)
        BY <2>1
      <3>2. u = t
        BY <3>1 DEF callback, note_input, MonitorIInv, MonitorTypeOK
      <3>3. age[t] >= GapLimit[t]
        BY MonitorAssumption DEF MonitorIInv, MonitorTypeOK, ReportsAreTrue
      <3> QED BY <3>1, <3>2, <3>3 DEF callback, note_input
    <2>2. CASE check_inputs
      BY <2>2 DEF check_inputs
    <2>3. CASE MonitorAdvance
      BY <2>3 DEF MonitorAdvance
    <2> QED BY <2>1, <2>2, <2>3 DEF MonitorNext
  <1> QED BY MonitorInvariant, <1>1, PTL DEF MonitorSpec, RecoveryWarnsOfGap

-----------------------------------------------------------------------------
(* The motion-capture bridge                                               *)

\* The pending sample is the newest one, and was not forwarded.
PendingIsNew == pending # 0 => pending = samples /\ pending > forwarded

MocapIInv == MocapTypeOK /\ MocapReportsAreTrue /\ PendingIsNew

LEMMA MocapStep == MocapIInv /\ MocapNext => MocapIInv'
  <1> SUFFICES ASSUME MocapIInv, MocapNext PROVE MocapIInv'
    OBVIOUS
  <1> USE MocapAssumption DEF MocapIInv, MocapTypeOK, MocapReportsAreTrue, PendingIsNew,
          AgeCap, Least
  <1>1. ASSUME NEW good \in BOOLEAN, NEW stamp \in {BadStamp} \cup 0..MaxStampAge,
               onMocap(good, stamp)
        PROVE  MocapIInv'
    <2>1. input_age' = 0 /\ ~input_missing' /\ has_input' /\ odometry_out' = 0
      BY <1>1 DEF onMocap, note_pose
    <2>2. open_timeouts' = 0
      BY <1>1 DEF onMocap, note_pose
    <2>3. has_input' \in BOOLEAN /\ input_missing' \in BOOLEAN
      BY <1>1 DEF onMocap, note_pose
    <2>4. CASE UNCHANGED <<pending, sample_age, samples>>
      BY <1>1, <2>1, <2>2, <2>3, <2>4 DEF onMocap
    <2>5. CASE /\ samples < MaxSamples /\ samples' = samples + 1 /\ pending' = samples + 1
               /\ sample_age' = measurement_age(stamp)
      <3>1. sample_age' \in -MaxClockStep..AgeCap
        BY <2>5 DEF measurement_age, BadStamp
      <3>2. samples' \in 0..MaxSamples /\ pending' \in 0..samples' /\ forwarded' \in 0..samples'
              /\ odometry_out' \in 0..samples' /\ PendingIsNew'
        BY <1>1, <2>1, <2>5 DEF onMocap
      <3> QED BY <2>1, <2>2, <2>3, <3>1, <3>2
    <2> QED BY <1>1, <2>4, <2>5 DEF onMocap
  <1>2. CASE publishPx4
    <2>1. input_missing' \in BOOLEAN
      BY <1>2 DEF publishPx4
    <2>2. ASSUME input_overdue
          PROVE  open_timeouts' \in 0..1 /\ MocapReportsAreTrue'
      <3>1. input_missing' /\ ~input_missing /\ input_age' >= MissingLimit
        BY <1>2, <2>2 DEF publishPx4, input_overdue
      <3>2. open_timeouts' = 1
        BY <1>2, <2>2, <3>1 DEF publishPx4
      <3> QED BY <3>1, <3>2
    <2>3. ASSUME ~input_overdue
          PROVE  open_timeouts' \in 0..1 /\ MocapReportsAreTrue'
      <3>1. (input_missing' <=> input_missing) /\ input_age' = input_age
        BY <1>2, <2>3 DEF publishPx4
      <3>2. open_timeouts' = open_timeouts
        BY <1>2, <2>3 DEF publishPx4
      <3> QED BY <3>1, <3>2
    <2>4. open_timeouts' \in 0..1 /\ MocapReportsAreTrue'
      BY <2>2, <2>3
    <2> QED BY <1>2, <2>1, <2>4 DEF publishPx4
  <1>3. CASE MocapAdvance
    BY <1>3 DEF MocapAdvance
  <1>4. ASSUME NEW units \in -MaxClockStep..MaxClockStep, MocapClockSet(units)
        PROVE  MocapIInv'
    BY <1>4 DEF MocapClockSet, diagnostics
  <1> QED BY <1>1, <1>2, <1>3, <1>4 DEF MocapNext

LEMMA MocapInvariant == MocapInit /\ [][MocapNext]_mocap_vars => []MocapIInv
  <1>1. MocapInit => MocapIInv
    <2> SUFFICES ASSUME MocapInit PROVE MocapIInv
      OBVIOUS
    <2>1. has_input \in BOOLEAN /\ input_missing \in BOOLEAN /\ ~input_missing
      BY DEF MocapInit
    <2>2. /\ input_age \in 0..MissingLimit /\ samples \in 0..MaxSamples
          /\ sample_age \in -MaxClockStep..AgeCap /\ open_timeouts = 0 /\ open_timeouts \in 0..1
          /\ pending \in 0..samples /\ forwarded \in 0..samples /\ odometry_out \in 0..samples
          /\ PendingIsNew
      BY MocapAssumption DEF MocapInit, AgeCap, PendingIsNew
    <2> QED BY <2>1, <2>2 DEF MocapIInv, MocapTypeOK, MocapReportsAreTrue
  <1>2. MocapIInv /\ UNCHANGED mocap_vars => MocapIInv'
    BY DEF MocapIInv, MocapTypeOK, MocapReportsAreTrue, PendingIsNew, mocap_vars, diagnostics
  <1> QED BY <1>1, <1>2, MocapStep, PTL

\* PX4 gets each pose at most once, only the newest, and in order, however
\* callbacks, ticks and clock steps interleave (onMocap, publishPx4).
THEOREM NewestOnceAlways == MocapSpec => NewestOnce
  <1>1. MocapIInv /\ [MocapNext]_mocap_vars
          => [odometry_out' # 0 => odometry_out' > forwarded /\ odometry_out' = samples]_mocap_vars
    <2> SUFFICES ASSUME MocapIInv, MocapNext, odometry_out' # 0
                 PROVE  odometry_out' > forwarded /\ odometry_out' = samples
      OBVIOUS
    <2>1. publishPx4
      BY DEF MocapNext, onMocap, MocapAdvance, MocapClockSet
    <2> QED BY <2>1 DEF publishPx4, MocapIInv, PendingIsNew
  <1> QED BY MocapInvariant, <1>1, PTL DEF MocapSpec, NewestOnce

\* The TIMEOUT lines of both nodes that watch their inputs are true, and are
\* answered exactly once, for any topics, limits and interleavings
\* (note_input, check_inputs, onMocap, publishPx4).
THEOREM NodeReportsAlwaysTrue == MonitorSpec /\ MocapSpec => []NodeReportsAreTrue
  <1>1. MonitorIInv /\ MocapIInv => NodeReportsAreTrue
    BY DEF MonitorIInv, MocapIInv, NodeReportsAreTrue
  <1> QED BY MonitorInvariant, MocapInvariant, <1>1, PTL DEF MonitorSpec, MocapSpec

-----------------------------------------------------------------------------
(* The simulation bridge                                                   *)

\* A clock set back takes two units at most, each time.
ClockBounds == inactive_time >= -2 * clock_steps /\ gz_return_elapsed >= -2 * clock_steps

GzIInv == JointsInv /\ ClockBounds

\* What a message commands is within the limits.
LEMMA CommandsInRange == Commands \subseteq JointLevel
  <1> SUFFICES ASSUME NEW control \in Received \cup {NonFinite}, NEW wobble \in -1..1
               PROVE  command(control, wobble) \in JointLevel
    BY DEF Commands
  <1> DEFINE normalized == IF control = NonFinite THEN 0 ELSE Clamp(control)
  <1>1. \A x \in Int : Clamp(x) \in JointLevel
    BY GzAssumption DEF Clamp, JointLevel
  <1>2. control \in Int /\ JointLevel \subseteq Int /\ 0 \in JointLevel
    BY GzAssumption DEF Received, NonFinite, JointLevel
  <1>3. normalized \in JointLevel
    BY <1>1, <1>2
  <1>4. Clamp(normalized + wobble) \in JointLevel
    <2>1. normalized \in Int
      BY <1>2, <1>3
    <2> HIDE DEF normalized
    <2>2. normalized + wobble \in Int
      BY <2>1
    <2> QED BY <2>2, <1>1
  <1> QED BY <1>3, <1>4 DEF command

\* Sending one value per control keeps pairs together and publishes what the
\* filter has.
LEMMA SendKeeps ==
    ASSUME GzTypeOK, PairedJointsAgree, NEW c \in [Joints -> JointLevel],
           \A i, j \in Joints : ControlIndex[i] = ControlIndex[j] => c[i] = c[j],
           Send(c), UNCHANGED valid
    PROVE  /\ published' \in [Joints -> JointLevel]
           /\ \A i \in Joints : valid[i] => published'[i] = c[i]
           /\ \A i, j \in Joints : ControlIndex[i] = ControlIndex[j] /\ valid[i] /\ valid[j]
                 => published'[i] = published'[j]
  BY DEF GzTypeOK, Send

\* A time that a clock step takes back stays above two units per step.
LEMMA ElapsedBounded ==
    ASSUME NEW time \in Int, NEW cap \in Nat, NEW units \in {-2, 1, 2}, NEW before \in Nat,
           NEW after \in Nat, after <= MaxClockSteps, before <= after,
           units = -2 => after = before + 1, time >= -2 * before
    PROVE  /\ Capped(time + units, cap) \in -2 * MaxClockSteps..cap
           /\ Capped(time + units, cap) >= -2 * after
  <1>1. time + units \in Int /\ time + units >= -2 * after
    <2>1. CASE units = -2
      BY <2>1
    <2>2. CASE units \in {1, 2}
      BY <2>2
    <2> QED BY <2>1, <2>2
  <1> QED BY <1>1, GzAssumption DEF Capped

LEMMA GzStep == GzIInv /\ GzNext => GzIInv'
  <1> SUFFICES ASSUME GzIInv, GzNext PROVE GzIInv'
    OBVIOUS
  <1> USE DEF GzIInv, JointsInv
  <1>1. ASSUME NEW servos \in [Controls -> Commands], actuatorServosCallback(servos)
        PROVE  GzIInv'
    <2>1. /\ commands(servos) \in [Joints -> JointLevel]
          /\ \A i, j \in Joints :
                ControlIndex[i] = ControlIndex[j] => commands(servos)[i] = commands(servos)[j]
      BY GzAssumption, CommandsInRange DEF commands
    <2>2. /\ published' \in [Joints -> JointLevel]
          /\ \A i \in Joints : valid[i] => published'[i] = commands(servos)[i]
          /\ \A i, j \in Joints : ControlIndex[i] = ControlIndex[j] /\ valid[i] /\ valid[j]
                 => published'[i] = published'[j]
      BY <1>1, <2>1, SendKeeps DEF actuatorServosCallback
    <2>3. GzTypeOK' /\ ClockBounds'
      <3>1. valid' \in [Joints -> BOOLEAN] /\ gz_returning_to_zero' \in BOOLEAN /\ running' \in BOOLEAN
        BY <1>1 DEF actuatorServosCallback, GzTypeOK
      <3>2. gz_servo_lpf' \in [Joints -> JointLevel] /\ published' \in [Joints -> JointLevel]
        BY <1>1, <2>1, <2>2 DEF actuatorServosCallback
      <3>3. /\ inactive_time' \in -2 * MaxClockSteps..ReceiveTimeout
            /\ gz_return_elapsed' \in -2 * MaxClockSteps..GzReturnTime
            /\ clock_steps' \in 0..MaxClockSteps
            /\ ClockBounds'
        BY <1>1, GzAssumption DEF actuatorServosCallback, GzTypeOK, ClockBounds
      <3> QED BY <3>1, <3>2, <3>3 DEF GzTypeOK
    <2>4. PairedJointsAgree' /\ ReturnStartsWhereCommanded'
      BY <1>1, <2>1, <2>2 DEF actuatorServosCallback, PairedJointsAgree, ReturnStartsWhereCommanded
    <2> QED BY <2>3, <2>4
  <1>2. CASE publish_timer
    <2>1. CASE inactive_time < ReceiveTimeout
      <3>1. ~(inactive_time >= ReceiveTimeout)
        BY <2>1, GzAssumption DEF GzTypeOK
      <3>2. gz_returning_to_zero' \in BOOLEAN
            /\ UNCHANGED <<gz_servo_lpf, published, gz_return_elapsed, valid, inactive_time,
                           running, clock_steps>>
        BY <1>2, <3>1 DEF publish_timer
      <3> QED BY <3>2 DEF GzTypeOK, PairedJointsAgree, ReturnStartsWhereCommanded, ClockBounds
    <2>2. CASE ~(inactive_time < ReceiveTimeout)
      <3>1. PICK d \in Decays :
                LET next == [i \in Joints |-> IF return_finished THEN 0 ELSE d[gz_servo_lpf[i]]]
                IN  gz_servo_lpf' = next /\ Send(next)
        BY <1>2, <2>2 DEF publish_timer
      <3> DEFINE next == [i \in Joints |-> IF return_finished THEN 0 ELSE d[gz_servo_lpf[i]]]
      <3>2. next \in [Joints -> JointLevel]
        BY GzAssumption DEF GzTypeOK, Decays, JointLevel
      <3>3. \A i, j \in Joints : ControlIndex[i] = ControlIndex[j] => next[i] = next[j]
        BY DEF PairedJointsAgree
      <3>4. gz_servo_lpf' = next /\ Send(next)
        BY <3>1
      <3> HIDE DEF next
      <3>5. /\ published' \in [Joints -> JointLevel]
            /\ \A i \in Joints : valid[i] => published'[i] = next[i]
            /\ \A i, j \in Joints : ControlIndex[i] = ControlIndex[j] /\ valid[i] /\ valid[j]
                  => published'[i] = published'[j]
        BY <1>2, <3>2, <3>3, <3>4, SendKeeps DEF publish_timer
      <3>6. /\ gz_return_elapsed' \in -2 * MaxClockSteps..GzReturnTime
            /\ gz_return_elapsed' >= -2 * clock_steps
        BY <1>2, <2>2, GzAssumption DEF publish_timer, GzReturnAge, GzTypeOK, ClockBounds
      <3>7. gz_returning_to_zero' \in BOOLEAN
        BY <1>2 DEF publish_timer
      <3>8. GzTypeOK' /\ ClockBounds'
        BY <1>2, <3>2, <3>4, <3>5, <3>6, <3>7 DEF publish_timer, GzTypeOK, ClockBounds
      <3>9. PairedJointsAgree' /\ ReturnStartsWhereCommanded'
        BY <1>2, <3>3, <3>4, <3>5 DEF publish_timer, PairedJointsAgree, ReturnStartsWhereCommanded
      <3> QED BY <3>8, <3>9
    <2> QED BY <2>1, <2>2
  <1>3. CASE GzDestructor
    <2>1. [i \in Joints |-> 0] \in [Joints -> JointLevel]
      BY GzAssumption DEF JointLevel
    <2>2. /\ published' \in [Joints -> JointLevel]
          /\ \A i, j \in Joints : ControlIndex[i] = ControlIndex[j] /\ valid[i] /\ valid[j]
                 => published'[i] = published'[j]
      BY <1>3, <2>1, SendKeeps DEF GzDestructor
    <2> QED BY <1>3, <2>2 DEF GzDestructor, GzTypeOK, PairedJointsAgree,
               ReturnStartsWhereCommanded, ClockBounds, gz_clocks
  <1>4. ASSUME NEW units \in {-2, 1, 2}, Pass(units),
               clock_steps' \in 0..MaxClockSteps,
               units = -2 => clock_steps' = clock_steps + 1, clock_steps' >= clock_steps
        PROVE  GzIInv'
    <2>1. UNCHANGED <<valid, gz_servo_lpf, published, gz_returning_to_zero, running>>
      BY <1>4 DEF Pass
    <2>2. clock_steps \in Nat /\ clock_steps' \in Nat /\ clock_steps' <= MaxClockSteps
      BY <1>4, GzAssumption DEF GzTypeOK
    <2>3. /\ inactive_time' \in -2 * MaxClockSteps..ReceiveTimeout
          /\ gz_return_elapsed' \in -2 * MaxClockSteps..GzReturnTime
          /\ clock_steps' \in 0..MaxClockSteps
          /\ ClockBounds'
      <3>1. /\ inactive_time \in Int /\ inactive_time >= -2 * clock_steps
            /\ gz_return_elapsed \in Int /\ gz_return_elapsed >= -2 * clock_steps
        BY DEF GzTypeOK, ClockBounds
      <3>2. /\ Capped(inactive_time + units, ReceiveTimeout) \in -2 * MaxClockSteps..ReceiveTimeout
            /\ Capped(inactive_time + units, ReceiveTimeout) >= -2 * clock_steps'
        BY <1>4, <2>2, <3>1, GzAssumption, ElapsedBounded
      <3>3. /\ Capped(gz_return_elapsed + units, GzReturnTime) \in -2 * MaxClockSteps..GzReturnTime
            /\ Capped(gz_return_elapsed + units, GzReturnTime) >= -2 * clock_steps'
        BY <1>4, <2>2, <3>1, GzAssumption, ElapsedBounded
      <3> QED BY <1>4, <3>2, <3>3 DEF Pass, ClockBounds
    <2> QED BY <2>1, <2>3 DEF GzTypeOK, PairedJointsAgree, ReturnStartsWhereCommanded
  <1>5. CASE GzAdvance
    BY <1>4, <1>5 DEF GzAdvance, GzTypeOK
  <1>6. ASSUME NEW units \in {-2, 2}, GzClockSet(units)
        PROVE  GzIInv'
    BY <1>4, <1>6, GzAssumption DEF GzClockSet, GzTypeOK
  <1> QED BY <1>1, <1>2, <1>3, <1>5, <1>6 DEF GzNext

\* Joints of one control stay together, within their limits, and a return to
\* zero starts from what the joints were told, for any joints, limits and
\* clock steps (actuatorServosCallback, the timer, the destructor).
THEOREM JointsAlwaysAgree == GzSpec => []JointsInv
  <1>1. GzInit => GzIInv
    <2> SUFFICES ASSUME GzInit PROVE GzIInv
      OBVIOUS
    <2>1. gz_servo_lpf \in [Joints -> JointLevel] /\ published \in [Joints -> JointLevel]
      BY GzAssumption DEF GzInit, JointLevel
    <2>2. GzTypeOK /\ ClockBounds
      <3>1. /\ inactive_time \in -2 * MaxClockSteps..ReceiveTimeout
            /\ gz_return_elapsed \in -2 * MaxClockSteps..GzReturnTime
            /\ clock_steps \in 0..MaxClockSteps
            /\ ClockBounds
        BY GzAssumption DEF GzInit, ClockBounds
      <3>2. valid \in [Joints -> BOOLEAN] /\ gz_returning_to_zero \in BOOLEAN /\ running \in BOOLEAN
        BY DEF GzInit
      <3> QED BY <2>1, <3>1, <3>2 DEF GzTypeOK
    <2> QED BY <2>2 DEF GzInit, GzIInv, JointsInv, PairedJointsAgree, ReturnStartsWhereCommanded
  <1>2. GzIInv /\ UNCHANGED gz_vars => GzIInv'
    BY DEF GzIInv, JointsInv, GzTypeOK, ClockBounds, PairedJointsAgree,
       ReturnStartsWhereCommanded, gz_vars, gz_clocks
  <1>3. GzIInv => JointsInv
    BY DEF GzIInv
  <1> QED BY <1>1, <1>2, <1>3, GzStep, PTL DEF GzSpec

-----------------------------------------------------------------------------
(* The command node.  The inductive invariant is TypeOK together with      *)
(* EdgeNotMissed: the node hands back exactly when it streams only because *)
(* the edge detector's memory is TRUE in every streaming mode.             *)

\* Saturating counters stay within their cap.
LEMMA AgedRange ==
    ASSUME NEW cap \in Nat, NEW n \in 0..cap
    PROVE  Aged(n, cap) \in 0..cap
  BY DEF Aged

\* The caps are natural numbers, and an age of zero is below every cap.
LEMMA Caps ==
    /\ Stale \in Nat /\ ArmRepeat \in Nat /\ CommandRepeat \in Nat
    /\ CommandDelay \in Nat /\ Far \in Nat
    /\ 0 \in 0..Stale /\ 0 \in 0..ArmRepeat /\ 0 \in 0..CommandRepeat
  BY TimingAssumption DEF Stale, ArmRepeat

\* What a tick publishes is a well-formed output.
LEMMA PublishType ==
    ASSUME NEW s \in {"none", "handoff", "path"},
           NEW c \in {"none", "offboard", "arm", "posctl"},
           Publish(s, c)
    PROVE  out' \in Output
  BY DEF Publish, Output

\* Publishing nothing is a well-formed output too.
LEMMA NothingType ==
    /\ Nothing \in Output
    /\ [Nothing EXCEPT !.command = "posctl"] \in Output
  BY DEF Nothing, Output

\* Starting a handoff seeds the filters within the distance range.
LEMMA StartType ==
    ASSUME TypeOK, start_RC2DDS_handoff
    PROVE  control_mode' \in ControlMode /\ last_target' \in 0..Far
<1>1. local_position.dist \in 0..Far
  <2>1. CASE local_position = [valid |-> FALSE, dist |-> 0]
    BY <2>1, Caps
  <2>2. CASE local_position \in [valid : {TRUE}, dist : 0..Far]
    BY <2>2
  <2> QED  BY <2>1, <2>2 DEF TypeOK, LocalPosition
<1> QED
  BY <1>1, Caps DEF start_RC2DDS_handoff, ControlMode

HandlerType ==
    /\ control_mode' \in ControlMode
    /\ since_offboard_request' \in 0..CommandRepeat
    /\ since_arm_request' \in 0..ArmRepeat
    /\ last_target' \in 0..Far
    /\ out' \in Output

\* wait_arm leaves mode, request timers, target and output well typed.
LEMMA WaitArmType ==
    ASSUME TypeOK, wait_arm
    PROVE  HandlerType
<1>1. CASE arm_not_ready
  BY <1>1, PublishType, Caps
     DEF TypeOK, wait_arm, HandlerType, ControlMode, requests
<1>2. CASE ~arm_not_ready
  BY <1>2, PublishType, StartType
     DEF TypeOK, wait_arm, HandlerType, requests
<1> QED  BY <1>1, <1>2

\* So does wait_offboard, which falls through to wait_arm.
LEMMA WaitOffboardType ==
    ASSUME TypeOK, wait_offboard
    PROVE  HandlerType
<1>1. CASE wait_arm
  BY <1>1, WaitArmType
<1>2. CASE ~wait_arm
  BY <1>2, PublishType, Caps
     DEF TypeOK, wait_offboard, HandlerType, ControlMode, requests
<1> QED  BY <1>1, <1>2

\* So does every handler on_tick dispatches to.
LEMMA DispatchType ==
    ASSUME TypeOK, Dispatch
    PROVE  HandlerType
<1>1. CASE wait_offboard
  BY <1>1, WaitOffboardType
<1>2. CASE wait_arm
  BY <1>2, WaitArmType
<1>3. CASE RC2DDS_handoff
  BY <1>3, PublishType, Caps
     DEF TypeOK, RC2DDS_handoff, HandlerType, ControlMode, requests
<1>4. CASE path_active
  BY <1>4, PublishType
     DEF TypeOK, path_active, HandlerType, ControlMode, requests
<1> QED  BY <1>1, <1>2, <1>3, <1>4 DEF Dispatch

\* A tick preserves type correctness.
LEMMA TickType ==
    ASSUME TypeOK, on_tick
    PROVE  TypeOK'
<1>1. HandlerType
  <2>1. CASE dds_disabled
    BY <2>1, NothingType
       DEF TypeOK, dds_disabled, switch_to_position_control, HandlerType,
           ControlMode, requests
  <2>2. CASE status_lost
    BY <2>2, PublishType
       DEF TypeOK, status_lost, HandlerType, ControlMode, requests
  <2>3. CASE Dispatch
    BY <2>3, DispatchType
  <2> QED  BY <2>1, <2>2, <2>3 DEF on_tick
<1>2. previous_dds_control_enabled' \in BOOLEAN
  BY DEF on_tick, dds_control_enabled
<1>3. UNCHANGED <<params, inputs, elapsed>>
  BY DEF on_tick
<1> QED
  BY <1>1, <1>2, <1>3 DEF TypeOK, HandlerType, params, inputs

\* Every step, or a stutter, preserves type correctness.
LEMMA NextType ==
    ASSUME TypeOK, [Next]_vars
    PROVE  TypeOK'
<1>1. CASE on_tick
  BY <1>1, TickType
<1>2. ASSUME NEW source \in HummingbirdStatus, controller_mode_callback(source)
      PROVE  TypeOK'
  BY <1>2, Caps, NothingType
     DEF TypeOK, controller_mode_callback, params, requests
<1>3. ASSUME NEW place \in LocalPosition, local_position_callback(place)
      PROVE  TypeOK'
  BY <1>3, Caps, NothingType
     DEF TypeOK, local_position_callback, params, requests
<1>4. ASSUME NEW level \in BOOLEAN, vehicle_attitude_callback(level)
      PROVE  TypeOK'
  BY <1>4, Caps, NothingType
     DEF TypeOK, vehicle_attitude_callback, params, requests
<1>5. ASSUME NEW status \in VehicleStatus, vehicle_status_callback(status)
      PROVE  TypeOK'
  BY <1>5, Caps, NothingType
     DEF TypeOK, vehicle_status_callback, params, requests
<1>6. CASE Advance
  BY <1>6, Caps, AgedRange, NothingType DEF TypeOK, Advance, params
<1>7. CASE UNCHANGED vars
  BY <1>7 DEF TypeOK, vars, params, inputs, requests
<1> QED
  BY <1>1, <1>2, <1>3, <1>4, <1>5, <1>6, <1>7 DEF Next

\* The state the constructor leaves is well typed.
LEMMA InitType == Init => TypeOK
<1> SUFFICES ASSUME Init PROVE TypeOK
  OBVIOUS
<1>1. /\ local_position \in LocalPosition
      /\ vehicle_status \in VehicleStatus
      /\ out \in Output
  BY NothingType DEF Init, LocalPosition, VehicleStatus
<1>2. /\ hb_age \in 0..Stale /\ lpos_age \in 0..Stale
      /\ att_age \in 0..Stale /\ stat_age \in 0..Stale
      /\ elapsed \in 0..CommandDelay
      /\ since_offboard_request \in 0..CommandRepeat
      /\ since_arm_request \in 0..ArmRepeat
      /\ last_target \in 0..Far
  BY Caps DEF Init
<1>3. /\ auto_offboard \in BOOLEAN /\ auto_arm \in BOOLEAN
      /\ previous_dds_control_enabled \in BOOLEAN
      /\ attitude_level \in BOOLEAN
  BY DEF Init
<1>4. control_mode \in ControlMode /\ hb_cmd_source \in HummingbirdStatus
  BY DEF Init, ControlMode, HummingbirdStatus
<1> QED  BY <1>1, <1>2, <1>3, <1>4 DEF TypeOK

\* Every reachable state of the node is well typed, with all clocks in range.
THEOREM TypeCorrect == Spec => []TypeOK
<1>1. Init => TypeOK
  BY InitType
<1>2. TypeOK /\ [Next]_vars => TypeOK'
  BY NextType
<1> QED  BY <1>1, <1>2, PTL DEF Spec

-----------------------------------------------------------------------------
(* Safety *)

\* A step that is not a tick leaves the modes alone and publishes nothing.
LEMMA OnlyTicksAct ==
    ASSUME [Next]_vars, ~on_tick
    PROVE  /\ UNCHANGED <<control_mode, previous_dds_control_enabled, last_target, params>>
           /\ out' = Nothing \/ UNCHANGED vars
  BY DEF Next, vars, controller_mode_callback, local_position_callback,
         vehicle_attitude_callback, vehicle_status_callback, Advance

\* A mode that streams is entered, or stayed in, only by an enabled tick.
LEMMA EdgeStep ==
    ASSUME TypeOK, EdgeNotMissed, [Next]_vars
    PROVE  EdgeNotMissed'
<1>1. CASE on_tick
  <2>1. CASE dds_control_enabled
    BY <1>1, <2>1 DEF on_tick, EdgeNotMissed
  <2>2. CASE ~dds_control_enabled
    BY <1>1, <2>2
       DEF on_tick, dds_disabled, hand_back_due, switch_to_position_control,
           Streaming, EdgeNotMissed
  <2> QED  BY <2>1, <2>2
<1>2. CASE ~on_tick
  BY <1>2, OnlyTicksAct DEF EdgeNotMissed, Streaming
<1> QED  BY <1>1, <1>2

\* In every reachable state a streaming mode implies that the previous tick saw
\* DDS control enabled, so the edge test of on_tick cannot miss its loss.
THEOREM EdgeNeverMissed == Spec => []EdgeNotMissed
<1>1. Init => EdgeNotMissed
  BY DEF Init, EdgeNotMissed, Streaming
<1>2. TypeOK /\ EdgeNotMissed /\ [Next]_vars => EdgeNotMissed'
  BY EdgeStep
<1> QED  BY <1>1, <1>2, TypeCorrect, PTL DEF Spec

\* A tick at which DDS control is gone while the node streams always sends
\* POSCTL, sends no setpoint and leaves the streaming modes.
THEOREM HandsBackAlways == Spec => HandsBack
<1>1. EdgeNotMissed /\ [Next]_vars
        => [on_tick /\ Streaming /\ ~dds_control_enabled
              => /\ out'.command = "posctl"
                 /\ out'.setpoint = "none"
                 /\ ~Streaming']_vars
  BY DEF on_tick, dds_disabled, hand_back_due, switch_to_position_control,
         Streaming, EdgeNotMissed, Nothing
<1> QED  BY <1>1, EdgeNeverMissed, PTL DEF Spec, HandsBack

\* The node rests in wait_arm only when it was told to arm the vehicle.
THEOREM WaitArmOnlyWithAutoArm == Spec => []WaitArmNeedsAutoArm
<1>1. Init => WaitArmNeedsAutoArm
  BY DEF Init, WaitArmNeedsAutoArm
<1>2. TypeOK /\ WaitArmNeedsAutoArm /\ [Next]_vars => WaitArmNeedsAutoArm'
  <2> SUFFICES ASSUME TypeOK, WaitArmNeedsAutoArm, [Next]_vars
               PROVE  WaitArmNeedsAutoArm'
    OBVIOUS
  <2>1. CASE on_tick
    <3>1. UNCHANGED auto_arm
      BY <2>1 DEF on_tick, params
    <3>2. CASE dds_disabled
      BY <3>1, <3>2 DEF dds_disabled, switch_to_position_control, WaitArmNeedsAutoArm
    <3>3. CASE status_lost
      BY <3>1, <3>3 DEF status_lost, WaitArmNeedsAutoArm
    <3>4. CASE Dispatch
      BY <3>1, <3>4
         DEF Dispatch, wait_offboard, wait_arm, RC2DDS_handoff, path_active,
             start_RC2DDS_handoff, arm_not_ready, WaitArmNeedsAutoArm
    <3> QED  BY <2>1, <3>2, <3>3, <3>4 DEF on_tick
  <2>2. CASE ~on_tick
    BY <2>2, OnlyTicksAct DEF WaitArmNeedsAutoArm, params
  <2> QED  BY <2>1, <2>2
<1> QED  BY <1>1, <1>2, TypeCorrect, PTL DEF Spec

\* Every setpoint is sent under current DDS authority and fresh status, and
\* path setpoints only while PX4 is in OFFBOARD and armed as required.
THEOREM SetpointsAuthorised == Spec => []SetpointAuthorised
<1>1. Init => SetpointAuthorised
  BY DEF Init, SetpointAuthorised, Nothing
<1>2. SetpointAuthorised /\ [Next]_vars => SetpointAuthorised'
  <2> SUFFICES ASSUME SetpointAuthorised, [Next]_vars
               PROVE  SetpointAuthorised'
    OBVIOUS
  <2>1. CASE on_tick
    <3>1. UNCHANGED <<dds_control_enabled, vehicle_status_fresh, vehicle_status,
                      arm_not_ready>>
      BY <2>1 DEF on_tick, inputs, params, dds_control_enabled,
                  vehicle_status_fresh, arm_not_ready, Fresh
    <3>2. CASE ~dds_control_enabled \/ ~vehicle_status_fresh
      BY <2>1, <3>2
         DEF on_tick, dds_disabled, switch_to_position_control, status_lost,
             Publish, Nothing, SetpointAuthorised
    <3>3. CASE dds_control_enabled /\ vehicle_status_fresh
      <4>1. out'.setpoint = "path" => dispatch_mode = "path_active"
        BY <2>1, <3>3
           DEF on_tick, Dispatch, wait_offboard, wait_arm, RC2DDS_handoff, Publish
      <4>2. dispatch_mode = "path_active" => vehicle_status.offboard /\ ~arm_not_ready
        BY DEF dispatch_mode
      <4> QED  BY <3>1, <3>3, <4>1, <4>2 DEF SetpointAuthorised
    <3> QED  BY <3>2, <3>3
  <2>2. CASE ~on_tick
    <3>1. CASE out' = Nothing
      BY <3>1 DEF SetpointAuthorised, Nothing
    <3>2. CASE UNCHANGED vars
      BY <3>2 DEF vars, params, inputs, SetpointAuthorised, dds_control_enabled,
                  vehicle_status_fresh, arm_not_ready, Fresh
    <3> QED  BY <2>2, <3>1, <3>2, OnlyTicksAct
  <2> QED  BY <2>1, <2>2
<1> QED  BY <1>1, <1>2, PTL DEF Spec

-----------------------------------------------------------------------------
(* Refinement *)

\* wait_arm, from any mode it can be dispatched from, grants an approach,
\* stops a path, or stays quiet.
LEMMA WaitArmRefines ==
    ASSUME TypeOK, wait_arm, dispatch_mode \in {"wait_arm", "wait_offboard"}
    PROVE  Authority!ANext
<1> USE DEF Authority!ANext, Authority!Send, Publish
<1>1. control_mode # "RC2DDS_handoff"
  BY DEF dispatch_mode
<1>2. CASE arm_not_ready
  BY <1>1, <1>2 DEF wait_arm, Authority!Suspend, Authority!Quiet
<1>3. CASE ~arm_not_ready
  <2>1. last_target' \in 0..Far /\ control_mode' = "RC2DDS_handoff"
    BY <1>3, StartType DEF wait_arm, start_RC2DDS_handoff
  <2> QED  BY <1>1, <1>3, <2>1 DEF wait_arm, Authority!Grant
<1> QED  BY <1>2, <1>3

\* The node implements its promise: every behaviour of Spec, seen through the
\* mapping of PositionCmd, is a behaviour of CommandAuthority.
THEOREM Refinement == Spec => ImplementsAuthority
<1>1. Init => Authority!AInit
  BY DEF Init, Nothing, Authority!AInit
<1>2. TypeOK /\ [Next]_vars => [Authority!ANext]_(Authority!avars)
  <2> SUFFICES ASSUME TypeOK, [Next]_vars
               PROVE  [Authority!ANext]_(Authority!avars)
    OBVIOUS
  <2>1. CASE on_tick
    <3>1. CASE dds_disabled
      <4>1. CASE hand_back_due
        BY <3>1, <4>1
           DEF dds_disabled, hand_back_due, switch_to_position_control, Streaming,
               Nothing, Authority!ANext, Authority!HandBack, Authority!Send
      <4>2. CASE ~hand_back_due
        BY <3>1, <4>2
           DEF dds_disabled, Nothing, Authority!ANext, Authority!Quiet, Authority!Send
      <4> QED  BY <4>1, <4>2
    <3>2. CASE status_lost
      BY <3>2
         DEF status_lost, Publish, Authority!ANext, Authority!Quiet,
             Authority!Suspend, Authority!Send
    <3>3. CASE Dispatch
      <4> USE DEF Authority!ANext, Authority!Send, Publish
      <4>1. CASE dispatch_mode = "wait_arm" /\ wait_arm
        BY <4>1, WaitArmRefines
      <4>2. CASE dispatch_mode = "wait_offboard" /\ wait_offboard
        <5>1. CASE wait_arm
          BY <4>2, <5>1, WaitArmRefines
        <5>2. CASE ~wait_arm
          BY <4>2, <5>2
             DEF dispatch_mode, wait_offboard, Authority!Suspend, Authority!Quiet
        <5> QED  BY <5>1, <5>2
      <4>3. CASE dispatch_mode = "RC2DDS_handoff" /\ RC2DDS_handoff
        BY <4>3, Caps
           DEF dispatch_mode, RC2DDS_handoff, TypeOK, Authority!Approach, Authority!Arrive
      <4>4. CASE dispatch_mode = "path_active" /\ path_active
        BY <4>4 DEF dispatch_mode, path_active, Authority!Follow
      <4> QED  BY <3>3, <4>1, <4>2, <4>3, <4>4 DEF Dispatch
    <3> QED  BY <2>1, <3>1, <3>2, <3>3 DEF on_tick
  <2>2. CASE ~on_tick
    <3>1. CASE out' = Nothing
      BY <2>2, <3>1, OnlyTicksAct
         DEF Nothing, Authority!ANext, Authority!Quiet, Authority!Send
    <3>2. CASE UNCHANGED vars
      BY <3>2 DEF vars, Authority!avars
    <3> QED  BY <2>2, <3>1, <3>2, OnlyTicksAct
  <2> QED  BY <2>1, <2>2
<1> QED
  BY <1>1, <1>2, TypeCorrect, PTL DEF Spec, ImplementsAuthority, Authority!ASpec

\* What holds of the command node at every moment, in one formula: types, the
\* edge on_tick relies on, the reason to wait for arming, and the authority of
\* every setpoint.
THEOREM CommandAlwaysSafe == Spec => []CommandInv
<1>1. TypeOK /\ EdgeNotMissed /\ WaitArmNeedsAutoArm /\ SetpointAuthorised => CommandInv
  BY DEF CommandInv
<1> QED
  BY <1>1, TypeCorrect, EdgeNeverMissed, WaitArmOnlyWithAutoArm, SetpointsAuthorised, PTL
=============================================================================
