----------------------------- MODULE ServoToGz -----------------------------
(***************************************************************************)
(* The node px4_servo_to_gz: every actuator_servos message is forwarded at *)
(* once to the Gazebo joints; a 400 Hz timer walks the joints to zero when *)
(* messages stop.  Unlike the Dynamixel node it measures time on the ROS   *)
(* (system) clock, which may be set forward or back.  Angles are signed    *)
(* levels; a non-finite control value becomes zero.                        *)
(***************************************************************************)
EXTENDS Integers

CONSTANTS
    Controls,          \* indices of ActuatorServos.control
    Joints,            \* indices of params::SERVO_TOPICS
    ControlIndex,      \* params::SERVO_CONTROL_INDEX
    Limit,             \* largest level, params::SERVO_LIMIT_RAD
    Wobble,            \* servo_wobble_deg > 0
    ReceiveTimeout,    \* params::DDS_RECEIVE_TIMEOUT_SEC, in clock units
    GzReturnTime,        \* params::SERVO_RETURN_TIME_SEC
    MaxClockSteps      \* bound on how often the system clock is set

ASSUME GzAssumption ==
    /\ ControlIndex \in [Joints -> Controls]
    /\ Limit \in Nat /\ Wobble \in BOOLEAN
    /\ ReceiveTimeout \in Nat \ {0} /\ GzReturnTime \in Nat \ {0}
    /\ MaxClockSteps \in Nat

(* Definitions named for a defect are mutated forms of the definition that
   follows them; no specification uses them. *)

VARIABLES
    valid,             \* servo_pubs_[i].Valid()
    gz_servo_lpf,
    published,         \* the last value sent to each joint
    inactive_time,     \* now - last_actuator_msg_time_
    gz_returning_to_zero,
    gz_return_elapsed,    \* now - return_start_time_
    running,
    clock_steps        \* how often the system clock has been set

gz_clocks == <<inactive_time, gz_return_elapsed, clock_steps>>
gz_vars == <<valid, gz_servo_lpf, published, gz_returning_to_zero, running, gz_clocks>>

JointLevel == -Limit..Limit
Received == -(Limit + 1)..Limit + 1       \* finite controls, also out of range
NonFinite == Limit + 2

Clamp(x) == IF x > Limit THEN Limit ELSE IF x < -Limit THEN -Limit ELSE x

\* Joints whose publisher could not be advertised keep their last value.
Send(commands) ==
    published' = [i \in Joints |-> IF valid[i] THEN commands[i] ELSE published[i]]

\* One control value, with the wobble of that control index, as a command.
command(control, wobble) ==
    LET normalized == IF control = NonFinite THEN 0 ELSE Clamp(control)
    IN  IF Wobble THEN Clamp(normalized + wobble) ELSE normalized

\* What the controls of a message may command.
Commands ==
    {command(control, wobble) : control \in Received \cup {NonFinite}, wobble \in -1..1}

\* The joints follow the controls that their indices name.
commands(servos) == [i \in Joints |-> servos[ControlIndex[i]]]

FilterNotReset(servos) ==
    /\ running
    /\ inactive_time' = 0
    /\ gz_returning_to_zero' = FALSE
    /\ Send(commands(servos))
    /\ UNCHANGED <<valid, gz_servo_lpf, gz_return_elapsed, running, clock_steps>>
actuatorServosCallback(servos) ==
    /\ running
    /\ inactive_time' = 0
    /\ gz_returning_to_zero' = FALSE
    /\ gz_servo_lpf' = commands(servos)
    /\ Send(commands(servos))
    /\ UNCHANGED <<valid, gz_return_elapsed, running, clock_steps>>

\* One filter update towards zero: the same function of the level for every
\* joint, moving each level by at most one.  A first-order filter approaches
\* zero and does not get there: only the end of the return does.
Decays ==
    {d \in [JointLevel -> JointLevel] :
        \A l \in JointLevel : d[l] \in CASE l > 1  -> {l, l - 1}
                                [] l < -1 -> {l, l + 1}
                                [] OTHER  -> {l}}

GzReturnAge == IF gz_returning_to_zero THEN gz_return_elapsed ELSE 0

return_finished == GzReturnAge >= GzReturnTime

publish_timer ==
    /\ running
    /\ \/ /\ inactive_time < ReceiveTimeout
          /\ gz_returning_to_zero' = FALSE
          /\ UNCHANGED <<gz_servo_lpf, published, gz_return_elapsed>>
       \/ /\ inactive_time >= ReceiveTimeout
          /\ gz_returning_to_zero' = TRUE
          /\ gz_return_elapsed' = GzReturnAge
          /\ \E d \in Decays :
                LET next == [i \in Joints |-> IF return_finished THEN 0 ELSE d[gz_servo_lpf[i]]]
                IN  gz_servo_lpf' = next /\ Send(next)
    /\ UNCHANGED <<valid, inactive_time, running, clock_steps>>

\* The destructor sends zero to every joint and the node is gone.
GzDestructor ==
    /\ running
    /\ running' = FALSE
    /\ Send([i \in Joints |-> 0])
    /\ UNCHANGED <<valid, gz_servo_lpf, gz_returning_to_zero, gz_clocks>>

\* Both times saturate where the comparisons stop telling them apart.
Capped(a, b) == IF a < b THEN a ELSE b
Pass(units) ==
    /\ inactive_time' = Capped(inactive_time + units, ReceiveTimeout)
    /\ gz_return_elapsed' = Capped(gz_return_elapsed + units, GzReturnTime)
    /\ UNCHANGED <<valid, gz_servo_lpf, published, gz_returning_to_zero, running>>

GzAdvance == running /\ Pass(1) /\ UNCHANGED clock_steps

\* The system clock is set forward or back.
GzClockSet(units) ==
    /\ running /\ clock_steps < MaxClockSteps
    /\ Pass(units)
    /\ clock_steps' = clock_steps + 1

\* The constructor publishes zero wherever it could advertise.
GzInit ==
    /\ valid \in [Joints -> BOOLEAN]
    /\ gz_servo_lpf = [i \in Joints |-> 0]
    /\ published = [i \in Joints |-> 0]
    /\ inactive_time = 0 /\ gz_return_elapsed = 0 /\ clock_steps = 0
    /\ gz_returning_to_zero = FALSE
    /\ running = TRUE

GzNext ==
    \/ \E servos \in [Controls -> Commands] : actuatorServosCallback(servos)
    \/ publish_timer
    \/ GzDestructor
    \/ GzAdvance
    \/ \E units \in {-2, 2} : GzClockSet(units)

\* The executor keeps firing the timer and time passes.
GzSpec == GzInit /\ [][GzNext]_gz_vars /\ WF_gz_vars(publish_timer) /\ WF_gz_vars(GzAdvance)

-----------------------------------------------------------------------------

\* Type correctness: joint commands stay within the joint limits also under wobble.
GzTypeOK ==
    /\ valid \in [Joints -> BOOLEAN]
    /\ gz_servo_lpf \in [Joints -> JointLevel] /\ published \in [Joints -> JointLevel]
    /\ inactive_time \in -2 * MaxClockSteps..ReceiveTimeout
    /\ gz_return_elapsed \in -2 * MaxClockSteps..GzReturnTime
    /\ gz_returning_to_zero \in BOOLEAN /\ running \in BOOLEAN
    /\ clock_steps \in 0..MaxClockSteps

\* Joints driven by the same control value (the front and the rear beta pair)
\* never diverge, neither when commanded nor during a return to zero.
PairedJointsAgree ==
    \A i, j \in Joints :
        ControlIndex[i] = ControlIndex[j] =>
            /\ gz_servo_lpf[i] = gz_servo_lpf[j]
            /\ valid[i] /\ valid[j] => published[i] = published[j]

\* The return starts from what the joint was last told, so the start of an
\* outage, real or made up by a clock step, causes no jump.
ReturnStartsWhereCommanded ==
    running => \A i \in Joints : valid[i] => published[i] = gz_servo_lpf[i]

\* When messages stop for good every advertised joint comes to rest at zero, even
\* if the system clock was set back a few times on the way.
SilenceReturnsToZero ==
    <>[](inactive_time >= ReceiveTimeout)
        => <>[](\A i \in Joints : valid[i] => published[i] = 0)

\* The joints of a pair agree, and a return starts where the joints were
\* commanded last (the callback, the timer and its filters).
JointsInv == GzTypeOK /\ PairedJointsAgree /\ ReturnStartsWhereCommanded
=============================================================================
