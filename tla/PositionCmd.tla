---------------------------- MODULE PositionCmd ----------------------------
(***************************************************************************)
(* The command node px4_position_cmd: a state machine driven by a 400 Hz   *)
(* timer (on_tick) and four best-effort subscriptions.  rclcpp::spin runs  *)
(* timers and callbacks one at a time on one thread, so each is one action;*)
(* PX4, the RC switch and the lossy transport are the environment: a       *)
(* message of any legal content may arrive, or fail to arrive, at any time.*)
(*                                                                         *)
(* Time is a discrete clock.  Only comparisons of an age with a constant   *)
(* matter, so ages and timers count up and stop at the first value that    *)
(* every comparison treats like all larger ones.                           *)
(***************************************************************************)
EXTENDS Integers

CONSTANTS
    MessageTimeout,   \* params::message_timeout_sec, in clock units
    CommandRepeat,    \* params::command_repeat_sec
    CommandDelay,     \* params::command_delay_sec
    Far               \* largest distance from the initial pose, in buckets

ASSUME TimingAssumption ==
    /\ MessageTimeout \in Nat
    /\ CommandRepeat \in Nat \ {0}
    /\ CommandDelay \in Nat
    /\ Far \in Nat

(* Definitions named for a defect (ArmAlwaysRequired, NoDemotion, ...) are
   mutated forms of the definition that follows them.  No specification uses
   them: they show which property notices the defect. *)

VARIABLES
    auto_offboard, auto_arm,          \* node parameters
    control_mode,
    previous_dds_control_enabled,
    hb_cmd_source, hb_age,            \* controller_mode_ and its age
    local_position, lpos_age,         \* local_position_ and its age
    attitude_level, att_age,          \* vehicle_attitude_ and its age
    vehicle_status, stat_age,         \* vehicle_status_ and its age
    elapsed,                          \* time since the node started
    since_offboard_request, since_arm_request,
    last_target,                      \* distance of last_target_ from the initial pose
    out                               \* what the last step published

params == <<auto_offboard, auto_arm>>
inputs == <<hb_cmd_source, hb_age, local_position, lpos_age,
            attitude_level, att_age, vehicle_status, stat_age>>
requests == <<since_offboard_request, since_arm_request>>
vars == <<params, control_mode, previous_dds_control_enabled, inputs,
          elapsed, requests, last_target, out>>

-----------------------------------------------------------------------------
(* Messages and outputs *)

ControlMode == {"wait_offboard", "wait_arm", "path_active", "RC2DDS_handoff"}

HummingbirdStatus == {"RC", "DDS"}

\* A local position is invalid, or is some distance away from the initial
\* pose; distance 0 is within pos_tol and yaw_tol of it.
LocalPosition ==
    {[valid |-> FALSE, dist |-> 0]} \cup [valid : {TRUE}, dist : 0..Far]

VehicleStatus == [offboard : BOOLEAN, armed : BOOLEAN]

Output == [offboard_mode : BOOLEAN,
           setpoint : {"none", "handoff", "path"},
           command : {"none", "offboard", "arm", "posctl"}]

Nothing == [offboard_mode |-> FALSE, setpoint |-> "none", command |-> "none"]

-----------------------------------------------------------------------------
(* Derived values on_tick computes *)

Stale == MessageTimeout + 1       \* every age above the timeout
ArmRepeat == MessageTimeout + CommandRepeat

Aged(age, cap) == IF age < cap THEN age + 1 ELSE cap

Fresh(age) == age <= MessageTimeout

dds_control_enabled == Fresh(hb_age) /\ hb_cmd_source = "DDS"
vehicle_status_fresh == Fresh(stat_age)
local_position_fresh == Fresh(lpos_age) /\ local_position.valid

arm_not_ready == auto_arm /\ ~vehicle_status.armed

Streaming == control_mode \in {"path_active", "RC2DDS_handoff"}

\* The attitude is fresh, finite and within att_tol, and the position is
\* fresh, valid and within the tolerances.
initial_pose_reached ==
    /\ local_position_fresh
    /\ Fresh(att_age)
    /\ local_position.dist = 0
    /\ attitude_level

\* The streaming modes are the ones that must be handed back to RC when a tick
\* sees DDS control end.
HandBackFromPathOnly == previous_dds_control_enabled /\ control_mode = "path_active"
hand_back_due == previous_dds_control_enabled /\ Streaming

offboard_request_due == auto_offboard /\ since_offboard_request >= CommandRepeat

NoDemotion == control_mode
\* The mode a tick dispatches on: path_active is left first when the vehicle
\* is no longer offboard, or no longer armed under auto_arm.
dispatch_mode ==
    IF control_mode = "path_active" /\ (~vehicle_status.offboard \/ arm_not_ready)
    THEN IF vehicle_status.offboard THEN "wait_arm" ELSE "wait_offboard"
    ELSE control_mode

-----------------------------------------------------------------------------
(* Subscriptions.  The missing_ flags of note_input only drive log lines and
   are modelled in InputMonitor. *)

controller_mode_callback(source) ==
    /\ hb_cmd_source' = source
    /\ hb_age' = 0
    /\ out' = Nothing
    /\ UNCHANGED <<params, control_mode, previous_dds_control_enabled,
                   local_position, lpos_age, attitude_level, att_age,
                   vehicle_status, stat_age, elapsed, requests, last_target>>

local_position_callback(position) ==
    /\ local_position' = position
    /\ lpos_age' = 0
    /\ out' = Nothing
    /\ UNCHANGED <<params, control_mode, previous_dds_control_enabled,
                   hb_cmd_source, hb_age, attitude_level, att_age,
                   vehicle_status, stat_age, elapsed, requests, last_target>>

\* level: the quaternion is finite and its roll and pitch are within att_tol.
vehicle_attitude_callback(level) ==
    /\ attitude_level' = level
    /\ att_age' = 0
    /\ out' = Nothing
    /\ UNCHANGED <<params, control_mode, previous_dds_control_enabled,
                   hb_cmd_source, hb_age, local_position, lpos_age,
                   vehicle_status, stat_age, elapsed, requests, last_target>>

vehicle_status_callback(status) ==
    /\ vehicle_status' = status
    /\ stat_age' = 0
    /\ out' = Nothing
    /\ UNCHANGED <<params, control_mode, previous_dds_control_enabled,
                   hb_cmd_source, hb_age, local_position, lpos_age,
                   attitude_level, att_age, elapsed, requests, last_target>>

-----------------------------------------------------------------------------
(* The handlers on_tick dispatches to.  Each determines control_mode, the
   request timers, last_target and what is published besides the
   OffboardControlMode message every enabled tick publishes. *)

Publish(setpoint, command) ==
    out' = [offboard_mode |-> TRUE, setpoint |-> setpoint, command |-> command]

HandoffSkipped ==
    /\ last_target' = IF local_position_fresh THEN local_position.dist ELSE 0
    /\ control_mode' = "path_active"
\* The filters start at the vehicle's position when it is known, otherwise at
\* the initial pose itself.
start_RC2DDS_handoff ==
    /\ last_target' = IF local_position_fresh THEN local_position.dist ELSE 0
    /\ control_mode' = "RC2DDS_handoff"

wait_arm ==
    \/ /\ arm_not_ready
       /\ since_arm_request >= ArmRepeat
       /\ Publish("none", "arm")
       /\ since_arm_request' = 0
       /\ control_mode' = "wait_arm"
       /\ UNCHANGED <<since_offboard_request, last_target>>
    \/ /\ arm_not_ready
       /\ since_arm_request < ArmRepeat
       /\ Publish("none", "none")
       /\ control_mode' = "wait_arm"
       /\ UNCHANGED <<requests, last_target>>
    \/ /\ ~arm_not_ready
       /\ start_RC2DDS_handoff
       /\ Publish("none", "none")
       /\ UNCHANGED requests

wait_offboard ==
    \/ /\ elapsed < CommandDelay
       /\ Publish("none", "none")
       /\ control_mode' = "wait_offboard"
       /\ UNCHANGED <<requests, last_target>>
    \/ /\ elapsed >= CommandDelay
       /\ ~vehicle_status.offboard
       /\ offboard_request_due
       /\ Publish("none", "offboard")
       /\ since_offboard_request' = 0
       /\ control_mode' = "wait_offboard"
       /\ UNCHANGED <<since_arm_request, last_target>>
    \/ /\ elapsed >= CommandDelay
       /\ ~vehicle_status.offboard
       /\ ~offboard_request_due
       /\ Publish("none", "none")
       /\ control_mode' = "wait_offboard"
       /\ UNCHANGED <<requests, last_target>>
    \/ /\ elapsed >= CommandDelay
       /\ vehicle_status.offboard
       /\ wait_arm

\* One filter update moves the setpoint towards the initial pose by less than
\* one bucket; the path starts at the tick that finds the pose reached.
RC2DDS_handoff ==
    /\ Publish("handoff", "none")
    /\ \/ /\ initial_pose_reached
          /\ control_mode' = "path_active"
          /\ last_target' = 0
       \/ /\ ~initial_pose_reached
          /\ control_mode' = "RC2DDS_handoff"
          /\ last_target' \in {last_target, last_target - 1} \cap Nat
    /\ UNCHANGED requests

\* The path setpoint's geometry is left out: only its distance class matters,
\* and nothing reads it before the next handoff overwrites it.
path_active ==
    /\ Publish("path", "none")
    /\ control_mode' = "path_active"
    /\ UNCHANGED <<requests, last_target>>

Dispatch ==
    \/ dispatch_mode = "wait_offboard" /\ wait_offboard
    \/ dispatch_mode = "wait_arm" /\ wait_arm
    \/ dispatch_mode = "RC2DDS_handoff" /\ RC2DDS_handoff
    \/ dispatch_mode = "path_active" /\ path_active

\* DDS control is off: ask PX4 for position control.
switch_to_position_control ==
    /\ out' = [Nothing EXCEPT !.command = "posctl"]
    /\ control_mode' = "wait_offboard"

dds_disabled ==
    /\ \/ hand_back_due /\ switch_to_position_control
       \/ /\ ~hand_back_due
          /\ out' = Nothing
          /\ UNCHANGED control_mode
    /\ UNCHANGED <<requests, last_target>>

status_lost ==
    /\ control_mode' = IF control_mode = "path_active" THEN "wait_offboard"
                                                        ELSE control_mode
    /\ Publish("none", "none")
    /\ UNCHANGED <<requests, last_target>>

on_tick ==
    /\ previous_dds_control_enabled' = dds_control_enabled
    /\ \/ ~dds_control_enabled /\ dds_disabled
       \/ dds_control_enabled /\ ~vehicle_status_fresh /\ status_lost
       \/ dds_control_enabled /\ vehicle_status_fresh /\ Dispatch
    /\ UNCHANGED <<params, inputs, elapsed>>

-----------------------------------------------------------------------------

\* The steady clock: one unit passes.
Advance ==
    /\ hb_age' = Aged(hb_age, Stale)
    /\ lpos_age' = Aged(lpos_age, Stale)
    /\ att_age' = Aged(att_age, Stale)
    /\ stat_age' = Aged(stat_age, Stale)
    /\ elapsed' = Aged(elapsed, CommandDelay)
    /\ since_offboard_request' = Aged(since_offboard_request, CommandRepeat)
    /\ since_arm_request' = Aged(since_arm_request, ArmRepeat)
    /\ out' = Nothing
    /\ UNCHANGED <<params, control_mode, previous_dds_control_enabled,
                   hb_cmd_source, local_position, attitude_level,
                   vehicle_status, last_target>>

\* The constructor.  has_*_ is FALSE, which no freshness test tells apart from
\* a stale message; the request times are minus infinity.
Init ==
    /\ auto_offboard \in BOOLEAN
    /\ auto_arm \in BOOLEAN
    /\ control_mode = "wait_offboard"
    /\ previous_dds_control_enabled = FALSE
    /\ hb_cmd_source = "RC" /\ hb_age = Stale
    /\ local_position = [valid |-> FALSE, dist |-> 0] /\ lpos_age = Stale
    /\ attitude_level = FALSE /\ att_age = Stale
    /\ vehicle_status = [offboard |-> FALSE, armed |-> FALSE] /\ stat_age = Stale
    /\ elapsed = 0
    /\ since_offboard_request = CommandRepeat
    /\ since_arm_request = ArmRepeat
    /\ last_target = 0
    /\ out = Nothing

Next ==
    \/ on_tick
    \/ \E source \in HummingbirdStatus : controller_mode_callback(source)
    \/ \E position \in LocalPosition : local_position_callback(position)
    \/ \E level \in BOOLEAN : vehicle_attitude_callback(level)
    \/ \E status \in VehicleStatus : vehicle_status_callback(status)
    \/ Advance

\* The executor always gets round to the periodic timer, and time passes.
Fairness == WF_vars(on_tick) /\ WF_vars(Advance)

Spec == Init /\ [][Next]_vars

FairSpec == Spec /\ Fairness
-----------------------------------------------------------------------------
(* Properties *)

\* Type correctness of the node's members, with the ranges the saturating
\* clocks stay in.
TypeOK ==
    /\ auto_offboard \in BOOLEAN /\ auto_arm \in BOOLEAN
    /\ control_mode \in ControlMode
    /\ previous_dds_control_enabled \in BOOLEAN
    /\ hb_cmd_source \in HummingbirdStatus /\ hb_age \in 0..Stale
    /\ local_position \in LocalPosition /\ lpos_age \in 0..Stale
    /\ attitude_level \in BOOLEAN /\ att_age \in 0..Stale
    /\ vehicle_status \in VehicleStatus /\ stat_age \in 0..Stale
    /\ elapsed \in 0..CommandDelay
    /\ since_offboard_request \in 0..CommandRepeat
    /\ since_arm_request \in 0..ArmRepeat
    /\ last_target \in 0..Far
    /\ out \in Output

\* The hand back to RC is edge triggered on previous_dds_control_enabled_
\* (on_tick, line 442).  The edge can never be missed: whenever the node is in
\* a mode that streams setpoints, the last tick saw DDS control enabled.
EdgeNotMissed == Streaming => previous_dds_control_enabled

\* wait_arm is a mode the node rests in only under auto_arm; otherwise
\* wait_offboard falls through it in one tick (lines 207-208, 272) and path_active
\* never drops back into it (lines 479-483).
WaitArmNeedsAutoArm == control_mode = "wait_arm" => auto_arm

\* Every setpoint is sent under current authority: DDS is the selected source
\* and vehicle_status is fresh at that tick; a path setpoint moreover goes out
\* only while PX4 reports OFFBOARD (and ARMED under auto_arm), and a rule that is
\* split between on_tick's demotion and the handlers' transitions enforces it.
SetpointAuthorised ==
    out.setpoint # "none" =>
        /\ dds_control_enabled /\ vehicle_status_fresh
        /\ out.setpoint = "path" => vehicle_status.offboard /\ ~arm_not_ready

\* A tick that finds DDS control gone (switched to RC, or hummingbird_status
\* silent past the timeout) while the node streams sends POSCTL, sends no
\* setpoint and leaves the streaming modes, whatever happened before.
HandsBack ==
    [][on_tick /\ Streaming /\ ~dds_control_enabled
         => out'.command = "posctl" /\ out'.setpoint = "none" /\ ~Streaming']_vars

\* The same as liveness: if DDS control goes away for good, the node stops
\* streaming for good.
HandBackCompletes == <>[](~dds_control_enabled) => <>[](~Streaming)

Ready ==
    /\ dds_control_enabled /\ vehicle_status_fresh
    /\ vehicle_status.offboard /\ ~arm_not_ready
    /\ initial_pose_reached

\* If from some time on DDS is selected, every input stays fresh, PX4 is in
\* OFFBOARD, armed as needed, and at the initial pose, the node gets through
\* waiting, arming and handoff and stays on the path.
PathEventuallyActive == <>[]Ready => <>[](control_mode = "path_active")

WaitingForOffboard ==
    /\ auto_offboard
    /\ dds_control_enabled /\ vehicle_status_fresh
    /\ ~vehicle_status.offboard
    /\ control_mode = "wait_offboard"

\* vehicle_command is best effort, so one request is not enough: as long as
\* PX4 does not report OFFBOARD the request is repeated for ever.
OffboardRequestRepeats ==
    <>[]WaitingForOffboard => []<>(out.command = "offboard")

\* The log line at 434 promises "Initial pose handoff will start after
\* offboard and arm are ready": a handoff starts only at a tick that sees
\* OFFBOARD (and ARMED where the node waits for it).
HandoffStartsReady ==
    [][control_mode # "RC2DDS_handoff" /\ control_mode' = "RC2DDS_handoff"
         => vehicle_status.offboard /\ ~arm_not_ready]_vars

\* params.hpp documents command_delay_sec as the waiting time after changing
\* control mode: then no offboard request goes out on the very tick that
\* sees the change to DDS.
OffboardWaitsAfterModeChange ==
    [][out'.command = "offboard" => previous_dds_control_enabled]_vars

-----------------------------------------------------------------------------
(* The promise the node implements. *)

Authority ==
    INSTANCE CommandAuthority WITH
        MaxDistance <- Far,
        phase <- CASE control_mode = "path_active" -> "follow"
                   [] control_mode = "RC2DDS_handoff" -> "approach"
                   [] OTHER -> "idle",
        distance <- last_target,
        setpoint <- out.setpoint,
        handback <- out.command = "posctl"

\* The node implements CommandAuthority: in particular a path setpoint is only
\* ever sent after a handoff that arrived, with no interruption since.
ImplementsAuthority == Authority!ASpec

\* What holds of the node at every moment: no switch to RC is missed, arming
\* is awaited only when the node arms itself, and a setpoint is sent only with
\* the authority to do so.
CommandInv == TypeOK /\ EdgeNotMissed /\ WaitArmNeedsAutoArm /\ SetpointAuthorised

\* What the node does in the end (on_tick): it hands back, gets onto the path,
\* and repeats its request for OFFBOARD.
RequestsComplete == HandBackCompletes /\ PathEventuallyActive /\ OffboardRequestRepeats
=============================================================================
