------------------------------- MODULE Nodes -------------------------------
(***************************************************************************)
(* The command node, its input diagnostics, the two servo nodes and the    *)
(* motion-capture bridge, side by side: they run in processes or objects   *)
(* of their own and share no variable, so a behaviour of one is a          *)
(* behaviour of this module in which the others stand still.  part names   *)
(* the one that moves.                                                     *)
(***************************************************************************)
EXTENDS PositionCmd, InputMonitor, ServoDynamixel, ServoToGz, MocapToPx4

CONSTANT NodeParts    \* the ones that may move

ASSUME PartsAssumption == NodeParts \subseteq {"command", "monitor", "servo", "gz", "mocap"}

VARIABLE part

all_vars == <<part, vars, monitor_vars, servo_vars, gz_vars, mocap_vars>>

\* Two topics with different gap limits.
NodesTopics == {"hummingbird_status", "vehicle_local_position"}
NodesGapLimit == [t \in NodesTopics |-> IF t = "hummingbird_status" THEN 3 ELSE 1]

\* The beta joints: controls 0 and 1 drive the pairs 1/4 and 2/3.
NodesControls == 0..1
NodesJoints == 1..3
NodesControlIndex == [i \in NodesJoints |-> IF i = 2 THEN 1 ELSE 0]

\* What the nodes that stand still could have chosen does not matter.
NodesInit ==
    /\ part \in NodeParts
    /\ Init /\ (part # "command" => ~auto_offboard /\ ~auto_arm)
    /\ MonitorInit
    /\ ServoInit
    /\ part # "servo" => \A i \in Servos : ~torque[i] /\ position_mode[i] /\ ~hardware_error[i]
    /\ GzInit /\ (part # "gz" => \A i \in Joints : valid[i])
    /\ MocapInit

NodesNext ==
    \/ /\ part = "command" /\ Next
       /\ UNCHANGED <<part, monitor_vars, servo_vars, gz_vars, mocap_vars>>
    \/ /\ part = "monitor" /\ MonitorNext
       /\ UNCHANGED <<part, vars, servo_vars, gz_vars, mocap_vars>>
    \/ /\ part = "servo" /\ ServoNext
       /\ UNCHANGED <<part, vars, monitor_vars, gz_vars, mocap_vars>>
    \/ /\ part = "gz" /\ GzNext
       /\ UNCHANGED <<part, vars, monitor_vars, servo_vars, mocap_vars>>
    \/ /\ part = "mocap" /\ MocapNext
       /\ UNCHANGED <<part, vars, monitor_vars, servo_vars, gz_vars>>

NodesSpec == NodesInit /\ [][NodesNext]_all_vars

\* Every node's executor gets round to its timer, and time passes.
NodesFairness ==
    /\ WF_vars(part = "command" /\ on_tick)
    /\ WF_vars(part = "command" /\ Advance)
    /\ WF_monitor_vars(part = "monitor" /\ check_inputs)
    /\ WF_monitor_vars(part = "monitor" /\ MonitorAdvance)
    /\ WF_servo_vars(part = "servo" /\ timeout_callback)
    /\ WF_servo_vars(part = "servo" /\ ServoAdvance)
    /\ WF_gz_vars(part = "gz" /\ publish_timer)
    /\ WF_gz_vars(part = "gz" /\ GzAdvance)
    /\ WF_mocap_vars(part = "mocap" /\ publishPx4)
    /\ WF_mocap_vars(part = "mocap" /\ MocapAdvance)

NodesFairSpec == NodesSpec /\ NodesFairness

-----------------------------------------------------------------------------
(* Properties of several nodes.                                             *)

\* The TIMEOUT and RECOVERED lines of the command node and of the
\* motion-capture bridge say what is the case (note_input, check_inputs,
\* onMocap, publishPx4).
NodeReportsAreTrue ==
    MonitorTypeOK /\ ReportsAreTrue /\ MocapTypeOK /\ MocapReportsAreTrue

\* The silence of an input is reported, and its end with the gap it left, in
\* both nodes that watch their inputs.
SilenceComesToLight == SilenceReported /\ RecoveryWarnsOfGap /\ MocapSilenceReported

\* Whatever was lost or failed meanwhile, an outage of the commands ends with
\* the servos, and the simulated joints, at neutral.
OutagesEndAtNeutral == OutageReturnsToNeutral /\ SilenceReturnsToZero
=============================================================================
