-------------------------- MODULE CommandAuthority --------------------------
(***************************************************************************)
(* What px4_position_cmd promises PX4, with no clocks, inputs or retries:  *)
(* the node is idle, approaching the initial pose, or following a path.    *)
(* It follows a path only after an approach that arrived; an approach only *)
(* ever comes closer to the initial pose; a POSCTL command (hand back) is  *)
(* sent exactly on the steps that take a non-idle node to idle because DDS *)
(* authority ended, and no setpoint is sent with it.                       *)
(***************************************************************************)
EXTENDS Integers

CONSTANT MaxDistance    \* farthest an approach may start from the initial pose

VARIABLES
    phase,        \* "idle", "approach" or "follow"
    distance,     \* distance of the commanded point from the initial pose
    setpoint,     \* the setpoint sent by the last step: "none", "handoff", "path"
    handback      \* the last step sent POSCTL

avars == <<phase, distance, setpoint, handback>>

AInit ==
    /\ phase = "idle"
    /\ distance = 0
    /\ setpoint = "none"
    /\ handback = FALSE

Send(s, h) == setpoint' = s /\ handback' = h

Grant ==
    /\ phase # "approach"
    /\ phase' = "approach"
    /\ distance' \in 0..MaxDistance
    /\ Send("none", FALSE)

Approach ==
    /\ phase = "approach"
    /\ phase' = "approach"
    /\ distance' \in 0..distance
    /\ Send("handoff", FALSE)

Arrive ==
    /\ phase = "approach"
    /\ phase' = "follow"
    /\ distance' = 0
    /\ Send("handoff", FALSE)

Follow ==
    /\ phase = "follow"
    /\ Send("path", FALSE)
    /\ UNCHANGED <<phase, distance>>

\* The vehicle left the state the path needs: stop silently.
Suspend ==
    /\ phase = "follow"
    /\ phase' = "idle"
    /\ Send("none", FALSE)
    /\ UNCHANGED distance

\* DDS authority ended.
HandBack ==
    /\ phase # "idle"
    /\ phase' = "idle"
    /\ Send("none", TRUE)
    /\ UNCHANGED distance

Quiet ==
    /\ Send("none", FALSE)
    /\ UNCHANGED <<phase, distance>>

ANext == Grant \/ Approach \/ Arrive \/ Follow \/ Suspend \/ HandBack \/ Quiet

ASpec == AInit /\ [][ANext]_avars
=============================================================================
