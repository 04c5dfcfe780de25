----------------------------- MODULE MocapToPx4 -----------------------------
(***************************************************************************)
(* The node mocap_to_px4: motion-capture poses arrive as they please; a    *)
(* 100 Hz timer forwards the newest one to PX4 as visual odometry, if it   *)
(* is still young.  Two clocks are involved: the age of a sample is taken  *)
(* on the system clock, which may be set, from a stamp made on another     *)
(* machine; the silence of the input is measured on the steady clock.      *)
(***************************************************************************)
EXTENDS Integers

CONSTANTS
    MaxSampleAge,     \* max_sample_age_sec_, in clock units
    MissingLimit,     \* the 0.2 s after which the input counts as missing
    MaxStampAge,      \* oldest stamp a pose arrives with
    MaxSamples,       \* bound on the number of valid poses of a run
    MaxClockStep      \* largest step of the system clock

ASSUME MocapAssumption ==
    /\ MaxSampleAge \in Nat /\ MissingLimit \in Nat \ {0}
    /\ MaxStampAge \in Nat /\ MaxSamples \in Nat
    /\ MaxClockStep \in Nat

(* Definitions named for a defect are mutated forms of the definition that
   follows them; no specification uses them. *)

VARIABLES
    has_input, input_age, input_missing,
    open_timeouts,    \* TIMEOUT lines not yet followed by RECOVERED or FIRST_SAMPLE
    pending,          \* pending_odom_: the number of its sample, 0 if empty
    sample_age,       \* system-clock age of the pending sample
    samples,          \* valid poses received, numbered from 1
    forwarded,        \* number of the last sample published to PX4
    odometry_out      \* number of the sample the last step published, 0 if none

diagnostics == <<has_input, input_age, input_missing, open_timeouts>>
mocap_vars == <<diagnostics, pending, sample_age, samples, forwarded, odometry_out>>

\* A stamp of zero or in the future is replaced by the time of receipt.
BadStamp == -1
measurement_age(stamp) == IF stamp = BadStamp THEN 0 ELSE stamp

AgeCap == IF MaxSampleAge >= MaxStampAge THEN MaxSampleAge + 1 ELSE MaxStampAge + 1
Least(a, b) == IF a < b THEN a ELSE b

\* The diagnostics of onMocap, before the pose itself is looked at.
note_pose ==
    /\ has_input' = TRUE
    /\ input_age' = 0
    /\ input_missing' = FALSE
    /\ open_timeouts' = IF input_missing THEN open_timeouts - 1 ELSE open_timeouts

\* A pose of the target body; poses of other bodies change nothing.
onMocap(valid, stamp) ==
    /\ note_pose
    /\ odometry_out' = 0
    /\ \/ /\ ~valid                      \* OPTI_INVALID_POSE: the pending one stays
          /\ UNCHANGED <<pending, sample_age, samples>>
       \/ /\ valid /\ samples < MaxSamples
          /\ samples' = samples + 1
          /\ pending' = samples + 1
          /\ sample_age' = measurement_age(stamp)
    /\ UNCHANGED forwarded

input_overdue == input_age >= MissingLimit /\ ~input_missing

young == sample_age >= 0 /\ sample_age <= MaxSampleAge

KeepsPending ==
    /\ input_missing' = (input_missing \/ input_overdue)
    /\ open_timeouts' = open_timeouts + IF input_overdue THEN 1 ELSE 0
    /\ odometry_out' = IF pending # 0 /\ young THEN pending ELSE 0
    /\ forwarded' = IF pending # 0 /\ young THEN pending ELSE forwarded
    /\ UNCHANGED <<has_input, input_age, samples, pending, sample_age>>
\* The pending sample leaves the node or is dropped as stale, never kept.
publishPx4 ==
    /\ input_missing' = (input_missing \/ input_overdue)
    /\ open_timeouts' = open_timeouts + IF input_overdue THEN 1 ELSE 0
    /\ odometry_out' = IF pending # 0 /\ young THEN pending ELSE 0
    /\ forwarded' = IF pending # 0 /\ young THEN pending ELSE forwarded
    /\ pending' = 0
    /\ sample_age' = 0
    /\ UNCHANGED <<has_input, input_age, samples>>

MocapAdvance ==
    /\ input_age' = Least(input_age + 1, MissingLimit)
    /\ sample_age' = IF pending = 0 THEN 0 ELSE Least(sample_age + 1, AgeCap)
    /\ odometry_out' = 0
    /\ UNCHANGED <<has_input, input_missing, open_timeouts, pending, samples, forwarded>>

\* The system clock is set while a sample is pending: only its age changes.
MocapClockSet(units) ==
    /\ pending # 0
    /\ sample_age + units >= -MaxClockStep
    /\ sample_age' = Least(sample_age + units, AgeCap)
    /\ odometry_out' = 0
    /\ UNCHANGED <<diagnostics, pending, samples, forwarded>>

MocapInit ==
    /\ has_input = FALSE /\ input_age = 0 /\ input_missing = FALSE /\ open_timeouts = 0
    /\ pending = 0 /\ sample_age = 0
    /\ samples = 0 /\ forwarded = 0 /\ odometry_out = 0

MocapNext ==
    \/ \E valid \in BOOLEAN, stamp \in {BadStamp} \cup 0..MaxStampAge : onMocap(valid, stamp)
    \/ publishPx4
    \/ MocapAdvance
    \/ \E units \in -MaxClockStep..MaxClockStep : MocapClockSet(units)

\* The output timer keeps firing and time passes.
MocapSpec == MocapInit /\ [][MocapNext]_mocap_vars /\ WF_mocap_vars(publishPx4) /\ WF_mocap_vars(MocapAdvance)

-----------------------------------------------------------------------------

\* Type correctness; TIMEOUT lines and the lines that answer them alternate.
MocapTypeOK ==
    /\ has_input \in BOOLEAN /\ input_missing \in BOOLEAN
    /\ input_age \in 0..MissingLimit
    /\ open_timeouts \in 0..1
    /\ samples \in 0..MaxSamples
    /\ pending \in 0..samples /\ forwarded \in 0..samples /\ odometry_out \in 0..samples
    /\ sample_age \in -MaxClockStep..AgeCap

\* PX4 gets each sample at most once and only ever the newest valid one: the
\* sequence of published samples is strictly increasing and skips stale ones,
\* however callbacks, timer ticks and clock steps interleave.
NewestOnce ==
    [][odometry_out' # 0 => odometry_out' > forwarded /\ odometry_out' = samples]_mocap_vars

\* An unanswered TIMEOUT line means that the input really is silent.
MocapReportsAreTrue ==
    (input_missing <=> open_timeouts = 1) /\ (input_missing => input_age >= MissingLimit)

\* A silent input is reported, also if no pose ever came.
MocapSilenceReported == <>[](input_age >= MissingLimit) => <>[]input_missing
=============================================================================
