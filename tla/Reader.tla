-------------------------------- MODULE Reader --------------------------------
(***************************************************************************)
(* The thread with which a data reader, requester or replier delivers      *)
(* samples to its client: Reader::read_task, started by READ_DATA, ended   *)
(* by its limits, by the next READ_DATA or by the object's destructor.     *)
(*                                                                         *)
(* Samples are numbered in the order DDS has them.  Of the clock only      *)
(* whether final_time has passed is kept; when the token bucket lets a     *)
(* sample through is chosen freely, unless it is larger than the bucket,   *)
(* which lets it through never.  A write to the client's stream fails      *)
(* while the stream is full or the client's address unknown.               *)
(***************************************************************************)
EXTENDS Naturals, Sequences, FiniteSets

CONSTANTS
    MaxSamples,    \* how many samples DDS will have
    Big,           \* those that exceed every rate limit
    CountModulus,       \* of message_count
    ReaderKinds,         \* of objects: "datareader", "requester", "replier"
    MaxReads       \* how many READ_DATA the client sends

ASSUME ReaderAssumption ==
    /\ {MaxSamples, MaxReads} \subseteq Nat
    /\ Big \subseteq 1 .. MaxSamples
    /\ CountModulus \in Nat /\ CountModulus > 1
    /\ ReaderKinds \subseteq {"datareader", "requester", "replier"}

VARIABLES
    kind,          \* of the object
    running,       \* running_cond_
    reader_pc,            \* of read_task, "none" if the thread is joined
    control,       \* delivery_control_
    message_count,
    sample,          \* the sample in hand, 0 if none
    late,          \* final_time has passed
    owner,         \* the processing thread: "idle", "joins" in stop_reading,
                   \* "stopped" past it, "gone" with the object
    purpose,       \* what it stops the read for: to "read" anew, to "delete"
    next,          \* the delivery control of the READ_DATA being processed
    reads,         \* READ_DATA processed: the id of the current request
    entity,        \* the middleware has the object's entity
    unread,        \* the number of the first sample DDS has not given
    published,     \* how many samples DDS has had
    read_samples,     \* <<request, sample>> written to the stream
    stops          \* how often a running thread was told to stop

reader_vars == <<kind, running, reader_pc, control, message_count, sample, late, owner, purpose, next,
          reads, entity, unread, published, read_samples, stops>>
thread == <<reader_pc, message_count, sample, late>>
dds == <<unread, published>>

Unlimited == CountModulus - 1

Controls == [max_samples : 0 .. Unlimited, timed : BOOLEAN, rated : BOOLEAN]

NoControl == [max_samples |-> 1, timed |-> FALSE, rated |-> FALSE]

ReaderInit ==
    /\ kind \in ReaderKinds
    /\ running = FALSE
    /\ reader_pc = "none"
    /\ control = NoControl
    /\ message_count = 0
    /\ sample = 0
    /\ late = FALSE
    /\ owner = "idle"
    /\ purpose = "read"
    /\ next = NoControl
    /\ reads = 0
    /\ entity = TRUE
    /\ unread = 1
    /\ published = 0
    /\ read_samples = << >>
    /\ stops = 0

(***************************************************************************)
(* The processing thread.                                                  *)
(***************************************************************************)

(* stop_reading up to the join.                                            *)
stop_reading(for_what) ==
    /\ running' = FALSE
    /\ owner' = IF running THEN "joins" ELSE "stopped"
    /\ purpose' = for_what
    /\ stops' = IF running THEN stops + 1 ELSE stops

Join ==
    /\ owner = "joins"
    /\ reader_pc = "done"
    /\ reader_pc' = "none"
    /\ owner' = "stopped"
    /\ UNCHANGED <<kind, running, purpose, control, message_count, sample, late, next, reads, entity,
                   dds, read_samples, stops>>

(* READ_DATA: the read that goes on is stopped first.                      *)
ReadData(ctl) ==
    /\ owner = "idle"
    /\ reads < MaxReads
    /\ next' = ctl
    /\ stop_reading("read")
    /\ UNCHANGED <<kind, thread, control, reads, entity, dds, read_samples>>

start_reading ==
    /\ owner = "stopped" /\ purpose = "read"
    /\ owner' = "idle"
    /\ control' = next
    /\ reads' = reads + 1
    /\ running' = TRUE
    /\ reader_pc' = "read"
    /\ message_count' = 0
    /\ sample' = 0
    /\ late' = FALSE
    /\ UNCHANGED <<kind, purpose, next, entity, dds, read_samples, stops>>

(* The destructor: that of a data reader stops the thread before it gives  *)
(* up the entity, those of requesters and repliers the other way round.    *)
Delete ==
    /\ owner = "idle"
    /\ stop_reading("delete")
    /\ entity' = (kind = "datareader")
    /\ UNCHANGED <<kind, thread, control, next, reads, dds, read_samples>>

delete_datareader ==
    /\ owner = "stopped" /\ purpose = "delete"
    /\ owner' = "gone"
    /\ entity' = FALSE
    /\ UNCHANGED <<kind, running, thread, control, purpose, next, reads, dds, read_samples, stops>>

(***************************************************************************)
(* read_task.                                                              *)
(***************************************************************************)
Others == UNCHANGED <<kind, running, control, owner, purpose, next, reads, entity, stops>>

(* Is the sample larger than the bucket?                                   *)
TooBig(s) == control.rated /\ s \in Big

(* The middleware looks the entity up and waits in it.                     *)
EnterRead ==
    /\ reader_pc = "read"
    /\ reader_pc' = IF entity THEN "wait" ELSE "check"
    /\ UNCHANGED <<message_count, sample, late, dds, read_samples>>
    /\ Others

Take ==
    /\ reader_pc = "wait"
    /\ entity
    /\ unread <= published
    /\ sample' = unread
    /\ unread' = unread + 1
    /\ reader_pc' = "consume"
    /\ UNCHANGED <<message_count, late, published, read_samples>>
    /\ Others

ReadTimeout ==
    /\ reader_pc = "wait"
    /\ entity
    /\ unread > published
    /\ reader_pc' = "check"
    /\ UNCHANGED <<message_count, sample, late, dds, read_samples>>
    /\ Others

(* The entity was destroyed while the thread waited in it: nothing is      *)
(* known of what follows.                                                  *)
ReadDestroyed ==
    /\ reader_pc = "wait"
    /\ ~entity
    /\ reader_pc' = "undefined"
    /\ UNCHANGED <<message_count, sample, late, dds, read_samples>>
    /\ Others

PassBucket ==
    /\ reader_pc = "consume"
    /\ ~TooBig(sample)
    /\ reader_pc' = "write"
    /\ UNCHANGED <<message_count, sample, late, dds, read_samples>>
    /\ Others

(* A plausible bug: the wait for tokens goes on after a stop.              *)
ConsumeTimeout_waits ==
    /\ reader_pc = "consume"
    /\ control.rated
    /\ UNCHANGED <<thread, dds, read_samples>>
    /\ Others

ConsumeTimeout ==
    /\ reader_pc = "consume"
    /\ control.rated
    /\ reader_pc' = IF running THEN "consume" ELSE "check"
    /\ UNCHANGED <<message_count, sample, late, dds, read_samples>>
    /\ Others

Write ==
    /\ reader_pc = "write"
    /\ read_samples' = Append(read_samples, <<reads, sample>>)
    /\ message_count' = (message_count + 1) % CountModulus
    /\ sample' = 0
    /\ reader_pc' = "check"
    /\ UNCHANGED <<late, dds>>
    /\ Others

(* A plausible bug: a sample is given up when its write times out.         *)
WriteTimeout_givesUp ==
    /\ reader_pc = "write"
    /\ reader_pc' = "check"
    /\ UNCHANGED <<message_count, sample, late, dds, read_samples>>
    /\ Others

WriteTimeout ==
    /\ reader_pc = "write"
    /\ reader_pc' = IF running THEN "write" ELSE "check"
    /\ UNCHANGED <<message_count, sample, late, dds, read_samples>>
    /\ Others

(* stop_cond, and the condition of the loop.                               *)
Check ==
    LET stop_cond == \/ control.max_samples # Unlimited /\ message_count = control.max_samples
                     \/ late
    IN  /\ reader_pc = "check"
        /\ reader_pc' = IF running /\ ~stop_cond THEN "read" ELSE "done"
        /\ sample' = 0
        /\ UNCHANGED <<message_count, late, dds, read_samples>>
        /\ Others

(***************************************************************************)
(* The clock and DDS.                                                      *)
(***************************************************************************)
Elapse ==
    /\ control.timed
    /\ reader_pc \notin {"none", "done", "undefined"}
    /\ ~late
    /\ late' = TRUE
    /\ UNCHANGED <<reader_pc, message_count, sample, dds, read_samples>>
    /\ Others

Publish ==
    /\ published < MaxSamples
    /\ published' = published + 1
    /\ UNCHANGED <<thread, unread, read_samples>>
    /\ Others

Thread == \/ EnterRead \/ Take \/ ReadTimeout \/ ReadDestroyed \/ PassBucket
          \/ ConsumeTimeout \/ Write \/ WriteTimeout \/ Check
Owner == Join \/ start_reading \/ delete_datareader

ReaderNext == Thread \/ Owner \/ (\E ctl \in Controls : ReadData(ctl)) \/ Delete \/ Elapse \/ Publish

(* The threads are scheduled, time passes, the bucket fills, and a client  *)
(* that is read for acknowledges again and again.                          *)
ReaderFairness ==
    /\ WF_reader_vars(Thread) /\ WF_reader_vars(Owner) /\ WF_reader_vars(Elapse)
    /\ SF_reader_vars(PassBucket) /\ SF_reader_vars(Write)

(* Without the client's help and without tokens.                           *)
ThreadsOnly == WF_reader_vars(Thread) /\ WF_reader_vars(Owner)

ReaderSpec == ReaderInit /\ [][ReaderNext]_reader_vars
ReaderFairSpec == ReaderSpec /\ ReaderFairness
ThreadsSpec == ReaderSpec /\ ThreadsOnly

--------------------------------------------------------------------------------
(***************************************************************************)
(* Properties.                                                             *)
(***************************************************************************)
ReaderTypeOK ==
    /\ running \in BOOLEAN
    /\ reader_pc \in {"none", "read", "wait", "consume", "write", "check", "done", "undefined"}
    /\ control \in Controls /\ next \in Controls
    /\ message_count \in 0 .. CountModulus - 1
    /\ sample \in 0 .. MaxSamples
    /\ reads \in 0 .. MaxReads
    /\ published \in 0 .. MaxSamples /\ unread \in 1 .. published + 1

(* A sample is delivered at most once and in order, and never under the    *)
(* request of a read that was stopped before (DataReader::read,            *)
(* Reader::read_task).                                                     *)
SamplesInOrder ==
    \A i, j \in 1 .. Len(read_samples) :
        i < j => read_samples[i][2] < read_samples[j][2] /\ read_samples[i][1] <= read_samples[j][1]

(* A read with a limit delivers no more samples than that, however often   *)
(* it waits, fails and tries again (Reader::read_task).  Zero is no limit: *)
(* such a read ends when it finds nothing at once, and goes on otherwise.  *)
WithinMaxSamples ==
    (control.max_samples \notin {0, Unlimited})
        => Cardinality({i \in 1 .. Len(read_samples) : read_samples[i][1] = reads}) <= control.max_samples

(* A sample taken from DDS is delivered, unless it was in hand when the    *)
(* read was stopped: limits and time running out lose none                 *)
(* (Reader::read_task).                                                    *)
LostOnlyByStop ==
    LET lost == {s \in 1 .. unread - 1 : s # sample /\ \A i \in 1 .. Len(read_samples) : read_samples[i][2] # s}
    IN  Cardinality(lost) <= stops

(* A thread is started only when the last one was joined: assigning to a   *)
(* joinable std::thread would end the Agent (Reader::start_reading, whose  *)
(* running_cond_ stays true when a read ends by itself).                   *)
StartsAfterJoin == owner \in {"stopped", "gone"} => reader_pc = "none"

(* The thread of a data reader never waits in an entity that is destroyed; *)
(* those of requesters and repliers may (DataReader::~DataReader,          *)
(* Requester::~Requester).                                                 *)
EntityOutlivesRead == (reader_pc = "wait" /\ ~entity) \/ reader_pc = "undefined" => kind # "datareader"

(* stop_reading returns, even if the client takes nothing any more and the *)
(* bucket never fills (the loops of Reader::read_task look at              *)
(* running_cond_).                                                         *)
StopReadingReturns ==
    (owner = "joins") ~> (owner = "stopped" \/ reader_pc = "undefined")

(* A read with a limited time ends, unless it has a sample in hand that    *)
(* its rate never lets through: the loop for tokens does not look at the   *)
(* time (Reader::read_task).                                               *)
TimedReadEnds ==
    (control.timed /\ reader_pc # "done") ~> (reader_pc \in {"none", "done", "undefined"} \/ TooBig(sample))

(* A read delivers what it was asked for and no more, loses nothing by its *)
(* own limits, and its thread is safe from its owner.                      *)
ReaderInv ==
    /\ ReaderTypeOK /\ SamplesInOrder /\ WithinMaxSamples /\ LostOnlyByStop
    /\ StartsAfterJoin /\ EntityOutlivesRead

(* Reads end when they are stopped and when their time is over.            *)
ReadsEnd == StopReadingReturns /\ TimedReadEnds
================================================================================
