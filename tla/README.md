# TLA+ models of px4_hummingbird

This directory holds TLA+ models of the control software of the Hummingbird
vehicle, the TLC configurations that check them, and proofs that TLAPS checks.
Paths below are relative to the repository root; line numbers refer to the
commit this project was written for.  `PROJECT.json` lists, for every
definition that models code, the lines it stands for.

## 1. The system

| Component | State | Operations | Interacts with |
|---|---|---|---|
| Command node `src/px4_hummingbird_cmd/src/px4_position_cmd.cpp` | control mode, the latest message of four topics with its receive time, request timers, handoff filters | 400 Hz `on_tick`, four callbacks, 10 Hz diagnostics | PX4 through best-effort topics; the RC switch through `hummingbird_status` |
| Servo node `px4_servo_to_dynamixel.cpp` | servo registers (on the bus), filters, latest goal, outage state, port | constructor (bring-up, startup walk), `dds_callback`, 400 Hz `timeout_callback`, destructor | PX4's `actuator_servos`; Dynamixel servos over a serial bus |
| Simulation bridge `px4_servo_to_gz.cpp` | filters, receive time, return state | callback, 400 Hz timer, destructor | PX4; Gazebo joints |
| Motion-capture bridge `px4_hummingbird_opti/src/mocap_to_px4.cpp` | pending sample, input diagnostics | `onMocap`, 100 Hz `publishPx4` | motion capture; PX4's estimator |
| `utils.hpp`, `params.hpp` | none | low-pass filters, paths, limits | used by the nodes |
| Viewer `px4_multirotor_viewer.py` | plots, recordings | display, logging, replay | reads the topics |
| `libmotioncapture`, `px4_msgs` | - | drivers, message definitions | third-party and generated code |

Every topic of PX4 passes through the Micro-XRCE-DDS Agent, which is vendored
in the repository.  Its parts:

| Part of the Agent | State | Operations | Interacts with |
|---|---|---|---|
| `Server`, `PacketScheduler` | two bounded queues, `running_cond_`, `transport_rc_` | `start`, `stop`, five thread loops | the transport below, the processor above |
| `Root`, `SessionManager` | clients by key with a walking iterator; endpoint and key maps | create, delete, look-up, rounds | processing and heartbeat threads |
| `ProxyClient`, Fast DDS middleware | objects by id, entities, registers of topics and types | create (reuse, replace), delete, match | processor; DDS |
| streams, `SeqNum` | windows, queues, 16-bit numbers, fragments | push, pop, HEARTBEAT, ACKNACK, reset | processor, readers, sender |
| `Reader`, `TokenBucket` | read thread, delivery control, tokens | start, stop, read | DDS, streams |
| `Requester`, `Replier` | map of DDS numbers to client ids | write, read | DDS |
| `SharedMutex`, `SharedMutexPriority` | counters, a condition variable | lock, unlock | sessions, serial ports |
| `FramingIO`, serial agents | frame state, read and write buffers, ports | read, write, open, close | serial lines |
| XRCE types and messages | - | encode, decode, measure, copy | everything above |

What is hard here:

* *Authority.*  The pilot's switch, PX4's mode, arming and the age of four
  inputs all decide whether a setpoint may be sent, and they are combined in
  `on_tick` and in each handler differently.  The hand back to RC is triggered
  by an edge between two ticks.
* *Stale inputs, lost commands.*  Every topic is best effort.  A silent topic
  must count as withdrawn authority, and a request must be repeated.
* *Partial failure and restart.*  The servos' registers outlive the process;
  bring-up may fail anywhere, a write that reports failure may have been
  applied, the process may be killed with torque on.
* *Clocks.*  Three nodes measure on the steady clock, one on the system clock,
  and one mixes both.
* *The stream protocol.*  16-bit sequence numbers over a network that loses,
  duplicates and reorders; submessages cut into fragments at exact sizes.
* *Threads in the Agent.*  Condition variables without predicates, a shutdown
  that races with errors, bounded queues that drop, decisions taken under one
  lock and carried out under another, threads joined by those they wait for.
* *Hand-written codecs.*  Sizes, bounds, copies and encodings of about ninety
  classes are written separately and have to agree byte for byte.
* *Serial lines.*  Noise, cut-off frames, short writes, devices that vanish while
  they are read, written or scanned.

`PROJECT.json` lists these as hazards, each at its line, with the properties
that would notice it going wrong.

## 2. Modules

| Module | Models | Uses |
|---|---|---|
| `CommandAuthority` | abstract: what the command node promises | - |
| `PositionCmd` | the command node | instantiates `CommandAuthority` |
| `InputMonitor` | its input diagnostics | - |
| `ServoDynamixel` | the servo node, servos and bus | - |
| `ServoToGz` | the simulation bridge | - |
| `MocapToPx4` | the motion-capture bridge | - |
| `Nodes` | the five above side by side | extends them |
| `SeqNum` | circular sequence numbers | - |
| `ReliableChannel` | abstract: an exactly-once ordered channel | - |
| `ReliableStream` | the reliable streams and the link | `SeqNum`, instantiates `ReliableChannel` |
| `BestEffortStream` | the best-effort streams and the link | `SeqNum` |
| `Fragments` | cutting and reassembling large submessages | - |
| `Reader`, `TokenBucket` | the reading thread; the rate limit | - |
| `RequestReply` | requesters and repliers with DDS between | - |
| `SessionTraffic`, `SessionLiveness` | these side by side, safety and liveness | extend them |
| `PacketScheduler` | the queues, as operators on their value | - |
| `AgentServer` | the server's threads | `PacketScheduler` |
| `SessionManager` | the endpoint and key maps | - |
| `ClientLifecycle`, `MCClients` | clients that come and go; its settings | `SessionManager` |
| `Cdr`, `XrceTypes` | the encoding; the classes of `XRCETypes` | - |
| `XrceCodec`, `XrceMessage` | one object; whole messages | `XrceTypes` |
| `XrceObjects`, `MCXrceObjects` | the objects and entities of a client; its instances | - |
| `Xrce` | the last three side by side | extends them |
| `SharedMutex` | both reader-writer locks | - |
| `Framing`, `FrameReader`, `FrameWriter` | frames; both directions | - |
| `MultiTermios` | serial ports that come and go | - |
| `SerialParts` | the last three side by side | extends them |
| `NodesProofs` | theorems about the command node, its diagnostics, the motion-capture and the simulation bridge | `Nodes`, `TLAPS` |
| `ServoDynamixelProofs` | theorems about the node with torque | its component, `TLAPS` |
| `StreamProofs` | theorems about sequence numbers and both kinds of streams | `ReliableStream`, `BestEffortStream`, `TLAPS` |
| `SessionProofs` | theorems about fragments, reads, the rate, replies | `Fragments`, `Reader`, `TokenBucket`, `RequestReply`, `TLAPS` |
| `ClientLifecycleProofs`, `AgentServerProofs` | theorems about clients; about queues and threads | their component, `TLAPS` |
| `XrceObjectsProofs` | theorem about the objects and entities of a client | `XrceObjects`, `TLAPS` |
| `SerialProofs` | theorems about both locks, the serial ports and both directions of the framing | `SharedMutex`, `MultiTermios`, `FrameReader`, `FrameWriter`, `TLAPS` |

Several modules contain *mutated forms* of definitions (`NoDemotion`,
`NeverTheLast`, `HandoffSkipped`, ...), marked as mutants or plausible bugs.  No
specification uses them.  Each is a plausible bug; replacing the original by it
makes one property fail, which shows that the property depends on the code.

*Side by side.*  `Nodes`, `SessionTraffic`, `SessionLiveness`, `Xrce` and
`SerialParts` put components next to each other that share no variable.  A
variable `part`, which never changes, names the one that takes steps, so the
reachable states are the sum, not the product, of the components' states, and a
property of one component holds here exactly if it holds of the component's own
specification.  Where a component's environment is another component, its module
says what it allows that environment, and always more than the other does: the
reader may be let through by the bucket at any time, a transport call may return
any result.  A run lists one property per component, the conjunction of its
invariants, as defined at the end of the component's module.
A fairness condition may serve an action of each part, because
`part` is constant: `WF(A1 \/ A2)` with `A1` enabled in one part only and `A2` in
another is `WF(A1)` in the one and `WF(A2)` in the other.

### PositionCmd

Every ROS node here runs its callbacks on one single-threaded executor, so a
timer tick and a subscription callback are each one atomic action.  `on_tick`
is one action built from the handlers it calls; each handler is an operator of
the same name.  The environment delivers any legal message at any time, or
none.  Time is a discrete clock; since the code compares every age with a
constant only, ages stop counting at the first value beyond all comparisons.
Kept: all modes, guards, early returns, the order demotion - dispatch, the
request timers, what each tick publishes.  Abstracted: a position is its
distance class from the initial pose, an attitude is level or not; path
geometry, trajectory time, messages' other fields and log lines are left out.
The `has_*` flags need no variable: "never received" and "stale" pass and fail
the same tests.  `out` is what the last step published.

`CommandAuthority` knows three phases (idle, approach, follow), the distance of
the setpoint from the initial pose, and the hand back.  It promises that a path
is followed only after an approach that arrived, that the setpoint never jumps
on the way, and that each withdrawal of authority is handed back.  `PositionCmd`
maps its modes onto the phases.

### InputMonitor

`note_input` (in every callback) and `check_inputs` (a timer) share a flag per
topic.  `open_reports` counts TIMEOUT lines minus RECOVERED lines: here the log
is the output the operator works with, so it is modelled.

### ServoDynamixel

Variables: the servos' registers and shafts; the bus (`good`, `noisy`,
`unplugged`); the process.  Bring-up is one action per bus transaction that can
fail (`ping`, `inspect`, `watchdog_and_gains`, `read_position`, `hold`,
`enable_torque`), because the process can be killed, and the bus can fail,
between them.  Retries are folded into the transaction.  A failed register write
may have been applied.  The goals are different: `write_goal` sends a SyncWrite,
a broadcast that no servo answers, so that COMM_SUCCESS says no more than that
it was transmitted.  `TakenBy` writes the goal register of the servos that took
it, and `Listeners` says which may: all on a good bus, any set of them on a
noisy one, whatever the call returns.  The history variable `missed` holds the
servos that did not take the `hold` of the present bring-up.
`StopsWithoutShutdown` kills the process at any point; `Start` brings up a new
one against the registers it finds.  `TurnedByHand` moves a limp servo's shaft
while the node is down (not during the moments of bring-up between measuring a
position and holding it, against which the code has no defence).  Angles are
levels, 0 is neutral; the low-pass filter lowers a level by at most one per tick
(`Decayed`). Left out: ppr arithmetic, log counters; commands with non-finite
values, which the callback drops, change nothing and have no action.

### ServoToGz

Signed levels, control values in and out of range and non-finite, joints whose
publisher could not be advertised, and a system clock that may be set
(`GzClockSet`).  The five repetitions of the destructor's zero are one step.

### MocapToPx4

Samples are numbered; `pending`, `forwarded` and `out` hold numbers.  The age of
the pending sample runs on the system clock, which may be set, the silence of
the input on the steady clock.  The frame conversion is left out.

### SeqNum, ReliableStream, ReliableChannel

`SeqNum` translates the operators of `utils/SeqNum.hpp` for any width.
`ReliableStream` joins a `ReliableOutputStream` and a `ReliableInputStream` with
the `Processor` handlers that drive them: `push_submessage` (all fragments of a
submessage in one critical section, as in the code), `get_next_message`,
`fill_heartbeat` (from the heartbeat thread, for a client that counts as alive:
`get_state` finds that it has been silent for CLIENT_DEAD_TIME, `update_state` and
every ACKNACK that it was heard, and `alive` says which), `process_acknack`,
`process_data` (the whole of `process_input_packet`: push, pop until empty,
ACKNACK) and `process_heartbeat`.  Each stream method locks the stream's mutex
for its whole body, and the input stream is used by the processing thread only,
so these are the atomic steps.  In operation the other end is PX4's XRCE client,
which is not in the repository; the Agent's own code stands for it, as both ends
run the same protocol.  The code's state is residues; messages are absolute
numbers that the code never sees.  A run starts with a quiescent stream that has
settled `base` messages, a state the stream is in after any idle moment
(`base = 0` is the state after construction), so that short runs cross the wrap.
The network keeps a datagram for less than about `Half` (32768) further
messages: without that assumption no 16-bit number could be interpreted.

### BestEffortStream, Fragments

`BestEffortStream` has the two queues of limited depth, the numbers of both ends
and a network as above; a full queue refuses, an older or equal number is
dropped.  In `Fragments` an octet is its submessage and its place in it, the
stream between the ends is the ordered channel that `ReliableStream` implements,
`push_submessage`'s loop makes one fragment per step, `serialized_size` wraps at
`Limit` (2^16 in the code), no submessage is empty, and `Reset` is the session
reset, which keeps `fragment_msg_`; the history variable `restarted` records it.

### Reader, TokenBucket, RequestReply

`Reader` has one step for each turn of `read_task` (read from DDS, wait, consume
tokens, write to the stream, test the limits) and the processing thread's
`start_reading`, `stop_reading`, join and the destructors of data readers and of
requesters; `message_count` wraps.  What DDS publishes and when the client's
stream takes a sample are free choices.  `TokenBucket` keeps the arithmetic with
its wrap and the difference that is taken the wrong way round; a call returns
when the clock has reached the time it sleeps to.  In `RequestReply` the write
of a request to DDS and the entry in the map of numbers are two steps, as they
are two statements with the other thread between them.  Each of them, and the
look-up, is one step, although the `std::map` itself is used by two threads without
a mutex (`FastDDSEntities.cpp:1112`, `1146-1150`): what a torn access does is
undefined and not modelled.  `Timeouts` of `TokenBucket` are natural numbers;
`Reader.hpp:153` may also compute a negative rest, of which nothing is claimed.

### PacketScheduler, AgentServer

The scheduler's methods hold its mutex throughout, so they are operators on its
value.  `AgentServer` has a program counter for each of the five threads and the
thread that calls `start` and `stop`; a step is what a thread does between two
points at which another one can see the difference: before and after the wait on
`error_cv_`, a queue operation, a look at `running_cond_`.  The transport's calls
return any of their outcomes.  Besides the processing and the heartbeat thread, the
threads that read for clients push packets (`ReaderPushes`).  Message numbers are
history.  In the run the input queue has one place per priority, so two messages
of one priority wait together only in the output queue, which has the same
operators; `ServedInOrderAlways` covers every size.

### SessionManager, ClientLifecycle

`SessionManager` has one action per method.  `ClientLifecycle` adds `Root`'s map
and iterator and the two threads: CREATE_CLIENT, DELETE and other messages in
the processing thread, the rounds of `check_heartbeats` in the other, with one
step for each lock that is taken and released.  A `ProxyClient` stays alive while
a thread holds it.  `hard_liveliness_check_tries_` is not initialised by the code
and starts as any of `InitialTries`; its increment is a load and a store.

### Cdr, XrceTypes, XrceCodec, XrceMessage

`XrceTypes` describes every class of `XRCETypes.hpp` and `.cpp`: the members,
the order in which `serialize` and `deserialize` take them, what
`getCdrSerializedSize` and `getMaxCdrSerializedSize` count and what the copies
leave behind, five things the code writes separately.  `Cdr` gives them meaning:
a buffer is a sequence of bytes, each of which names the primitive it belongs to
and its place in it, so that a read at another place, width or byte order
returns garbage.  Primitive values are abstracted to their widths.  A class
whose functions agree with each other is its members and their order, and only
the deviations are spelled out. `XrceMessage` walks a message as `InputMessage`
does, subheader, alignment, byte order and binary representations included, and
builds answers as `OutputMessage` does, into a buffer sized beforehand.  The
walk ends early at a payload that cannot be read (but for CREATE and GET_INFO)
and at a WRITE_DATA that no object takes or can write, which is a free choice.

### XrceObjects

`ProxyClient::create_object` and `delete_object` with the maps of
`FastDDSMiddleware` and the entities of `FastDDSEntities`.  An entity lives while
the maps reach it; destructors erase names from the registers.  Representations
are what they say (name, type, domain, quality of service), not their text.
Whether DDS creates an entity is a free choice, except for topics, whose creation
is not looked at by the code.  Objects of the kinds the code has still to do
(`TodoKinds`) are answered with OK and not created.  `MaxEntities` bounds the
entities alive, orphans that a writer keeps included.

### SharedMutex

Both locks in one module, chosen by the variable `priority`, with the threads
that use them: readers, the upgraders of `get_reliable_output_stream` and the
writers of the serial ports, which `devs_mtx` lets through one at a time.
`exclusive_counter_` is changed outside of the mutex in a load and a store.

### Framing, FrameReader, FrameWriter

The CRC is computed (`crc16_table` from its generator).  `FrameReader` takes one
step per turn of the loop of `read_framed_msg`, or per octet of the payload; a
read returns any prefix of what the line holds, or nothing, and the remaining
timeout may become negative.  The circular buffer is the queue it implements.
`FrameWriter` has the write buffer, its flushes and `transport_write`'s loop;
`write()` takes all, nothing, or a part (the smallest and the largest are tried,
`MaxParts` times per message).

### MultiTermios

The scanning thread `init_multiport`, the receiver and the sender with the ports
they hold, and `start`, `handle_error` and `stop`, which never overlap and share
one control state.  A port stands for its descriptor; a device breaks at most
`MaxBreaks` times.  `framing_mtx` is a `SharedMutexPriority`, kept with its writer
on the count and those that sleep: a reader sleeps while a writer wants the lock,
the last reader wakes one thread of its choice, a writer that leaves wakes all.
`insert_serial` and the entry in `initialized_devs_` are two steps, because
`handle_error` compares sizes without `devs_mtx`.
`select` may fail, with no port in use too.  The server's `error_mtx_` and
`error_cv_` are reduced to two states, as `AgentServer` checks them.  A second
`start` after `stop` is left out.

The threads of this transport can hang in three ways, each named by an operator
and each reached in the run:

* `LocksCross`: `handle_error` holds `error_mtx` (`MultiTermiosAgentLinux.cpp:242`)
  and waits for `framing_mtx` (`MultiSerialAgentLinux.cpp:49`, or for the scanning
  thread that waits for it), which a receiver or sender holds shared that waits
  for `error_mtx` to note a port (lines 210, 232).
* `WakeUpLost`: the last reader of `framing_mtx` wakes another reader, which sleeps
  again because a writer wants the lock, and the writer sleeps on.
* `NotificationLost`: the scanning thread waits for more ports while `init` or
  `fini` waits for it, because a notification came before the wait.

## 3. Runs

| Run | Bounds | Shows |
|---|---|---|
| `flight_nodes` | command node: timeout 1, repeat 2, delay 1, distances 0..1; 2 servos, levels 0..1, return 2 units, broadcasts heard by any of them on a noisy bus | safety and refinement of the command node; bring-up, torque and reports of the servo node |
| `nodes` | timeouts 1 to 4, 1 servo, 2 topics, 3 joints on 2 controls, 3 samples, clock steps up to 2 | all five nodes with time: reports, hand back, requests, returns to neutral, newest sample once |
| `clients` | 3 keys, 2 endpoints, sessions with and without key, first tries 0, 2, 255; three settings | maps, reachability, iterator, removal of silent clients only, visits, silent clients leave |
| `agent_server` | queue 1, 2 messages, 2 packets, 2 errors | bounds and order of the queues |
| `agent_live` | 1 packet, 2 errors, 2 starts | errors are handled, reporters resume, stop returns but for one race |
| `session_traffic` | 10 residues, window 2, 2 fragments, 6 messages from 0 and 8; 20 best-effort messages; sizes around one and two MTUs; 4 samples, count modulo 4; rates 2, 3, 5 of 10 ms; 2 requesters, 2 repliers | exactly once and in order, new told from old, whole submessages, limits kept, rate kept, one reply each |
| `session_live` | 10 residues, 3 messages from 9, a client that falls silent and is heard again at any time; 2 reads of 1 large sample; 2 requests | everything is handed over and settled, reads end, replies arrive |
| `xrce` | lengths 0 and 3, both byte orders, offsets 0, 1, 2, 4; 2 submessages; 2 names, 2 types, 2 qualities of service of topics, at most 6 entities | codecs, messages and objects |
| `serial` | 2 devices, receiver and sender, 2 breaks, closes that fail, spurious wake-ups, from a start that opened every port; 7 threads on the locks; buffers of 6 and 10 octets, every cut of a frame and other noise before good ones | ports are accounted for and reopen but for three hangs; locks; both directions of the framing |
| `handoff_starts_ready`, `offboard_waits_after_mode_change`, `stream_within_depth` | as above | violations, see below |

Why the bounds suffice.  Time constants only matter through the order in which
ages pass them, so a few units leave room for "fresh", "exactly at the limit"
and "past it"; two distance classes tell "arrived" from "not arrived".  Two
servos give every mixture of one servo configured and one not.  In the streams,
two fragments exceed a window of two, 6 messages exceed half the number range,
20 best-effort messages go round it and more than half round again, and both the
first and the last residues are used.  Fragment sizes include one below, at and
above each multiple of what fits.  A queue of one is full after one packet.  In
`clients`, the setting `sessions` lets two clients meet at two endpoints,
`liveliness` watches one client with every interleaving of its words with the
rounds, `rounds` lets the iterator walk over two clients that come and go.  The
offsets of `xrce` cover every residue of the alignments 2 and 4; symmetry of
names and of types is sound because no definition tells them apart (the run
checks invariants only).  The serial buffers are smaller than the frames, so
every octet is once the last to fit.  A bounded control channel loses what does
not fit, which the link may do anyway.  In `serial` two breaks let both ports
fail at once, one fail twice, and one fail while the other is closed or opened.
The start itself (`StartedUp`) is left out of this run for its size;
`PortsAreSafe` covers it.  Nothing tells the devices apart, so
`FailedPortsReopen` is stated of one of them.

`CHECK_DEADLOCK FALSE` is used where a system may stop: the destroyed simulation
bridge and the side-by-side modules, in which a part has nothing to do once its
bounds are reached; the server, which nobody need start again.

Fairness.  `rclcpp::spin` serves a periodic timer again and again and time does
not stop: weak fairness of the tick and of the clock.  Threads of the Agent that
can go on do: weak fairness of each thread's steps.  The link of a stream is
fair: a datagram sent again and again arrives (strong fairness of each
reception).  HEARTBEATs go out only while the client counts as alive, so
`fill_heartbeat` is strongly fair, and `StreamSettles` has the hypothesis that
the client is heard again and again (`[]<>alive`): its silence after 30 s ends
the HEARTBEATs (`ProxyClient.cpp:746-757`, `Processor.cpp:985-986`), and a
client that only listens then never gets what it missed.  That it is strong is
what the periods give: 30 s of being alive hold 150 rounds of the heartbeat
thread.  In `session_live`, a read whose client takes samples passes the bucket
and writes again and again (strong, `part = "reading"`), a read of a client that
is gone does not (`"abandoned"`), and the clock passes the time limit.  For the
serial ports: threads that can go on do (weak), a device that stays plugged in
can be opened at some attempt, and `devs_mtx`, which the scan releases for 10 ms
in each turn, is got in the end by who waits for it (both strong).  Nothing is
assumed of `framing_mtx`: whom its `notify_one` wakes is a free choice.  In
`AgentServer`, `handle_error` returns; the multi-port serial transport does not
guarantee that (see `MultiTermios`).  For a line: octets that are there are read
at some attempt.  No fairness is assumed of messages, of users, of bus repair or
of PX4; the liveness properties have what they need of these as hypotheses.

### Disagreements between text and code

1. `handoff_starts_ready`.  The log promises that the handoff starts "after
   offboard and arm are ready" (`px4_position_cmd.cpp:434`).  With `auto_arm`,
   `wait_arm` does not look at OFFBOARD again; TLC shows PX4 leaving OFFBOARD
   while the node waits for arming, and the handoff starting all the same.
2. `offboard_waits_after_mode_change`.  `params.hpp:14` calls the delay a
   waiting time after changing the control mode; the code measures it from the
   start of the node, and a later change is followed by a request at once.
3. `stream_within_depth`.  A test's comment says that no more than
   `RELIABLE_STREAM_DEPTH` messages shall be pushed; `push_submessage` checks
   the window once and pushes all fragments.

### What the properties leave out, and why

Some properties are stated with an exception, because without it TLC finds a
behaviour of the code that breaks them.  The exceptions are part of what the
models say about the code:

* `StopHangsOnlyInAWait`: `stop` hangs when the receiver or the sender begins to
  wait for `error_cv_` after its `notify_all`; the wait has no predicate.
* `ProcessedInOrder` is per priority: a message that starts with a HEARTBEAT and
  goes on with data is queued with the heartbeats.
* `RemovalIsEarned`: a client that speaks while the heartbeat thread is counting
  may be removed all the same, and one that never spoke may be removed early,
  because its count is not initialised.
* `RegisteredClientsReachable` leaves out clients with hard liveliness: the
  heartbeat thread that removes one by key may take the maps' entries of its
  successor.  It is about clients whose headers do not carry their key, and it
  needs that no other client's do: one that names its key in its headers may
  speak from another client's endpoint and take it over in the maps.  In the run
  the clients that come and go are of the first kind; `ClientsStayReachable` has
  it as an assumption, `AddressedByEndpoint`.
* `SizeIsExactWhereUsed`, `MaxIsAnUpperBoundWhereUsed`,
  `CopyIsFaithfulWhereUsed`: the classes named there are miscounted or not copied
  in full; the Agent never measures or copies them with something in the
  affected place.  `ReadsBackWhatWasWritten` leaves out sequences of samples,
  whose lengths are not on the wire.
* `TorqueOnWithoutJump`, and the goal register in `BringUp`: a servo that missed the
  hold, a broadcast that is not acknowledged, gets torque under the goal of an
  earlier run and may jump; `initial_setting` does not read the register back.
  For the others there is no jump.
* `StreamSettles`: needs a client that is heard again and again, see Fairness.
* `FailedPortsReopen`: a port whose error is handled reopens, is given up or could
  not be closed, the agent is stopped, or the threads hang in one of the three
  ways listed under `MultiTermios`.
* `WalkReachesTheEnd`: what follows a WRITE_DATA that could not be written is not
  read (`Processor.cpp:509`).
* `SameRepresentationMatchesWhereAsAsked`: a client that asks again for what it
  has is refused when its domain was overridden, or when it shares a topic of
  another type or quality of service, which the first to ask decided
  (`FastDDSMiddleware.cpp:171-178`).  The kinds still to do are answered with OK and
  nothing is there.  (Conversely the binary form of an endpoint is matched
  without a look at its topic.)
* `LaterRepliesAreSentBack`: a reply that is read before its request's number was
  remembered is dropped.
* `TimedReadEnds`: the loop for tokens does not look at the time, so a sample
  larger than the bucket holds the read for ever.  `EntityOutlivesRead`: the
  entity of a requester or replier may be deleted under its reading thread.
* `RateKept` is checked and proved for rates above one: with a rate of one the
  wait is computed as a negative one.
* `SubmessagesInOrder` holds up to a reset, which keeps the fragments collected
  so far, and for submessages below 2^16 octets.
* `SuccessIsAFrame`, `PrefixOfFrame`: after a write that took a part the whole
  buffer is written again, so the line holds repeated octets while the sum of
  the lengths may still come out right.
* `BackInStep` allows the loss of one good frame after noise.  `FrameReader` with
  two ports delivers payloads mixed from both, because the payload buffer is
  shared and the CRC is computed from the octets read; the run has one port.
* `SleepersWillBeWoken`: `SharedMutex` loses no wake-up.  The last reader of
  `SharedMutexPriority` may wake a reader, which goes back to sleep because a
  writer wants the lock; the property says that this is the only way, and that a
  writer and a reader are then asleep both.
* In `MultiTermios` a port that works may be closed on account of an earlier
  failure; no property promises otherwise.

## 4. Proofs

`NodesProofs` proves of the command node, for all values of the timing constants
and of `Far`:

* `TypeCorrect`: `Spec => []TypeOK`.  `TypeOK` is inductive; one lemma per
  handler, then `on_tick`, then `Next`.
* `EdgeNeverMissed`: `[]EdgeNotMissed`, the invariant the edge-triggered hand
  back rests on.  It is inductive: a streaming mode is entered or kept only by
  a tick that sees DDS control enabled, and that tick sets the flag.
* `HandsBackAlways`: the action property `HandsBack`, which needs
  `EdgeNotMissed`: without it the tick that loses authority might not see the
  edge.
* `WaitArmOnlyWithAutoArm`, `SetpointsAuthorised`: the other two invariants.
* `Refinement`: `Spec => ImplementsAuthority`.  The mapping is state for state;
  the step case splits over the handlers, with `TypeOK` for the range of the
  distance and `EdgeNotMissed` for the hand back.

Assumptions: `TimingAssumption` only (natural numbers; the repeat time is not
zero).

`ServoDynamixelProofs` proves, for any number of servos, levels and times:

* `TypeCorrect`, and `BringUpAlways`: the inductive invariant `BringUpInv`.  None
  of the three properties below is inductive: that a servo gets torque in place
  depends on what four earlier loops of `initial_setting` did to it, each of
  which may have been interrupted.  `BringUpInv` says what each loop has
  achieved for the servos it has passed: inspected servos are in position mode
  and the local torque flag is right, measured servos have not moved, and the
  goal of each servo that heard the hold is the measured position when the torque
  loop starts.  One lemma per loop extends this to the servo the loop is at.
* `ReadyServosAlways`, `TorqueKeptAlways`, `TorqueOnWithoutJumpAlways`: the
  invariant and the two action properties that follow.  The second is about servos
  that did not miss the hold; of the others nothing can be proved.
* `GoalTracksFilterAlways` (needs that no command arrives before bring-up is
  over, `GoalInv`) and `ShutdownReportTrueAlways` (needs that success so far
  means the servos passed so far are limp, `ReportInv`).

The run `flight_nodes` checks the conjunction `ServoInv` as well.
Assumption: `ServoAssumption` only (natural numbers; at least one servo, no zero
times).

`NodesProofs` proves of the other nodes, for any topics, joints, limits and clock
steps:

* `NodeReportsAlwaysTrue`: the invariant `NodeReportsAreTrue` of the command
  node's diagnostics and of the motion-capture bridge.  Both halves are inductive
  with their types: a TIMEOUT line that nobody answered needs the flag, and the
  flag needs the silence.
* `RecoveryAlwaysWarns`, an action property: since no topic's gap limit exceeds
  the timeout, the callback that ends a reported outage also warns of the gap.
* `NewestOnceAlways`, the action property `NewestOnce`, from `PendingIsNew`: what
  waits to be forwarded is the newest sample and newer than what was forwarded.
* `JointsAlwaysAgree`: the invariant of the simulation bridge, which is inductive
  with the bounds of its two clocks.

Assumptions: `MonitorAssumption`, `MocapAssumption`, `GzAssumption` (natural
numbers, limits in the order the code has them).

`StreamProofs` proves, for every width of the numbers, every depth and base:

* `CircularOrder`: `operator<` on the residues of two numbers less than `Half`
  apart is `<` on the numbers.  Each number is written as turns times modulus
  plus residue; the turns differ by at most one, and the three cases are
  compared.
* `StreamIsSafe`: `[]StreamInv`.  The code has residues only, so the inductive
  `StreamIInv` says which absolute numbers they stand for: the sender's window is
  an interval from the oldest message not acknowledged to the last one pushed
  (`Sender`), the receiver holds, behind what it has handed over, only messages
  of that interval (`Receiver`), and every datagram in the network names numbers
  that are close enough to both for `CircularOrder` (`Network`).  One lemma per
  handler.
* `StreamRefinesChannel`: `StreamSpec => ImplementsChannel`.  A push maps to a
  push, a `process_data` to the deliveries of all it hands over, everything else
  stutters; that a delivery is the next message is `Receiver`.
* `BestEffortOrdered`: the action property of the best-effort stream, from an
  invariant that ties `last_received` to the newest number seen and orders what
  waits between it and what was handed on.

Assumptions: `StreamAssumption` (the window and the fragments of one submessage
together stay below `Half`, and no datagram is older than that allows; the code
has a window of 16 and 2^15), `BestEffortAssumption` (`Lifetime < Half`).

`SessionProofs` proves, for any number of submessages, samples and requests:

* `SubmessagesArriveWhole`: `[]FragmentsInv`.  The inductive invariant follows one
  chain of octets: what has been cut is a beginning of the submessage being
  pushed (`Cuts`), and the queue leads, fragment by fragment, from what the
  receiver has collected to what the sender has cut (`Connected`).  The second
  half holds until the client starts anew, as in the model.  Hypothesis
  `FitsWidth`: submessages are shorter than `Limit`, beyond which
  `serialized_size` wraps.
* `RepliesFindRequests`: `[]RepliesInv`.  The invariant: a remembered number has
  the id it was written with (`Remembers`), a reply names the request it answers
  (`Honest`), and a number that was answered is not remembered again
  (`Settled`), which is why no second reply gets through.
* `ReadsAreSafe`: `[]ReaderInv`, for any count modulus.  `ControlInv` says who has
  stopped whom and who may hold a sample; `InTurn` that what left is in order and
  belongs to the read that was on; `Counts` that `message_count` is what was
  written for this read, up to its wrap; `LosesByStop` that every missing sample
  has a stop of its own.
* `RateIsKept`: `[]BucketInv`, for all rates above one, timeouts and clock bounds.
  `RateKept` alone is not inductive, because a call that waits changes the bucket
  at a time that has not come.  `Account` counts what was taken, what the running
  call will take and what is left against the time of the last success; that
  modulus and division only take away carries it through `consume_tokens`, and
  that a rate above one keeps the wrapped wait positive carries it through the
  wait.  Hypothesis `RatesAboveOne`.

`ClientLifecycleProofs` proves, for any endpoints, sessions and initial counts,
and any finite set of keys:

* `MapsAlwaysAgree`: after any calls of `establish_session` and both forms of
  `destroy_session` an endpoint's client has that endpoint.  Inductive with the
  maps' type; one lemma per method, over one about the erasure they share.
* `ThreadsKeepAgreement`: the same for the two threads of `ClientLifecycle`, whose
  steps call these methods or leave the maps alone.
* `RootStaysSound`: `[]ClientsInv`, from `LifeInv`: the iterator is valid, a proxy
  lives exactly while the map or a thread points to it, and what each thread
  knows at each of its places.
* `RemovalAlwaysEarned`: `RemovalIsEarned` from `AllEarned`, which bounds the count
  of a proxy by its silent rounds at each place where the heartbeat thread may be
  between its load and its store.
* `ClientsStayReachable`: `RegisteredClientsReachable` from `ReachInv`: the source of
  the message being processed belongs to nobody but the client it is about, and
  who is in Root's map has an endpoint or is about to get it.  Hypothesis
  `AddressedByEndpoint`: no client's headers carry its key, see section 3.

Assumptions: `NoneAssumption`, `NoProxyAssumption` (the null values are not
endpoints, keys or proxies), `SessionsAssumption`, `KeysAssumption`,
`HardAssumption`, `TriesAssumption`.

`AgentServerProofs` proves, for every queue size and any number of messages,
packets, errors and starts:

* `ServerIsSafe`: `[]ServerInv`.  The queues may exceed their limit by the one
  packet that `push_front` puts back, so the inductive `ServerIInv` says who may
  hold a packet at which place (`PacketHeld`, `RoomToPutBack`), next to the order
  of both queues.
* `ServedInOrderAlways`: the action property `ServedInOrder`, from `InputInOrder`
  and `OutputInOrder`: what a thread holds is older than what waits and younger
  than what was served.

Assumptions: `QueueSizeAssumption`, `BoundsAssumption` (the bounds are natural
numbers).

`SerialProofs` proves:

* `LocksAreSafe`: `[]LockInv` for both locks and any finite set of threads: exclusion
  and counting of both, and no lost wake-up, but for the one of
  `SharedMutexPriority` that leaves a writer and a reader asleep.  The
  invariant is that each counter is the cardinality of the set of threads at the
  places that count, although one of them is changed outside the mutex in a load
  and a store, which works because writers come in turn (`WritersInTurn`).
* `PortsAreSafe`: `[]PortsInv` for any finite set of devices.  The counts of
  `NoPortIsLost` are not inductive; the partition behind them (`Accounted`) is,
  with what each thread knows of the lists while it walks them
  (`WalksAreCurrent`) and of the port it uses.  That the threads do not hang is not
  part of it.
* `WriterSendsFrames`: `[]FrameWriterInv`, for any messages of octets, any buffer of
  at least nine octets and however the port takes its parts: the content of the
  line as long as every write takes all, its length after a part.  The invariant: the
  octets on the line, in the buffer and still to come make up the frame
  (`Covers`, `Underway`), in number alone once a part was written; `bytes_written`
  is short of the buffer.  `BufferHolds` follows at the header, whose five octets
  need up to nine places and are added without looking at the result.
* `ReaderStaysTyped`: `[]FrameReaderTypeOK` for any number of ports and any octets:
  the payload is never written behind the agent's buffer, the read buffer holds.
  The invariant `ReaderTypes` adds the range of the position and of the length in
  each state.
* `CleanLineIsRead`: `[]CleanLineArrives`, for any messages and however reads and
  calls cut the line.  The invariant `ReaderInStep`: some first messages have
  arrived; between frames, what is unread are the frames of the rest; in a frame,
  the fields read so far and the running CRC are those of a beginning of it, and
  what is unread is the rest of it and the next ones.  Hypothesis: one port.  With
  several, a call for one port may leave a frame half read in the buffer that the
  next call fills for another; the code has one `framing_io` per port and one
  buffer for all.
* `CleanReaderIsSafe`: all of `FrameReaderInv`, with the two further hypotheses that
  no script has noise and each has a message.

Frames, their unstuffing and the CRC are functions of the number of octets, and
what they give for every message is shown by `SetInduction`: if each number has
what its predecessors have, all numbers have it, for else the numbers below the
first exception would fit into a smaller set.  So the framing needs no induction
theorem with an operator parameter.

Assumptions: `RolesAssumption`, `TermiosAssumption` (finite sets, `NoThread` is no
thread), `BufferAssumption`, `PartsAssumption`, `MessagesAssumption` (messages are
not empty, and of octets), `FrameReaderAssumption`, `ScriptsAssumption` (what a
line carries are octets, and messages that fit the agent's buffer).

`XrceObjectsProofs` proves `ObjectsStayConsistent`, `[]ObjectsInv`, for any ids,
names, types, qualities of service, formats and domains and whatever DDS
refuses.  The inductive `ObjectsIInv` says of a state: every entity keeps alive
what its constructor was given, of the kinds that it needs (`SoundHeap`); the
registers of topics and types name entities that live, and each topic is in its
participant's register (`SoundTopics`, `SoundTypes`, `TopicsRegistered`); every
object has an entity of its kind (`SoundMaps`), and it is the one that was asked
for (`AskedFor`).  Half way through the creation of a topic the topic lives and
the register does not name it yet, so each operator is shown to keep
`AlmostSound`, and whole operations to keep `Sound`.  Assumptions:
`UsesAssumption`, `DomainAssumption`.

Checked by TLC only:

* liveness, and everything that rests on fairness or `ENABLED`, which are outside
  this prover's reach (`RequestsComplete`, `OutagesEndAtNeutral`, `ErrorsPass`,
  `StreamSettles`, `ReadsEnd` and the like; `SilenceComesToLight` but for its part
  `RecoveryWarnsOfGap`);
* `CodecInv` and `MessageInv`: `Cdr` and `XrceTypes` are recursive over the structure
  of values, and what they compute for every value is an induction over data;
* `FrameReaderInv` on lines with noise (`DeliveredWasSent`, `BackInStep`).  For every
  noise it is not even true: noise may hold a frame with a right CRC, or its octets
  may complete one.  The run has the noises that matter, each cut of a frame among
  them; `ReaderStaysTyped` and, on the clean lines, `CleanLineIsRead` hold for all.

## 5. Plan

1. (done) `PositionCmd` with its promise and proofs; `ServoDynamixel`; the three
   smaller nodes; the reliable stream.
2. (done) The Agent: server threads, clients, objects, types and messages,
   best-effort streams and fragments, readers, requests, locks, framing and
   serial ports.
3. (done) Proofs, in modules that extend the component and `TLAPS`: every safety
   invariant that a run checks, but for those section 4 lists as TLC's.
4. Composition of `PositionCmd` with PX4's mode logic as an environment, to
   judge the once-only POSCTL command; the viewer's recorder and replay.

## 6. Not modelled

Real-valued geometry (paths, rotations, filters beyond their direction and
bound) is out of TLC's reach.  `px4_msgs` is generated, the motion-capture drivers
are third-party device I/O, launch files and scripts start processes and keep no
state.  Of the Agent: the UDP, TCP, CAN and custom transports, discovery and the
p2p broker are system calls whose results `AgentServer` takes as free choices;
the CED middleware is not the one the run script uses; DDS itself is an
environment; the argument parser and the logger carry no protocol logic; streams
of kind "none" are plain queues; `start` after `stop` of the multi-port serial
transport is left out of `MultiTermios`.
