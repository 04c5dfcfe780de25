----------------------------- MODULE FrameReader -----------------------------
(***************************************************************************)
(* FramingIO::read_framed_msg, the state machine that finds frames in the  *)
(* octets of a serial line, as SerialAgent (one port) and MultiSerialAgent *)
(* (several ports) call it.  Each port has a FramingIO with a read buffer  *)
(* and the state of the frame being read, which outlives a call: a call    *)
(* ends when the line has nothing to give in time, and the next one goes   *)
(* on where it stopped.  The payload is put into the buffer of the agent,  *)
(* of which there is one for all ports.                                    *)
(*                                                                         *)
(* One step is one turn of the loop, or one octet of the payload.  The     *)
(* circular read buffer is the queue it implements.                        *)
(***************************************************************************)
EXTENDS Framing, FiniteSets, FiniteSetsExt

CONSTANTS Ports,       \* serial ports
          Scripts,     \* what comes in: [noise, msgs], octets and then frames
          ReadBuffer,  \* sizeof(read_buffer_)
          MaxMessage,  \* sizeof(buffer_) of the agent
          NoPort       \* no port is being read

ASSUME FrameReaderAssumption ==
    /\ ReadBuffer \in Nat \ {0, 1} /\ MaxMessage \in Nat
    /\ NoPort \notin Ports

\* What a client sends are octets, in messages that the agent's buffer and the
\* length field have room for; the noise is whatever octets.
ASSUME ScriptsAssumption ==
    \A s \in Scripts :
        /\ s.noise \in Seq(Octets) /\ s.msgs \in Seq(Seq(Octets))
        /\ \A i \in DOMAIN s.msgs :
              Len(s.msgs[i]) >= 1 /\ Len(s.msgs[i]) <= MaxMessage /\ Len(s.msgs[i]) < 65536

\* What is on the line: the noise, then the frames.
Sequence(s) ==
    s.noise \o FlattenSeq([i \in DOMAIN s.msgs |-> Frame(Remote, Local, s.msgs[i])])

VARIABLES script,     \* what was sent on each port
          line,       \* octets that have not been read from each port
          framing_io,         \* the FramingIO of each port
          buf,        \* buffer_
          active,     \* the port whose read_framed_msg is running, or NoPort
          late,       \* the call's timeout has become negative
          delivered   \* messages handed on, for each port

frame_reader_vars == <<script, line, framing_io, buf, active, late, delivered>>

States == {"UNINITIALIZED", "SRC_ADDR", "DST_ADDR", "LEN_LSB", "LEN_MSB",
           "PAYLOAD", "CRC_LSB", "CRC_MSB"}

NewIO == [state |-> "UNINITIALIZED", queue |-> << >>, remote |-> 0,
          len |-> 0, pos |-> 0, crc |-> 0, cmp |-> 0]

FrameReaderInit ==
    /\ script \in [Ports -> Scripts]
    /\ line = [p \in Ports |-> Sequence(script[p])]
    /\ framing_io = [p \in Ports |-> NewIO]
    /\ buf = [i \in 1 .. MaxMessage |-> 0]
    /\ active = NoPort /\ late = FALSE
    /\ delivered = [p \in Ports |-> << >>]

UInt16Max == 65535

\* The type of the state.
FrameReaderTypeOK ==
    /\ \A p \in Ports :
          /\ framing_io[p].state \in States
          /\ Len(framing_io[p].queue) < ReadBuffer
          /\ framing_io[p].state = "PAYLOAD" => framing_io[p].pos <= framing_io[p].len /\ framing_io[p].len <= MaxMessage
          /\ {framing_io[p].len, framing_io[p].crc, framing_io[p].cmp} \subseteq 0 .. UInt16Max
    /\ buf \in [1 .. MaxMessage -> Octets]
    /\ active \in Ports \cup {NoPort} /\ late \in BOOLEAN
    /\ active = NoPort => ~late

-----------------------------------------------------------------------------

\* get_next_octet: [rv, octet, rest of the queue].
get_next_octet(q) ==
    IF q = << >> THEN [rv |-> FALSE, octet |-> 0, rest |-> q]
    ELSE IF Head(q) # Esc
    THEN [rv |-> Head(q) # Begin, octet |-> Head(q), rest |-> Tail(q)]
    ELSE IF Len(q) = 1 THEN [rv |-> FALSE, octet |-> 0, rest |-> q]
    ELSE IF q[2] = Begin THEN [rv |-> FALSE, octet |-> Begin, rest |-> SubSeq(q, 3, Len(q))]
    ELSE [rv |-> TRUE, octet |-> Xor(q[2], XorFlag), rest |-> SubSeq(q, 3, Len(q))]

\* The place before the tail stays free.
Room(q) == ReadBuffer - 1 - Len(q)

\* transport_read: n octets, no more than asked for, than are there and than
\* the queue has room for.  None when they do not come in time: but poll()
\* with a negative timeout waits until there is one.
Readable(p, q, max) ==
    (IF late /\ Room(q) > 0 THEN 1 ELSE 0) .. Min({max, Len(line[p]), Room(q)})

\* The time that passed is taken off the timeout, and may exceed it.
Timed == IF active' = NoPort THEN late' = FALSE ELSE late' \in {late, TRUE}

ReadTo(p, n, fio, q) ==
    /\ line' = [line EXCEPT ![p] = SubSeq(@, n + 1, Len(@))]
    /\ framing_io' = [framing_io EXCEPT ![p] = [fio EXCEPT !.queue = q \o SubSeq(line[p], 1, n)]]

\* A turn that does not read: the timeout counts for this call only.
EndOrKeep == late' = (late /\ active' # NoPort)

Set(p, fio) == framing_io' = [framing_io EXCEPT ![p] = fio] /\ UNCHANGED line

\* A call begins; an empty queue is filled first, and the call ends if it stays
\* empty.  With several ports select() has to report the port.
Call(p) ==
    /\ active = NoPort
    /\ Cardinality(Ports) > 1 => line[p] # << >>
    /\ LET q == framing_io[p].queue
       IN IF q # << >> THEN active' = p /\ UNCHANGED <<line, framing_io>>
          ELSE \E n \in Readable(p, q, 5) :
                  /\ ReadTo(p, n, framing_io[p], q)
                  /\ active' = IF n > 0 THEN p ELSE NoPort
    /\ Timed
    /\ UNCHANGED <<script, buf, delivered>>

\* Mutant: without a begin flag the octets are kept.
FindBegin_keeps(p) ==
    /\ active = p /\ framing_io[p].state = "UNINITIALIZED"
    /\ LET q == framing_io[p].queue
           i == SelectInSeq(q, LAMBDA o : o = Begin)
       IN IF i > 0
          THEN /\ Set(p, [framing_io[p] EXCEPT !.state = "SRC_ADDR", !.queue = SubSeq(q, i + 1, Len(q))])
               /\ UNCHANGED active
          ELSE /\ UNCHANGED <<framing_io, line>>
               /\ active' = NoPort
    /\ EndOrKeep
    /\ UNCHANGED <<script, buf, delivered>>

\* UNINITIALIZED: everything up to the begin flag is thrown away.
FindBegin(p) ==
    /\ active = p /\ framing_io[p].state = "UNINITIALIZED"
    /\ LET q == framing_io[p].queue
           i == SelectInSeq(q, LAMBDA o : o = Begin)
       IN IF i > 0
          THEN /\ Set(p, [framing_io[p] EXCEPT !.state = "SRC_ADDR", !.queue = SubSeq(q, i + 1, Len(q))])
               /\ UNCHANGED active
          ELSE /\ Set(p, [framing_io[p] EXCEPT !.queue = << >>])
               /\ active' = NoPort
    /\ EndOrKeep
    /\ UNCHANGED <<script, buf, delivered>>

\* What an octet of the header or the CRC does, and the octets asked for when
\* it is not there.
OctetTaken(fio, o) ==
    CASE fio.state = "SRC_ADDR" -> [fio EXCEPT !.state = "DST_ADDR", !.remote = o]
      [] fio.state = "DST_ADDR" ->
            [fio EXCEPT !.state = IF o = Local THEN "LEN_LSB" ELSE "UNINITIALIZED"]
      [] fio.state = "LEN_LSB" -> [fio EXCEPT !.state = "LEN_MSB", !.len = o]
      [] fio.state = "LEN_MSB" ->
            LET len == fio.len + 256 * o
            IN [fio EXCEPT !.len = len, !.pos = 0, !.cmp = 0,
                  !.state = IF MaxMessage < len THEN "UNINITIALIZED" ELSE "PAYLOAD"]
      [] fio.state = "CRC_LSB" -> [fio EXCEPT !.state = "CRC_MSB", !.crc = o]
      [] fio.state = "CRC_MSB" -> [fio EXCEPT !.state = "UNINITIALIZED", !.crc = @ + 256 * o]

Wanted == [SRC_ADDR |-> 4, DST_ADDR |-> 3, LEN_LSB |-> 2, LEN_MSB |-> 1,
           CRC_LSB |-> 2, CRC_MSB |-> 1]

\* The call ends after the last octet of a frame and when the length is too big.
EndsCall(fio, taken) ==
    \/ fio.state = "CRC_MSB"
    \/ fio.state = "LEN_MSB" /\ taken.state = "UNINITIALIZED"

\* rv = msg_len_ when the CRCs agree; a message of no octets is none.
Deliver(p, fio) ==
    delivered' = IF fio.cmp = fio.crc /\ fio.len > 0
                 THEN [delivered EXCEPT ![p] =
                          Append(@, [remote |-> fio.remote, msg |-> SubSeq(buf, 1, fio.len)])]
                 ELSE delivered

ReadOctet(p) ==
    /\ active = p /\ framing_io[p].state \in DOMAIN Wanted
    /\ LET got == get_next_octet(framing_io[p].queue)
           taken == OctetTaken([framing_io[p] EXCEPT !.queue = got.rest], got.octet)
       IN /\ got.rv
          /\ Set(p, taken)
          /\ active' = IF EndsCall(framing_io[p], taken) THEN NoPort ELSE p
          /\ IF framing_io[p].state = "CRC_MSB" THEN Deliver(p, taken) ELSE UNCHANGED delivered
    /\ EndOrKeep
    /\ UNCHANGED <<script, buf>>

\* Without an octet more is read.  A begin flag in the place of an octet is
\* looked at only when nothing more could be read: else it is forgotten, and
\* the frame it begins with it.
MissOctet(p) ==
    /\ active = p /\ framing_io[p].state \in DOMAIN Wanted
    /\ LET got == get_next_octet(framing_io[p].queue)
       IN /\ ~got.rv
          /\ \E n \in Readable(p, got.rest, Wanted[framing_io[p].state]) :
                LET restart == n = 0 /\ got.octet = Begin
                IN /\ ReadTo(p, n, [framing_io[p] EXCEPT !.state = IF restart THEN "SRC_ADDR" ELSE @],
                             got.rest)
                   /\ active' = IF n > 0 \/ restart THEN p ELSE NoPort
    /\ Timed
    /\ UNCHANGED <<script, buf, delivered>>

\* Mutant: in the payload, too, more is read before the flag is looked at.
MissPayload_forgets(p) ==
    /\ active = p /\ framing_io[p].state = "PAYLOAD" /\ framing_io[p].pos < framing_io[p].len
    /\ LET got == get_next_octet(framing_io[p].queue)
       IN /\ ~got.rv
          /\ \E n \in Readable(p, got.rest, framing_io[p].len - framing_io[p].pos + 2) :
                LET restart == n = 0 /\ got.octet = Begin
                IN /\ ReadTo(p, n, [framing_io[p] EXCEPT !.state = IF restart THEN "SRC_ADDR" ELSE @],
                             got.rest)
                   /\ active' = IF n > 0 \/ restart THEN p ELSE NoPort
    /\ Timed
    /\ UNCHANGED <<script, buf, delivered>>

\* PAYLOAD, without an octet: a begin flag starts a new frame, else more is read.
MissPayload(p) ==
    /\ active = p /\ framing_io[p].state = "PAYLOAD" /\ framing_io[p].pos < framing_io[p].len
    /\ LET got == get_next_octet(framing_io[p].queue)
       IN /\ ~got.rv
          /\ IF got.octet = Begin
             THEN /\ Set(p, [framing_io[p] EXCEPT !.state = "SRC_ADDR", !.queue = got.rest])
                  /\ UNCHANGED <<active, late>>
             ELSE \E n \in Readable(p, got.rest, framing_io[p].len - framing_io[p].pos + 2) :
                     /\ ReadTo(p, n, framing_io[p], got.rest)
                     /\ active' = IF n > 0 THEN p ELSE NoPort
                     /\ Timed
    /\ UNCHANGED <<script, buf, delivered>>

\* PAYLOAD: an octet goes into the agent's buffer and into the CRC.
ReadPayload(p) ==
    /\ active = p /\ framing_io[p].state = "PAYLOAD" /\ framing_io[p].pos < framing_io[p].len
    /\ LET got == get_next_octet(framing_io[p].queue)
       IN /\ got.rv
          /\ buf' = [buf EXCEPT ![framing_io[p].pos + 1] = got.octet]
          /\ Set(p, [framing_io[p] EXCEPT !.queue = got.rest, !.pos = @ + 1,
                                  !.cmp = update_crc(@, got.octet)])
    /\ UNCHANGED <<script, active, late, delivered>>

EndPayload(p) ==
    /\ active = p /\ framing_io[p].state = "PAYLOAD" /\ framing_io[p].pos = framing_io[p].len
    /\ Set(p, [framing_io[p] EXCEPT !.state = "CRC_LSB"])
    /\ UNCHANGED <<script, buf, active, late, delivered>>

Turn(p) == \/ FindBegin(p) \/ ReadOctet(p) \/ MissOctet(p)
           \/ ReadPayload(p) \/ MissPayload(p) \/ EndPayload(p)

FrameReaderNext == \E p \in Ports : Call(p) \/ Turn(p)

FrameReaderSpec == FrameReaderInit /\ [][FrameReaderNext]_frame_reader_vars

(* The receiver thread keeps calling, and octets that are there are read   *)
(* in the end, although any one read may come too early for them.          *)
FrameReaderFairSpec ==
    /\ FrameReaderSpec
    /\ \A p \in Ports : WF_frame_reader_vars(Call(p) \/ Turn(p))
    /\ \A p \in Ports : SF_frame_reader_vars((Call(p) \/ Turn(p)) /\ Len(line'[p]) < Len(line[p]))

-----------------------------------------------------------------------------
Received(p) == [i \in DOMAIN delivered[p] |-> delivered[p][i].msg]

(* Whatever comes before the frames and however the octets are spread over *)
(* reads and calls, the agent takes nothing for a message but what a       *)
(* client sent on that port, from the address it sent it from.             *)
DeliveredWasSent ==
    \A p \in Ports : \A i \in DOMAIN delivered[p] :
        /\ delivered[p][i].remote = Remote
        /\ delivered[p][i].msg \in Range(script[p].msgs)

Drained(p) == active # p /\ line[p] = << >> /\ framing_io[p].queue = << >>

(* On a clean line every message arrives, once and in order, wherever      *)
(* reads and calls cut the stream.                                         *)
CleanLineArrives ==
    \A p \in Ports :
        /\ script[p].noise = << >> => IsPrefix(Received(p), script[p].msgs)
        /\ Drained(p) /\ script[p].noise = << >> => Received(p) = script[p].msgs

(* After noise or a frame that was cut off, at most one good frame is      *)
(* lost: the reader is in step again for the one after it.                 *)
BackInStep ==
    \A p \in Ports :
        Drained(p) => IsSuffix(Tail(script[p].msgs), Received(p))

(* A line of which something was read is read to its end: no content of it *)
(* makes the reader stop, and no octet stays in the read buffer.           *)
LineIsRead == \A p \in Ports : active = p ~> Drained(p)

(* The reader takes nothing for a message that is none, loses nothing on a *)
(* clean line, and finds its step again after noise.                       *)
FrameReaderInv == FrameReaderTypeOK /\ DeliveredWasSent /\ CleanLineArrives /\ BackInStep
=============================================================================
