----------------------------- MODULE FrameWriter -----------------------------
(***************************************************************************)
(* FramingIO::write_framed_msg over the write callback of a serial port:   *)
(* octets go through a small buffer that is written out whenever the next  *)
(* one does not fit, and at the end.  write() may take less than it is     *)
(* given, or fail.                                                         *)
(***************************************************************************)
EXTENDS Framing

CONSTANTS Messages,    \* payloads that are sent
          BufferSize,  \* sizeof(write_buffer_)
          MaxParts     \* bound: writes for one message that take a part only

\* The header is added without looking at the result: it has to fit.
ASSUME BufferAssumption == BufferSize \in Nat /\ BufferSize >= 9
ASSUME PartsAssumption == MaxParts \in Nat
\* Octets, and never none: an output packet has at least a header.
ASSUME MessagesAssumption == \A m \in Messages : m \in Seq(Octets) /\ m # << >>

VARIABLES msg,      \* the message being sent, or NoMessage
          todo,     \* octets still to be added: payload, then CRC
          buffer,   \* write_buffer_, up to write_buffer_pos_
          writing,  \* -1, or bytes_written of the running transport_write
          out,      \* what the port has taken
          parts,    \* history: writes for this message that took a part only
          result    \* what the last call returned, and for which message

frame_writer_vars == <<msg, todo, buffer, writing, out, parts, result>>

NoMessage == << >>

FrameWriterInit ==
    /\ msg = NoMessage /\ todo = << >> /\ buffer = << >>
    /\ writing = -1 /\ out = << >> /\ parts = 0
    /\ result = [rv |-> "none", of |-> NoMessage]

\* add_next_octet, when the octet fits with its escape.
add_next_octet(o) ==
    /\ Len(buffer) + Len(EscapeOctet(o)) <= BufferSize
    /\ buffer' = buffer \o EscapeOctet(o)

\* write_framed_msg begins: flag and header go into the buffer.
Begin_write(m) ==
    /\ msg = NoMessage
    /\ msg' = m
    /\ buffer' = <<Begin>> \o Escape(SubSeq(Body(Local, Remote, m), 1, 4))
    /\ todo' = SubSeq(Body(Local, Remote, m), 5, Len(m) + 6)
    /\ out' = << >> /\ parts' = 0
    /\ result' = [rv |-> "none", of |-> m]
    /\ UNCHANGED writing

Add ==
    /\ msg # NoMessage /\ writing = -1 /\ todo # << >>
    /\ add_next_octet(Head(todo))
    /\ todo' = Tail(todo)
    /\ UNCHANGED <<msg, writing, out, parts, result>>

\* The buffer is full, or everything is in it.
Flush ==
    /\ msg # NoMessage /\ writing = -1 /\ buffer # << >>
    /\ todo # << >> => Len(buffer) + Len(EscapeOctet(Head(todo))) > BufferSize
    /\ writing' = 0
    /\ UNCHANGED <<msg, todo, buffer, out, parts, result>>

\* The line takes n octets from the start of the buffer.
Put(n) ==
    /\ out' = out \o SubSeq(buffer, 1, n)
    /\ parts' = IF n \in 1 .. Len(buffer) - 1 THEN parts + 1 ELSE parts

Finish(r) == msg' = NoMessage /\ result' = [result EXCEPT !.rv = r] /\ todo' = << >>

\* Mutant: the result of the last write is not looked at.
Write_ignored(n) ==
    /\ writing >= 0
    /\ Put(n)
    /\ writing' = -1
    /\ IF todo = << >> THEN Finish("ok") /\ buffer' = << >>
       ELSE IF n # Len(buffer) THEN Finish("failed") /\ buffer' = buffer
       ELSE buffer' = << >> /\ UNCHANGED <<msg, todo, result>>

\* One call of the write callback in transport_write: it is given the buffer
\* from its start, also after a short write.  The loop ends when enough has been
\* written or nothing was; only the exact number is a success.
Write(n) ==
    /\ writing >= 0
    /\ Put(n)
    /\ LET total == writing + n
       IN IF total < Len(buffer) /\ n > 0
          THEN writing' = total /\ UNCHANGED <<msg, todo, buffer, result>>
          ELSE /\ writing' = -1
               /\ IF total # Len(buffer)
                  THEN Finish("failed") /\ buffer' = buffer
                  ELSE /\ buffer' = << >>
                       /\ IF todo = << >> THEN Finish("ok")
                          ELSE UNCHANGED <<msg, todo, result>>

\* What write() may take: all, nothing (an error), or a part, of which the
\* smallest and the largest are tried.
Taken ==
    {0, Len(buffer)} \cup (IF parts < MaxParts THEN {1, Len(buffer) - 1} ELSE {})

FrameWriterNext ==
    \/ \E m \in Messages : Begin_write(m)
    \/ Add
    \/ Flush
    \/ \E n \in Taken : Write(n)

FrameWriterSpec == FrameWriterInit /\ [][FrameWriterNext]_frame_writer_vars /\ WF_frame_writer_vars(Add \/ Flush \/ \E n \in Taken : Write(n))

-----------------------------------------------------------------------------
(* When write_framed_msg reports success, the line has as many octets as   *)
(* the frame of the message, and if every write took all it was given, the *)
(* frame itself, however often the buffer had to be written out in         *)
(* between.  After a write that took a part the next one begins with the   *)
(* same octets again: success is then reported of a line that is garbled.  *)
SuccessIsAFrame ==
    result.rv = "ok" =>
        /\ Len(out) = Len(Frame(Local, Remote, result.of))
        /\ parts = 0 => out = Frame(Local, Remote, result.of)

(* At every moment of a write that has not failed, the line and the buffer *)
(* together are a beginning of the frame: no octet is split from its       *)
(* escape, left out or repeated, as long as no write takes a part.         *)
PrefixOfFrame ==
    msg # NoMessage /\ parts = 0 => IsPrefix(out \o buffer, Frame(Local, Remote, msg))

(* Every write ends, in success or failure.                                *)
WriteEnds == msg # NoMessage ~> msg = NoMessage

(* The octets that are waiting are in write_buffer_, those of the header   *)
(* too, which are added without looking at the result.                     *)
BufferHolds == Len(buffer) <= BufferSize

(* As long as every write takes all it is given, the line has a beginning  *)
(* of the frame, and with success the frame; after a write that took a     *)
(* part success says no more than the number of octets.  The buffer is     *)
(* never overrun.                                                          *)
FrameWriterInv == SuccessIsAFrame /\ PrefixOfFrame /\ BufferHolds
=============================================================================
