---------------------------- MODULE SerialParts ----------------------------
(***************************************************************************)
(* The parts of the serial transports, side by side: the ports that come   *)
(* and go, the two reader-writer locks, and both directions of the         *)
(* framing.  Each is checked in an environment that allows everything the  *)
(* others may do to it, so they share no variable; part names the one that *)
(* moves.                                                                  *)
(***************************************************************************)
EXTENDS MultiTermios, SharedMutex, FrameReader, FrameWriter

VARIABLE part

all_vars == <<part, ports_vars, lock_vars, frame_reader_vars, frame_writer_vars>>

-----------------------------------------------------------------------------
\* Two good frames after nothing, after each beginning of a frame that was cut
\* off, after stray octets, a frame for another address and one too long; and
\* three frames with escapes in payload and CRC on a clean line.
Cut == Frame(Remote, Local, <<5, Begin, 7>>)
Noises == {<< >>, <<Esc>>, <<9, Esc, Begin>>}
          \cup {SubSeq(Cut, 1, n) : n \in 1 .. Len(Cut) - 1}
          \cup {Frame(Remote, 3, <<6>>), Frame(Remote, Local, <<1, 2, 3, 4, 5, 6, 7, 8, 9>>),
                SubSeq(Frame(Remote, Local, <<1, 2, 3, 4, 5, 6, 7, 8>>), 1, 6)}
SomeScripts ==
    {[noise |-> n, msgs |-> m] :
        n \in Noises, m \in {<<<<Begin, 8>>, <<169>>>>, <<<<8>>, <<Esc, 8, 9>>>>}}
    \cup {[noise |-> << >>, msgs |-> m] :
            m \in {<<<<Begin, Esc>>, <<169>>, <<8>>>>,
                   <<<<8>>, <<Esc, 8, 9, 10, Begin>>, <<169>>>>}}

\* Messages of one to seven octets, some of them flags; the CRCs of <<169>>,
\* <<172>> and <<1, 104>> have flags in them too.
SomeMessages ==
    {<<a>> : a \in {1, Begin, Esc, 169, 172}}
    \cup {<<a, b>> : a, b \in {1, Begin, Esc}}
    \cup {<<1, 104>>, <<1, 2, Begin, Esc, Begin, 3, 4>>, <<Esc, Esc, Esc, Esc, Esc, Esc>>}

-----------------------------------------------------------------------------
\* What the parts that stand still could have chosen does not matter.
SerialInit ==
    /\ part \in {"ports", "lock", "reader", "writer"}
    /\ PortsInit
    /\ LockInit /\ (part # "lock" => priority)
    /\ FrameReaderInit
    /\ part # "reader" => \A p \in Ports : script[p] = CHOOSE s \in Scripts : TRUE
    /\ FrameWriterInit

SerialNext ==
    \/ /\ part = "ports" /\ PortsNext
       /\ UNCHANGED <<part, lock_vars, frame_reader_vars, frame_writer_vars>>
    \/ /\ part = "lock" /\ LockNext
       /\ UNCHANGED <<part, ports_vars, frame_reader_vars, frame_writer_vars>>
    \/ /\ part = "reader" /\ FrameReaderNext
       /\ UNCHANGED <<part, ports_vars, lock_vars, frame_writer_vars>>
    \/ /\ part = "writer" /\ FrameWriterNext
       /\ UNCHANGED <<part, ports_vars, lock_vars, frame_reader_vars>>

\* A step of one part leaves the others alone.
PortsStep == part = "ports" /\ UNCHANGED <<part, lock_vars, frame_reader_vars, frame_writer_vars>>
ReaderStep == part = "reader" /\ UNCHANGED <<part, ports_vars, lock_vars, frame_writer_vars>>
WriterStep == part = "writer" /\ UNCHANGED <<part, ports_vars, lock_vars, frame_reader_vars>>

\* The ports have the fairness of PortsFairSpec; the receiver of a line keeps
\* calling, octets that are there are read in the end, and a write that was
\* begun goes on.  part does not change, so that one condition may serve an
\* action of each part.
SerialFairness ==
    /\ WF_all_vars(\/ PortsStep /\ InitMultiport
                   \/ ReaderStep /\ \E p \in Ports : Call(p) \/ Turn(p)
                   \/ WriterStep /\ (Add \/ Flush \/ \E n \in Taken : Write(n)))
    /\ SF_all_vars(\/ PortsStep /\ LockToClose
                   \/ ReaderStep /\ \E p \in Ports :
                         (Call(p) \/ Turn(p)) /\ Len(line'[p]) < Len(line[p]))
    /\ WF_ports_vars(part = "ports" /\ PortsControl)
    /\ \A t \in IOThreads : WF_ports_vars(part = "ports" /\ IO(t))
    /\ \A d \in Devices :
          SF_ports_vars(part = "ports" /\ Access(d) /\ init_multiport'.at = "open")

SerialSpec == SerialInit /\ [][SerialNext]_all_vars /\ SerialFairness

-----------------------------------------------------------------------------
\* In both directions what was begun is finished, whatever is on the line: the
\* reading of it (read_framed_msg, LineIsRead) and a write (write_framed_msg,
\* WriteEnds), in the part that each is about.
LinesAreServed ==
    \A p \in Ports :
        active = p \/ msg # NoMessage ~> IF part = "reader" THEN Drained(p) ELSE msg = NoMessage
=============================================================================
