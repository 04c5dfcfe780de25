--------------------------- MODULE SessionLiveness ---------------------------
(***************************************************************************)
(* What must happen in the end for a client: its streams deliver and       *)
(* settle, its reads end, its replies arrive.                              *)
(* The parts stand side by side, as in SessionTraffic, and part names the  *)
(* one that moves.  "reading" and "abandoned" are the Reader with a client *)
(* that acknowledges and with one that does not.                           *)
(***************************************************************************)
EXTENDS ReliableStream, Reader, RequestReply

VARIABLE part

live_vars == <<part, stream_vars, reader_vars, request_vars>>

LiveInit ==
    /\ part \in {"stream", "reading", "abandoned", "requests"}
    /\ StreamInit
    /\ ReaderInit /\ (part \notin {"reading", "abandoned"} => kind = "datareader")
    /\ RequestInit

\* A step of one part leaves the others alone.
Stream == part = "stream" /\ UNCHANGED <<part, reader_vars, request_vars>>
Requests == part = "requests" /\ UNCHANGED <<part, stream_vars, reader_vars>>
Reading == part = "reading" /\ UNCHANGED <<part, stream_vars, request_vars>>
Abandoned == part = "abandoned" /\ UNCHANGED <<part, stream_vars, request_vars>>

\* Nothing is said of how long a read takes for a client that is gone: its
\* reads have no time limit.
LiveNext ==
    \/ Stream /\ StreamNext
    \/ Reading /\ ReaderNext
    \/ Abandoned /\ ReaderNext /\ ~next'.timed
    \/ Requests /\ RequestNext

-----------------------------------------------------------------------------
(* The fairness of each part, as its module states it.  part does not      *)
(* change, so that one condition may serve an action of each part.         *)
LiveFairness ==
    /\ WF_live_vars(\/ Stream /\ get_next_message
                    \/ (Reading \/ Abandoned) /\ Thread)
    /\ WF_live_vars((Reading \/ Abandoned) /\ Owner)
    /\ WF_reader_vars(part = "reading" /\ Elapse)
    /\ \A r \in Requesters :
          /\ WF_request_vars(part = "requests" /\ Remember(r))
          /\ WF_request_vars(part = "requests" /\ \E a \in replies[r] : ReadReply(r, a))
    /\ \A p \in Repliers :
          WF_request_vars(part = "requests" /\ \E q \in Identities : ReadRequest(p, q))
    /\ SF_live_vars(\/ Stream /\ \E a \in acknacks : process_acknack(a) /\ a \notin acknacks'
                    \/ Reading /\ PassBucket)
    /\ SF_live_vars(\/ Stream /\ \E h \in heartbeats : process_heartbeat(h) /\ h \notin heartbeats'
                    \/ Reading /\ Write)
    /\ SF_stream_vars(part = "stream" /\ fill_heartbeat)
    /\ \A i \in 0 .. MaxPackets - 1 :
          SF_stream_vars(part = "stream" /\ process_data(base + i) /\ base + i \notin data')

LiveSpec == LiveInit /\ [][LiveNext]_live_vars /\ LiveFairness
=============================================================================
