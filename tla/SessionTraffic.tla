--------------------------- MODULE SessionTraffic ---------------------------
(***************************************************************************)
(* What carries the traffic of a session, side by side: the reliable and   *)
(* the best-effort stream, the fragments of large submessages, the thread  *)
(* that reads for a client, the token bucket that slows it down, and       *)
(* requests with their replies.  Each is checked in an environment that    *)
(* allows everything the others may do to it, so they share no variable;   *)
(* part names the one that moves.                                          *)
(***************************************************************************)
EXTENDS ReliableStream, BestEffortStream, Fragments, Reader, TokenBucket, RequestReply

VARIABLE part

traffic_vars == <<part, stream_vars, best_effort_vars, fragments_vars, reader_vars,
                  bucket_vars, request_vars>>

Parts == {"stream", "best effort", "fragments", "reader", "bucket", "requests"}

\* What the parts that stand still could have chosen does not matter.
TrafficInit ==
    /\ part \in Parts
    /\ StreamInit /\ (part # "stream" => base = CHOOSE b \in Bases : TRUE)
    /\ BestEffortInit
    /\ FragmentsInit
    /\ ReaderInit /\ (part # "reader" => kind = "datareader")
    /\ BucketInit /\ (part # "bucket" => rate = CHOOSE r \in Rates : TRUE)
    /\ RequestInit

TrafficNext ==
    \/ /\ part = "stream" /\ StreamNext
       /\ UNCHANGED <<part, best_effort_vars, fragments_vars, reader_vars, bucket_vars, request_vars>>
    \/ /\ part = "best effort" /\ BestEffortNext
       /\ UNCHANGED <<part, stream_vars, fragments_vars, reader_vars, bucket_vars, request_vars>>
    \/ /\ part = "fragments" /\ FragmentsNext
       /\ UNCHANGED <<part, stream_vars, best_effort_vars, reader_vars, bucket_vars, request_vars>>
    \/ /\ part = "reader" /\ ReaderNext
       /\ UNCHANGED <<part, stream_vars, best_effort_vars, fragments_vars, bucket_vars, request_vars>>
    \/ /\ part = "bucket" /\ BucketNext
       /\ UNCHANGED <<part, stream_vars, best_effort_vars, fragments_vars, reader_vars, request_vars>>
    \/ /\ part = "requests" /\ RequestNext
       /\ UNCHANGED <<part, stream_vars, best_effort_vars, fragments_vars, reader_vars, bucket_vars>>

TrafficSpec == TrafficInit /\ [][TrafficNext]_traffic_vars
=============================================================================
