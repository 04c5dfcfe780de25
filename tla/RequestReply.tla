------------------------------ MODULE RequestReply ------------------------------
(***************************************************************************)
(* Requests of clients and the replies to them: Requester and Replier      *)
(* objects with DDS between them.  DDS numbers the requests of a writer    *)
(* and gives every replier the request and every requester the reply; the  *)
(* reply names the request by its writer and number.  The requester keeps  *)
(* which client request a number stands for, and learns the number only    *)
(* after the write.  Its processing thread writes while its reader thread  *)
(* takes replies.                                                          *)
(***************************************************************************)
EXTENDS Naturals, Sequences, FiniteSets, Functions

CONSTANTS
    Requesters, Repliers,
    RequestIds,    \* that clients use, and use again
    MaxRequests    \* bound on the requests of all

VARIABLES
    written,     \* written[r]: the request ids r has given DDS, by number
    writing,     \* writing[r]: the number being remembered, 0 if none
    sequence_to_sequence,
    requests,    \* requests[p]: what replier p has not read
    asked,       \* asked[p]: what the client of p was given and did not answer
    replies,     \* replies[r]: what requester r has not read
    answered     \* answered[r]: replies given to the client of r

request_vars == <<written, writing, sequence_to_sequence, requests, asked, replies, answered>>

RequestInit ==
    /\ written = [r \in Requesters |-> << >>]
    /\ writing = [r \in Requesters |-> 0]
    /\ sequence_to_sequence = [r \in Requesters |-> << >>]
    /\ requests = [p \in Repliers |-> {}]
    /\ asked = [p \in Repliers |-> {}]
    /\ replies = [r \in Requesters |-> {}]
    /\ answered = [r \in Requesters |-> {}]

Total == Cardinality(UNION {{r} \X DOMAIN written[r] : r \in Requesters})

(* WRITE_DATA to a requester: DDS has the request.                         *)
WriteRequest(r, id) ==
    LET n == Len(written[r]) + 1
    IN  /\ writing[r] = 0
        /\ Total < MaxRequests
        /\ written' = [written EXCEPT ![r] = Append(@, id)]
        /\ writing' = [writing EXCEPT ![r] = n]
        /\ requests' = [p \in Repliers |-> requests[p] \union {[writer |-> r, number |-> n]}]
        /\ UNCHANGED <<sequence_to_sequence, asked, replies, answered>>

(* A plausible bug: only the last request is remembered.                   *)
Remember_overwrites(r) ==
    /\ writing[r] # 0
    /\ sequence_to_sequence' = [sequence_to_sequence EXCEPT
                                  ![r] = [n \in {writing[r]} |-> written[r][n]]]
    /\ writing' = [writing EXCEPT ![r] = 0]
    /\ UNCHANGED <<written, requests, asked, replies, answered>>

(* The number DDS gave it is remembered.                                   *)
Remember(r) ==
    /\ writing[r] # 0
    /\ sequence_to_sequence' = [sequence_to_sequence EXCEPT
                                  ![r] = [n \in DOMAIN @ \union {writing[r]} |->
                                            IF n \in DOMAIN @ THEN @[n] ELSE written[r][n]]]
    /\ writing' = [writing EXCEPT ![r] = 0]
    /\ UNCHANGED <<written, requests, asked, replies, answered>>

(* A replier's reader gives its client the request and whose it is.        *)
ReadRequest(p, q) ==
    /\ q \in requests[p]
    /\ requests' = [requests EXCEPT ![p] = @ \ {q}]
    /\ asked' = [asked EXCEPT ![p] = @ \union {q}]
    /\ UNCHANGED <<written, writing, sequence_to_sequence, replies, answered>>

(* A plausible bug: the reply goes out under the replier's last request.   *)
WriteReply_toAny(p, q) ==
    /\ q \in asked[p]
    /\ asked' = [asked EXCEPT ![p] = @ \ {q}]
    /\ \E named \in asked[p] :
         replies' = [r \in Requesters |-> replies[r] \union
                       {[related |-> named, replier |-> p, answers |-> q]}]
    /\ UNCHANGED <<written, writing, sequence_to_sequence, requests, answered>>

(* WRITE_DATA to a replier, in the client's own order.                     *)
WriteReply(p, q) ==
    /\ q \in asked[p]
    /\ asked' = [asked EXCEPT ![p] = @ \ {q}]
    /\ replies' = [r \in Requesters |-> replies[r] \union
                     {[related |-> q, replier |-> p, answers |-> q]}]
    /\ UNCHANGED <<written, writing, sequence_to_sequence, requests, answered>>

(* A reply that is not the requester's, or not remembered, is dropped.     *)
ReadReply(r, a) ==
    LET mine == a.related.writer = r /\ a.related.number \in DOMAIN sequence_to_sequence[r]
    IN  /\ a \in replies[r]
        /\ replies' = [replies EXCEPT ![r] = @ \ {a}]
        /\ answered' = IF mine
             THEN [answered EXCEPT ![r] =
                     @ \union {[request_id |-> sequence_to_sequence[r][a.related.number], reply |-> a]}]
             ELSE answered
        /\ sequence_to_sequence' = IF mine
             THEN [sequence_to_sequence EXCEPT ![r] = Restrict(@, DOMAIN @ \ {a.related.number})]
             ELSE sequence_to_sequence
        /\ UNCHANGED <<written, writing, requests, asked>>

Identities == [writer : Requesters, number : 1 .. MaxRequests]

RequestNext ==
    \/ \E r \in Requesters : (\E id \in RequestIds : WriteRequest(r, id)) \/ Remember(r)
    \/ \E p \in Repliers, q \in Identities : ReadRequest(p, q) \/ WriteReply(p, q)
    \/ \E r \in Requesters : \E a \in replies[r] : ReadReply(r, a)

RequestSpec == RequestInit /\ [][RequestNext]_request_vars

(* The Agent's threads run, and DDS delivers.                              *)
RequestFairness ==
    /\ \A r \in Requesters : WF_request_vars(Remember(r)) /\ WF_request_vars(\E a \in replies[r] : ReadReply(r, a))
    /\ \A p \in Repliers : WF_request_vars(\E q \in Identities : ReadRequest(p, q))

RequestFairSpec == RequestSpec /\ RequestFairness

--------------------------------------------------------------------------------
(* A reply is given to the client that sent the request, under the id of   *)
(* the request it answers, also when the client uses an id for several     *)
(* requests at once and replies come in any order (Requester::write,       *)
(* Requester::read_fn, FastDDSRequester::read).                            *)
RepliesMatchRequests ==
    \A r \in Requesters : \A d \in answered[r] :
        /\ d.reply.answers.writer = r
        /\ written[r][d.reply.answers.number] = d.request_id

(* Of several repliers one is heard: a request gets one reply              *)
(* (FastDDSRequester::read).                                               *)
OneReplyEach ==
    \A r \in Requesters : \A d, e \in answered[r] : d.reply.answers = e.reply.answers => d = e

Delivered(r, n) == \E d \in answered[r] : d.reply.answers.number = n

(* A reply that comes after its request was remembered is sent back        *)
(* (FastDDSRequester::write, FastDDSRequester::read).                      *)
LaterRepliesAreSentBack ==
    \A r \in Requesters, n \in 1 .. MaxRequests :
        (/\ \E a \in replies[r] : a.answers = [writer |-> r, number |-> n]
         /\ n \in DOMAIN sequence_to_sequence[r]) ~> Delivered(r, n)

(* A client gets one reply to each request, and the right one.             *)
RepliesInv == RepliesMatchRequests /\ OneReplyEach
================================================================================
