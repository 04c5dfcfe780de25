--------------------------- MODULE SessionManager ---------------------------
(***************************************************************************)
(* SessionManager.hpp: the two maps with which the Agent's server finds    *)
(* the endpoint of a client and the client of an endpoint.  Every          *)
(* operation holds mtx_ from its first to its last line, so each is one    *)
(* action.  Sessions below 128 carry the client key in every header and    *)
(* are entered in one of the maps only.  A missing entry is None.          *)
(***************************************************************************)
EXTENDS Naturals

CONSTANTS Endpoints,  \* transport addresses
          Keys,       \* client keys
          Sessions,   \* session identifiers clients use
          None        \* "not in the map"

ASSUME NoneAssumption == None \notin Endpoints \cup Keys
ASSUME SessionsAssumption == Sessions \subseteq 0 .. 255

VARIABLES e2c,  \* endpoint_to_client_map_
          c2e   \* client_to_endpoint_map_

maps == <<e2c, c2e>>

has_session_client_key(session) == session < 128

MapsType ==
    /\ e2c \in [Endpoints -> Keys \cup {None}]
    /\ c2e \in [Keys -> Endpoints \cup {None}]

MapsInit ==
    /\ e2c = [e \in Endpoints |-> None]
    /\ c2e = [k \in Keys |-> None]

(* e2c without the entry of endpoint e, which may be None: a map without   *)
(* the key is left as it is.                                               *)
Forget(e) == [f \in Endpoints |-> IF f = e THEN None ELSE e2c[f]]

\* Mutant: a client that moves leaves its old endpoint behind.
establish_session_keeps_old(e, k, session) ==
    /\ c2e' = [c2e EXCEPT ![k] = e]
    /\ e2c' = IF has_session_client_key(session) THEN e2c
              ELSE [e2c EXCEPT ![e] = k]

establish_session(e, k, session) ==
    /\ c2e' = [c2e EXCEPT ![k] = e]
    /\ e2c' = IF has_session_client_key(session) THEN Forget(c2e[k])
              ELSE [Forget(c2e[k]) EXCEPT ![e] = k]

\* destroy_session(endpoint): nothing happens unless the endpoint is known.
destroy_session_of_endpoint(e) ==
    /\ e2c' = Forget(e)
    /\ c2e' = IF e2c[e] = None THEN c2e ELSE [c2e EXCEPT ![e2c[e]] = None]

\* destroy_session(client_key): the entry of its endpoint goes too, whoever it
\* names.
destroy_session_of_key(k) ==
    /\ e2c' = Forget(c2e[k])
    /\ c2e' = [c2e EXCEPT ![k] = None]

MapsNext ==
    \/ \E e \in Endpoints, k \in Keys, s \in Sessions : establish_session(e, k, s)
    \/ \E e \in Endpoints : destroy_session_of_endpoint(e)
    \/ \E k \in Keys : destroy_session_of_key(k)

MapsSpec == MapsInit /\ [][MapsNext]_maps

(* Whatever calls are made in whatever order, a packet is never attributed *)
(* to a client that the Agent believes to be somewhere else: the endpoint  *)
(* a client is looked up by is the endpoint it is answered at.             *)
MapsAgree == \A e \in Endpoints : e2c[e] # None => c2e[e2c[e]] = e
=============================================================================
