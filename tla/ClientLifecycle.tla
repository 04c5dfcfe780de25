-------------------------- MODULE ClientLifecycle --------------------------
(***************************************************************************)
(* How the Agent learns of its clients and forgets them: Root's map of     *)
(* ProxyClients with the iterator the heartbeat thread walks it by, the    *)
(* session manager's maps, and the two threads that change them, the       *)
(* processing thread (Processor::process_input_packet) and the heartbeat   *)
(* thread (Processor::check_heartbeats).                                   *)
(*                                                                         *)
(* One step is what a thread does between two releases of a lock: the      *)
(* callers chain calls that lock one by one, so the other thread may run   *)
(* between a look-up and the erasure that relies on it.  A ProxyClient     *)
(* lives as long as the map or a thread holds a shared_ptr to it.  The     *)
(* clients send what they like, from where they like; the contents of      *)
(* sessions and objects are the subject of other modules.                  *)
(***************************************************************************)
EXTENDS SessionManager, FiniteSets, FiniteSetsExt, Functions

CONSTANTS HardKeys,     \* clients that ask for hard liveliness (uxr_hl)
          InitialTries  \* what hard_liveliness_check_tries_ may start as

ASSUME KeysAssumption == Keys \subseteq Nat /\ IsFiniteSet(Keys)
ASSUME HardAssumption == HardKeys \subseteq Keys
ASSUME TriesAssumption == InitialTries \subseteq 0 .. 255

VARIABLES clients,  \* Root::clients_: key -> ProxyClient
          current,  \* Root::current_client_: a key, or None for end()
          proxies,  \* the ProxyClient objects alive
          proc,     \* the processing thread
          hb        \* the heartbeat thread

clients_vars == <<e2c, c2e, clients, current, proxies, proc, hb>>

\* As many objects as the map and the two threads can hold.
ProxyIds == 1 .. (Cardinality(Keys) + 2)

ASSUME NoProxyAssumption == None \notin ProxyIds

States == {"alive", "dead", "to_remove"}
LivelinessTries == 3

\* stale: client_dead_time_ has passed since timestamp_.
\* History, for clients with hard liveliness: silent, the heartbeat rounds that
\* found it dead since it was last heard; heard, whether a message of it was ever processed; raced, whether the
\* last one was processed while the heartbeat thread dealt with its silence.
Proxy == [key : Keys, session : Sessions, hard : BOOLEAN, state : States,
          tries : 0 .. 255, stale : BOOLEAN,
          silent : 0 .. LivelinessTries, heard : BOOLEAN, raced : BOOLEAN]

ProcIdle == [at |-> "idle", op |-> "none", source |-> None, key |-> None,
             session |-> 0, valid |-> FALSE, victim |-> None,
             client |-> None]
HbIdle == [at |-> "idle", client |-> None, state |-> "alive", tries |-> 0]

ProcSteps == {"idle", "find", "update", "get", "erase", "destroy", "create", "establish"}
HbSteps == {"idle", "state", "endpoint", "load", "store", "test", "mark",
            "get", "erase", "destroy"}

\* The type of the state.
ClientsTypeOK ==
    /\ MapsType
    /\ clients \in [Keys -> ProxyIds \cup {None}]
    /\ current \in Keys \cup {None}
    /\ DOMAIN proxies \subseteq ProxyIds
    /\ \A p \in DOMAIN proxies : proxies[p] \in Proxy
    /\ proc \in [at : ProcSteps, op : {"none", "create", "data", "delete"},
                 source : Endpoints \cup {None}, key : Keys \cup {None},
                 session : Sessions \cup {0}, valid : BOOLEAN,
                 victim : Keys \cup {None},
                 client : DOMAIN proxies \cup {None}]
    /\ hb \in [at : HbSteps, client : DOMAIN proxies \cup {None}, state : States,
               tries : 0 .. 255]
    /\ \A k \in Keys : clients[k] # None => clients[k] \in DOMAIN proxies

ClientsInit ==
    /\ MapsInit
    /\ clients = [k \in Keys |-> None]
    /\ current = None
    /\ proxies = << >>
    /\ proc = ProcIdle
    /\ hb = HbIdle

-----------------------------------------------------------------------------
(* Root *)

Registered == {k \in Keys : clients[k] # None}

First(ks) == IF ks = {} THEN None ELSE Min(ks)

\* ++current_client_ in the order of std::map.
After(k) == First({i \in Registered : i > k})

get_client(k) == IF k = None THEN None ELSE clients[k]

\* The objects that are still pointed to after a step.
Keep(ps) ==
    LET held == Range(clients') \cup {proc'.client, hb'.client}
    IN proxies' = Restrict(ps, held \cap DOMAIN ps)

\* Mutant: the iterator keeps pointing at the erased client.
erase_client_leaves_iterator(k) ==
    /\ current' = current
    /\ clients' = [clients EXCEPT ![k] = None]

\* Mutant: the iterator is sent to the end instead of to the next client.
erase_client_ends_round(k) ==
    /\ current' = IF current = k THEN None ELSE current
    /\ clients' = [clients EXCEPT ![k] = None]

\* The locked part of delete_client.
erase_client(k) ==
    /\ current' = IF current = k THEN After(k) ELSE current
    /\ clients' = [clients EXCEPT ![k] = None]

NewProxy(k, session, hard, tries) ==
    [key |-> k, session |-> session, hard |-> hard, state |-> "alive",
     tries |-> tries, stale |-> FALSE,
     silent |-> 0, heard |-> FALSE, raced |-> FALSE]

FreeId == Min(ProxyIds \ DOMAIN proxies)

\* create_client, for a valid representation: an unknown client gets a proxy
\* with the properties it sent; a known one with another session a proxy
\* without them, and with the same session the proxy it had.
create_client(k, session) ==
    IF clients[k] # None /\ proxies[clients[k]].session = session
    THEN /\ clients' = clients
         /\ Keep(proxies)
    ELSE /\ clients' = [clients EXCEPT ![k] = FreeId]
         /\ \E t \in InitialTries :
               Keep([p \in DOMAIN proxies \cup {FreeId} |->
                        IF p = FreeId
                        THEN NewProxy(k, session, k \in HardKeys /\ clients[k] = None, t)
                        ELSE proxies[p]])

-----------------------------------------------------------------------------
(* The processing thread *)

\* A CREATE_CLIENT arrives from e; get_client_key(source) finds the client, if
\* another, that has to go first.
ReceiveCreate(e, k, session, valid) ==
    /\ proc.at = "idle"
    /\ LET evict == e2c[e] # None /\ e2c[e] # k
       IN proc' = [at |-> IF evict THEN "get" ELSE "create", op |-> "create",
                   source |-> e, key |-> k, session |-> session,
                   valid |-> valid,
                   victim |-> IF evict THEN e2c[e] ELSE None, client |-> None]
    /\ UNCHANGED <<e2c, c2e, clients, current, proxies, hb>>

\* A message of a session arrives from e: the key is in the header, or is the
\* one e is known by.
ReceiveMessage(e, k, session, op) ==
    /\ proc.at = "idle"
    /\ proc' = [ProcIdle EXCEPT !.at = "find", !.op = op, !.source = e, !.session = session,
                  !.key = IF has_session_client_key(session) THEN k ELSE e2c[e]]
    /\ UNCHANGED <<e2c, c2e, clients, current, proxies, hb>>

FindClient ==
    /\ proc.at = "find"
    /\ proc' = IF get_client(proc.key) = None THEN ProcIdle
               ELSE [proc EXCEPT !.at = "update", !.client = get_client(proc.key)]
    /\ UNCHANGED <<e2c, c2e, clients, current, proxies, hb>>

\* The heartbeat thread has found p dead and has not finished with it.
Suspected(p) == /\ hb.client = p
                /\ hb.state = "dead"
                /\ hb.at \in {"endpoint", "load", "store", "test", "mark"}

\* update_state(), then the submessages: a DELETE of the client goes on in
\* delete_client, with the key of the proxy.
UpdateState ==
    /\ proc.at = "update"
    /\ proc' = IF proc.op = "delete"
               THEN [proc EXCEPT !.at = "get", !.client = None,
                                 !.victim = proxies[proc.client].key]
               ELSE ProcIdle
    /\ clients' = clients /\ hb' = hb
    /\ Keep([proxies EXCEPT ![proc.client] =
                [proxies[proc.client] EXCEPT
                    !.state = "alive", !.stale = FALSE, !.tries = 0,
                    !.silent = 0, !.heard = proxies[proc.client].hard,
                    !.raced = proxies[proc.client].hard /\ Suspected(proc.client)]])
    /\ UNCHANGED <<e2c, c2e, current>>

\* delete_client, first part: get_client.  For a CREATE_CLIENT the client of
\* the endpoint is deleted, and an unknown one is no obstacle.
ProcGet ==
    /\ proc.at = "get"
    /\ proc' = IF get_client(proc.victim) # None
               THEN [proc EXCEPT !.at = "erase", !.client = get_client(proc.victim)]
               ELSE IF proc.op = "create" THEN [proc EXCEPT !.at = "destroy"]
               ELSE ProcIdle
    /\ UNCHANGED <<e2c, c2e, clients, current, proxies, hb>>

\* Mutant: the session of the client that made way is kept.
ProcErase_keepsSession ==
    /\ proc.at = "erase"
    /\ erase_client(proc.victim)
    /\ proc' = [proc EXCEPT !.at = IF proc.op = "create" THEN "create" ELSE "destroy",
                            !.client = None]
    /\ hb' = hb
    /\ Keep(proxies)
    /\ UNCHANGED <<e2c, c2e>>

ProcErase ==
    /\ proc.at = "erase"
    /\ erase_client(proc.victim)
    /\ proc' = [proc EXCEPT !.at = "destroy", !.client = None]
    /\ hb' = hb
    /\ Keep(proxies)
    /\ UNCHANGED <<e2c, c2e>>

ProcDestroy ==
    /\ proc.at = "destroy"
    /\ destroy_session_of_endpoint(proc.source)
    /\ proc' = IF proc.op = "create" THEN [proc EXCEPT !.at = "create"] ELSE ProcIdle
    /\ UNCHANGED <<clients, current, proxies, hb>>

\* An invalid key, cookie or version is answered with an error.
ProcCreate ==
    /\ proc.at = "create"
    /\ proc' = IF proc.valid THEN [proc EXCEPT !.at = "establish"] ELSE ProcIdle
    /\ hb' = hb
    /\ IF proc.valid THEN create_client(proc.key, proc.session)
       ELSE UNCHANGED <<clients, proxies>>
    /\ UNCHANGED <<e2c, c2e, current>>

ProcEstablish ==
    /\ proc.at = "establish"
    /\ establish_session(proc.source, proc.key, proc.session)
    /\ proc' = ProcIdle
    /\ UNCHANGED <<clients, current, proxies, hb>>

-----------------------------------------------------------------------------
(* The heartbeat thread *)

GetNextClient ==
    /\ hb.at = "idle"
    /\ IF current # None
       THEN /\ hb' = [HbIdle EXCEPT !.at = "state", !.client = clients[current]]
            /\ current' = After(current)
       ELSE /\ hb' = hb
            /\ current' = First(Registered)
    /\ UNCHANGED <<e2c, c2e, clients, proxies, proc>>

Seen == proxies[hb.client]

\* get_state: only an alive client is found dead.
get_state == IF Seen.state = "alive" /\ Seen.stale THEN "dead" ELSE Seen.state

ReadState ==
    /\ hb.at = "state"
    /\ hb' = [hb EXCEPT !.at = "endpoint", !.state = get_state]
    /\ proxies' = [proxies EXCEPT ![hb.client] =
          [Seen EXCEPT !.state = get_state,
                       !.silent = IF Seen.hard /\ get_state = "dead"
                                  THEN Min({Seen.silent + 1, LivelinessTries})
                                  ELSE Seen.silent]]
    /\ UNCHANGED <<e2c, c2e, clients, current, proc>>

HbDone(ps) == hb' = HbIdle /\ Keep(ps)

\* get_endpoint and the choice: a heartbeat, a ping, the end, or nothing.
GetEndpoint ==
    /\ hb.at = "endpoint"
    /\ clients' = clients /\ proc' = proc
    /\ IF Seen.hard /\ hb.state \in {"dead", "to_remove"}
       THEN /\ hb' = [hb EXCEPT !.at = IF hb.state = "dead" THEN "load" ELSE "get"]
            /\ proxies' = proxies
       ELSE HbDone(proxies)
    /\ UNCHANGED <<e2c, c2e, current>>

\* hard_liveliness_check_tries_++ is a load and a store without state_mtx_.
LoadTries ==
    /\ hb.at = "load"
    /\ hb' = [hb EXCEPT !.at = "store", !.tries = Seen.tries]
    /\ UNCHANGED <<e2c, c2e, clients, current, proxies, proc>>

\* Mutant: the count starts at one after a client was heard.
StoreTries_twice ==
    /\ hb.at = "store"
    /\ hb' = [hb EXCEPT !.at = "test"]
    /\ proxies' = [proxies EXCEPT ![hb.client].tries =
                      IF hb.tries = 0 THEN 2 ELSE (hb.tries + 1) % 256]
    /\ UNCHANGED <<e2c, c2e, clients, current, proc>>

StoreTries ==
    /\ hb.at = "store"
    /\ hb' = [hb EXCEPT !.at = "test"]
    /\ proxies' = [proxies EXCEPT ![hb.client].tries = (hb.tries + 1) % 256]
    /\ UNCHANGED <<e2c, c2e, clients, current, proc>>

TestTries ==
    /\ hb.at = "test"
    /\ clients' = clients /\ proc' = proc
    /\ IF Seen.tries = LivelinessTries
       THEN hb' = [hb EXCEPT !.at = "mark"] /\ proxies' = proxies
       ELSE HbDone(proxies)
    /\ UNCHANGED <<e2c, c2e, current>>

\* update_state(to_remove); the ping is sent all the same.
MarkToRemove ==
    /\ hb.at = "mark"
    /\ clients' = clients /\ proc' = proc
    /\ HbDone([proxies EXCEPT ![hb.client].state = "to_remove"])
    /\ UNCHANGED <<e2c, c2e, current>>

\* delete_client(client->get_client_key()): the client the key has by now.
HbGet ==
    /\ hb.at = "get"
    /\ clients' = clients /\ proc' = proc
    /\ IF get_client(Seen.key) # None
       THEN hb' = [hb EXCEPT !.at = "erase"] /\ proxies' = proxies
       ELSE HbDone(proxies)
    /\ UNCHANGED <<e2c, c2e, current>>

HbErase ==
    /\ hb.at = "erase"
    /\ erase_client(Seen.key)
    /\ hb' = [hb EXCEPT !.at = "destroy"]
    /\ proc' = proc
    /\ Keep(proxies)
    /\ UNCHANGED <<e2c, c2e>>

HbDestroy ==
    /\ hb.at = "destroy"
    /\ destroy_session_of_key(Seen.key)
    /\ clients' = clients /\ proc' = proc
    /\ HbDone(proxies)
    /\ UNCHANGED current

-----------------------------------------------------------------------------
\* A client has not been heard for client_dead_time_.
FallSilent(p) ==
    /\ ~proxies[p].stale
    /\ proxies' = [proxies EXCEPT ![p].stale = TRUE]
    /\ UNCHANGED <<e2c, c2e, clients, current, proc, hb>>

Proceed ==
    \/ FindClient \/ UpdateState
    \/ ProcGet \/ ProcErase \/ ProcDestroy \/ ProcCreate \/ ProcEstablish

Heartbeat ==
    \/ GetNextClient \/ ReadState \/ GetEndpoint
    \/ LoadTries \/ StoreTries \/ TestTries \/ MarkToRemove
    \/ HbGet \/ HbErase \/ HbDestroy

ClientsNext ==
    \/ \E e \in Endpoints, k \in Keys, s \in Sessions, v \in BOOLEAN :
          ReceiveCreate(e, k, s, v)
    \/ \E e \in Endpoints, k \in Keys, s \in Sessions, op \in {"data", "delete"} :
          ReceiveMessage(e, k, s, op)
    \/ Proceed
    \/ Heartbeat
    \/ \E p \in DOMAIN proxies : FallSilent(p)

ClientsSpec == ClientsInit /\ [][ClientsNext]_clients_vars

(* Both threads run for as long as the server does, and neither waits for  *)
(* anything but a mutex that is held for a few instructions.               *)
ClientsFairSpec == ClientsSpec /\ WF_clients_vars(Proceed) /\ WF_clients_vars(Heartbeat)

-----------------------------------------------------------------------------
(* The heartbeat thread's iterator never points at a client that was       *)
(* erased while it was asleep or in the middle of a round: Root advances   *)
(* it in delete_client.                                                    *)
IteratorValid == current # None => clients[current] # None

(* When no thread is at work on the maps, every client that is addressed   *)
(* by its endpoint alone, and did not ask for hard liveliness, can be      *)
(* heard and answered: its packets lead to it and its endpoint is known    *)
(* (Processor's CREATE_CLIENT, Root::create_client, establish_session).    *)
RegisteredClientsReachable ==
    proc.at = "idle" /\ hb.at # "destroy" =>
        \A k \in Registered \ HardKeys :
            ~has_session_client_key(proxies[clients[k]].session) =>
                c2e[k] # None /\ e2c[c2e[k]] = k

(* A client is marked for removal only after three heartbeat rounds found  *)
(* it dead without a word from it, unless its last word came while the     *)
(* heartbeat thread was counting, or it never sent any (the count of a new *)
(* ProxyClient is not initialised).                                        *)
RemovalIsEarned ==
    \A p \in DOMAIN proxies :
        proxies[p].state = "to_remove" =>
            \/ proxies[p].silent = LivelinessTries
            \/ proxies[p].raced
            \/ ~proxies[p].heard

(* A client that asked for hard liveliness and falls silent for good does  *)
(* not stay: it speaks again, or it is removed.                            *)
SilentClientsLeave ==
    \A k \in Keys :
        []<>~( /\ clients[k] # None
               /\ proxies[clients[k]].hard
               /\ proxies[clients[k]].stale )

(* Every client is visited by the heartbeat thread again and again,        *)
(* however often other clients come and go while it walks the map.         *)
EveryClientVisited ==
    \A k \in Keys : []<>(clients[k] = None \/ hb.client = clients[k])

\* What the heartbeat thread achieves in the end (check_heartbeats): clients
\* that fall silent leave, and no client is left out of its rounds.
RoundsReachEveryone == SilentClientsLeave /\ EveryClientVisited

\* Root's map and its iterator.
ClientsInv == ClientsTypeOK /\ IteratorValid
=============================================================================
