------------------------ MODULE ClientLifecycleProofs ------------------------
(***************************************************************************)
(* How the Agent knows its clients, for any number of endpoints, keys and  *)
(* sessions: the session manager's two maps agree, Root's map and its      *)
(* iterator stay sound while two threads create, visit and erase clients,  *)
(* removal is earned, and a client that is known can be reached.           *)
(***************************************************************************)
EXTENDS ClientLifecycle, FiniteSetTheorems, FunctionTheorems, TLAPS

-----------------------------------------------------------------------------
(* The session manager alone                                               *)

MapsInv == MapsType /\ MapsAgree

(* Erasing an endpoint keeps the map a map and removes that entry only.    *)
LEMMA ForgetErases ==
    ASSUME MapsType, NEW e \in Endpoints \cup {None}
    PROVE  /\ Forget(e) \in [Endpoints -> Keys \cup {None}]
           /\ \A f \in Endpoints : Forget(e)[f] # None
                 => f # e /\ Forget(e)[f] = e2c[f]
  BY DEF Forget, MapsType

(* A client that (re-)establishes its session leaves no endpoint behind    *)
(* that still names it.                                                    *)
LEMMA EstablishKeepsAgreement ==
    ASSUME MapsInv, NEW e \in Endpoints, NEW k \in Keys, NEW s \in Sessions,
           establish_session(e, k, s)
    PROVE  MapsInv'
  <1>1. c2e[k] \in Endpoints \cup {None}
    BY DEF MapsInv, MapsType
  <1>2. /\ Forget(c2e[k]) \in [Endpoints -> Keys \cup {None}]
        /\ \A f \in Endpoints : Forget(c2e[k])[f] # None
              => f # c2e[k] /\ Forget(c2e[k])[f] = e2c[f]
    BY <1>1, ForgetErases DEF MapsInv
  <1>3. MapsType'
    BY <1>2 DEF establish_session, MapsInv, MapsType
  <1>4. ASSUME NEW f \in Endpoints, e2c'[f] # None
        PROVE  c2e'[e2c'[f]] = f
    <2>1. CASE f = e /\ e2c'[f] = k
      BY <2>1 DEF establish_session, MapsInv, MapsType
    <2>2. CASE ~(f = e /\ e2c'[f] = k)
      <3>1. e2c'[f] = Forget(c2e[k])[f]
        BY <1>2, <2>2 DEF establish_session
      <3>2. f # c2e[k] /\ e2c'[f] = e2c[f]
        BY <1>2, <1>4, <3>1
      <3>3. c2e[e2c[f]] = f /\ e2c[f] # k
        BY <1>4, <3>2 DEF MapsInv, MapsAgree
      <3> QED
        BY <1>4, <3>2, <3>3 DEF establish_session, MapsInv, MapsType
    <2> QED
      BY <2>1, <2>2
  <1> QED
    BY <1>3, <1>4 DEF MapsInv, MapsAgree

(* Closing the session of an endpoint erases its client from both maps.    *)
LEMMA DestroyEndpointKeepsAgreement ==
    ASSUME MapsInv, NEW e \in Endpoints, destroy_session_of_endpoint(e)
    PROVE  MapsInv'
  <1>1. /\ Forget(e) \in [Endpoints -> Keys \cup {None}]
        /\ \A f \in Endpoints : Forget(e)[f] # None
              => f # e /\ Forget(e)[f] = e2c[f]
    BY ForgetErases DEF MapsInv
  <1>2. MapsType'
    BY <1>1 DEF destroy_session_of_endpoint, MapsInv, MapsType
  <1>3. ASSUME NEW f \in Endpoints, e2c'[f] # None
        PROVE  c2e'[e2c'[f]] = f
    <2>1. f # e /\ e2c'[f] = e2c[f]
      BY <1>1, <1>3 DEF destroy_session_of_endpoint
    <2>2. c2e[e2c[f]] = f
      BY <1>3, <2>1 DEF MapsInv, MapsAgree
    <2>3. CASE e2c[e] = None
      BY <2>1, <2>2, <2>3 DEF destroy_session_of_endpoint
    <2>4. CASE e2c[e] # None
      <3>1. c2e[e2c[e]] = e
        BY <2>4 DEF MapsInv, MapsAgree
      <3>2. e2c[f] # e2c[e]
        BY <2>1, <2>2, <3>1
      <3> QED
        BY <1>3, <2>1, <2>2, <2>4, <3>2
        DEF destroy_session_of_endpoint, MapsInv, MapsType
    <2> QED
      BY <2>3, <2>4
  <1> QED
    BY <1>2, <1>3 DEF MapsInv, MapsAgree

(* Closing the session of a client leaves no endpoint that names it.       *)
LEMMA DestroyKeyKeepsAgreement ==
    ASSUME MapsInv, NEW k \in Keys, destroy_session_of_key(k)
    PROVE  MapsInv'
  <1>1. c2e[k] \in Endpoints \cup {None}
    BY DEF MapsInv, MapsType
  <1>2. /\ Forget(c2e[k]) \in [Endpoints -> Keys \cup {None}]
        /\ \A f \in Endpoints : Forget(c2e[k])[f] # None
              => f # c2e[k] /\ Forget(c2e[k])[f] = e2c[f]
    BY <1>1, ForgetErases DEF MapsInv
  <1>3. MapsType'
    BY <1>2 DEF destroy_session_of_key, MapsInv, MapsType
  <1>4. ASSUME NEW f \in Endpoints, e2c'[f] # None
        PROVE  c2e'[e2c'[f]] = f
    <2>1. f # c2e[k] /\ e2c'[f] = e2c[f]
      BY <1>2, <1>4 DEF destroy_session_of_key
    <2>2. c2e[e2c[f]] = f /\ e2c[f] # k
      BY <1>4, <2>1 DEF MapsInv, MapsAgree
    <2> QED
      BY <1>4, <2>1, <2>2 DEF destroy_session_of_key, MapsInv, MapsType
  <1> QED
    BY <1>3, <1>4 DEF MapsInv, MapsAgree

(* Both maps of the session manager agree after any sequence of            *)
(* establish_session and destroy_session calls.                            *)
THEOREM MapsAlwaysAgree == MapsSpec => []MapsAgree
  <1>1. MapsInit => MapsInv
    BY DEF MapsInit, MapsInv, MapsType, MapsAgree
  <1>2. MapsInv /\ [MapsNext]_maps => MapsInv'
    <2> SUFFICES ASSUME MapsInv, [MapsNext]_maps
                 PROVE  MapsInv'
      OBVIOUS
    <2>1. CASE \E e \in Endpoints, k \in Keys, s \in Sessions :
                  establish_session(e, k, s)
      BY <2>1, EstablishKeepsAgreement
    <2>2. CASE \E e \in Endpoints : destroy_session_of_endpoint(e)
      BY <2>2, DestroyEndpointKeepsAgreement
    <2>3. CASE \E k \in Keys : destroy_session_of_key(k)
      BY <2>3, DestroyKeyKeepsAgreement
    <2>4. CASE UNCHANGED maps
      BY <2>4 DEF maps, MapsInv, MapsType, MapsAgree
    <2> QED
      BY <2>1, <2>2, <2>3, <2>4 DEF MapsNext
  <1>3. MapsInv => MapsAgree
    BY DEF MapsInv
  <1> QED
    BY <1>1, <1>2, <1>3, PTL DEF MapsSpec

-----------------------------------------------------------------------------
(* Root's map, its iterator and the ProxyClients                           *)

\* What the map and the two threads point to.
Held == Range(clients) \cup {proc.client, hb.client}

\* A ProxyClient lives exactly as long as something points to it.
ProxiesOK ==
    /\ DOMAIN proxies = Held \ {None}
    /\ \A p \in DOMAIN proxies : proxies[p] \in Proxy

RootOK ==
    /\ clients \in [Keys -> ProxyIds \cup {None}]
    /\ current \in Keys \cup {None}
    /\ IteratorValid

\* What the processing thread knows at each of its places.
ProcOK ==
    /\ proc \in [at : ProcSteps, op : {"none", "create", "data", "delete"},
                 source : Endpoints \cup {None}, key : Keys \cup {None},
                 session : Sessions \cup {0}, valid : BOOLEAN,
                 victim : Keys \cup {None}, client : ProxyIds \cup {None}]
    /\ proc.at # "idle" => proc.source \in Endpoints
    /\ proc.client # None <=> proc.at \in {"update", "erase"}
    /\ proc.at \in {"get", "erase"} => proc.victim \in Keys
    /\ proc.at \in {"create", "establish"} => proc.op = "create"
    /\ proc.op = "create" => proc.key \in Keys /\ proc.session \in Sessions

HbOK ==
    /\ hb \in [at : HbSteps, client : ProxyIds \cup {None}, state : States, tries : 0 .. 255]
    /\ hb.client # None <=> hb.at # "idle"
    /\ hb.at \in {"load", "store", "test", "mark"} => hb.state = "dead"

LifeInv == MapsType /\ RootOK /\ ProxiesOK /\ ProcOK /\ HbOK

\* A set of numbers that is not empty has a least one: the numbers below it
\* are the least of such sets.
LEMMA LeastNumber == ASSUME NEW ks \in SUBSET Nat, ks # {} PROVE Min(ks) \in ks
  <1> DEFINE Below(k) == 0 .. k - 1
             T == {Below(k) : k \in ks}
  <1>1. \A k \in Nat : Below(k) \subseteq Nat /\ IsFiniteSet(Below(k))
    BY FS_Interval
  <1>2. T \subseteq FiniteSubsetsOf(Nat) /\ T # {}
    BY <1>1 DEF FiniteSubsetsOf
  <1> DEFINE R == StrictSubsetOrdering(Nat)
  <1>3. PICK B \in T : \A C \in T : ~ (<<C, B>> \in R)
    <2>1. IsWellFoundedOn(R, FiniteSubsetsOf(Nat))
      BY FS_StrictSubsetOrderingWellFounded
    <2> HIDE DEF R, T
    <2> QED BY <1>2, <2>1, WFMin
  <1>4. PICK x \in ks : B = Below(x)
    BY <1>3
  <1>5. ASSUME NEW y \in ks, ~(x <= y) PROVE FALSE
    <2>1. x \in Nat /\ y \in Nat /\ y < x
      BY <1>5
    <2>2. y \in Below(x) /\ y \notin Below(y) /\ Below(y) \subseteq Below(x)
      BY <2>1
    <2>3. <<Below(y), Below(x)>> \in R
      BY <1>1, <2>1, <2>2 DEF StrictSubsetOrdering
    <2>4. Below(y) \in T
      OBVIOUS
    <2> HIDE DEF R, T, Below
    <2> QED BY <1>3, <1>4, <2>3, <2>4
  <1> QED BY <1>5 DEF Min

\* The first key is one of them.
LEMMA FirstIsOne == ASSUME NEW ks \in SUBSET Keys, ks # {} PROVE First(ks) \in ks
  BY KeysAssumption, LeastNumber DEF First

LEMMA FirstKey == \A ks \in SUBSET Keys : First(ks) \in ks \cup {None}
  BY FirstIsOne DEF First

\* What a change of one client adds to what the map points to.
LEMMA RangeChanged ==
    ASSUME NEW T, clients \in [Keys -> T], NEW k \in Keys, NEW v
    PROVE  Range([clients EXCEPT ![k] = v]) \subseteq Range(clients) \cup {v}
  BY DEF Range

\* Keep forgets the objects nothing points to, and no others.
LEMMA KeepHolds ==
    ASSUME NEW ps, Keep(ps), Held' \ {None} \subseteq DOMAIN ps, None \notin DOMAIN ps,
           \A p \in DOMAIN ps : ps[p] \in Proxy
    PROVE  ProxiesOK' /\ \A p \in DOMAIN proxies' : p \in DOMAIN ps /\ proxies'[p] = ps[p]
  <1>1. proxies' = [p \in Held' \cap DOMAIN ps |-> ps[p]]
    BY DEF Keep, Held, Restrict
  <1>2. DOMAIN proxies' = Held' \ {None}
    BY <1>1
  <1> QED BY <1>1, <1>2 DEF ProxiesOK

\* There is room for a proxy while the processing thread holds none.
LEMMA FreeIdIsFree ==
    ASSUME LifeInv, proc.client = None
    PROVE  FreeId \in ProxyIds \ DOMAIN proxies
  <1> DEFINE n == Cardinality(Keys)
             R == Range(clients)
  <1>1. n \in Nat
    BY KeysAssumption, FS_CardinalityType
  <1>2. IsFiniteSet(R) /\ Cardinality(R) <= n
    <2>1. clients \in Surjection(Keys, R)
      BY Fun_RangeProperties DEF LifeInv, RootOK
    <2> QED BY <2>1, FS_Surjection, KeysAssumption
  <1>3. IsFiniteSet(R \cup {hb.client}) /\ Cardinality(R \cup {hb.client}) <= n + 1
    <2>1. Cardinality(R) \in Nat
      BY <1>2, FS_CardinalityType
    <2>2. /\ IsFiniteSet(R \cup {hb.client})
          /\ Cardinality(R \cup {hb.client}) = IF hb.client \in R THEN Cardinality(R) ELSE Cardinality(R) + 1
      BY <1>2, FS_AddElement
    <2> HIDE DEF n, R
    <2> QED BY <1>1, <1>2, <2>1, <2>2
  <1>4. DOMAIN proxies \subseteq R \cup {hb.client}
    BY DEF LifeInv, ProxiesOK, Held
  <1>5. IsFiniteSet(DOMAIN proxies) /\ Cardinality(DOMAIN proxies) <= n + 1
    <2>1. IsFiniteSet(DOMAIN proxies) /\ Cardinality(DOMAIN proxies) <= Cardinality(R \cup {hb.client})
      BY <1>3, <1>4, FS_Subset
    <2>2. Cardinality(DOMAIN proxies) \in Nat /\ Cardinality(R \cup {hb.client}) \in Nat
      BY <1>3, <2>1, FS_CardinalityType
    <2> QED BY <1>1, <1>3, <2>1, <2>2
  <1>6. Cardinality(ProxyIds) = n + 2
    BY <1>1, FS_Interval DEF ProxyIds
  <1>7. ProxyIds \ DOMAIN proxies # {}
    <2> SUFFICES ASSUME ProxyIds \subseteq DOMAIN proxies PROVE FALSE
      OBVIOUS
    <2>1. Cardinality(ProxyIds) <= Cardinality(DOMAIN proxies)
      BY <1>5, FS_Subset
    <2>2. Cardinality(DOMAIN proxies) \in Nat
      BY <1>5, FS_CardinalityType
    <2> QED BY <1>1, <1>5, <1>6, <2>1, <2>2
  <1> DEFINE F == ProxyIds \ DOMAIN proxies
  <1>8. F \subseteq Nat
    BY DEF ProxyIds
  <1> QED BY <1>7, <1>8, LeastNumber DEF FreeId

\* What the map points to is a living proxy.
LEMMA ClientsLive ==
    ASSUME LifeInv
    PROVE  /\ \A k \in Keys : clients[k] # None => clients[k] \in DOMAIN proxies
           /\ proc.client # None => proc.client \in DOMAIN proxies
           /\ hb.client # None => hb.client \in DOMAIN proxies
           /\ None \notin DOMAIN proxies
           /\ DOMAIN proxies \subseteq ProxyIds
           /\ \A p \in DOMAIN proxies : proxies[p] \in Proxy
  BY DEF LifeInv, ProxiesOK, Held, Range, RootOK, ProcOK, HbOK

\* One proxy that changes leaves the others alone.
LEMMA ProxyReplaced ==
    ASSUME LifeInv, NEW id \in DOMAIN proxies, NEW r \in Proxy
    PROVE  LET ps == [proxies EXCEPT ![id] = r]
           IN  /\ DOMAIN ps = DOMAIN proxies
               /\ \A p \in DOMAIN ps : ps[p] \in Proxy
               /\ \A p \in DOMAIN ps : ps[p] = IF p = id THEN r ELSE proxies[p]
  BY ClientsLive

\* Steps that move a thread on and keep the proxies that are pointed to.
LEMMA ProxiesStay ==
    ASSUME LifeInv, Held' \ {None} = Held \ {None}, UNCHANGED proxies
    PROVE  ProxiesOK'
  BY DEF LifeInv, ProxiesOK

LEMMA KeepProxies ==
    ASSUME LifeInv, Held' \ {None} \subseteq Held, Keep(proxies)
    PROVE  ProxiesOK' /\ \A p \in DOMAIN proxies' : p \in DOMAIN proxies /\ proxies'[p] = proxies[p]
  <1>1. Held' \ {None} \subseteq DOMAIN proxies
    BY DEF LifeInv, ProxiesOK
  <1> QED BY <1>1, KeepHolds, ClientsLive

LEMMA ReceiveKeepsLife ==
    ASSUME LifeInv, NEW e \in Endpoints, NEW k \in Keys, NEW s \in Sessions,
           \/ \E v \in BOOLEAN : ReceiveCreate(e, k, s, v)
           \/ \E op \in {"data", "delete"} : ReceiveMessage(e, k, s, op)
    PROVE  LifeInv'
  <1> USE DEF LifeInv
  <1>1. UNCHANGED <<e2c, c2e, clients, current, proxies, hb>> /\ proc.at = "idle" /\ e2c[e] \in Keys \cup {None}
    BY DEF ReceiveCreate, ReceiveMessage, MapsType
  <1>2. MapsType' /\ RootOK' /\ HbOK'
    BY <1>1 DEF MapsType, RootOK, HbOK, IteratorValid
  <1>3. ProcOK'
    <2>1. CASE \E v \in BOOLEAN : ReceiveCreate(e, k, s, v)
      BY <1>1, <2>1, NoneAssumption DEF ReceiveCreate, ProcOK, ProcSteps
    <2>2. CASE \E op \in {"data", "delete"} : ReceiveMessage(e, k, s, op)
      <3>1. PICK op \in {"data", "delete"} : ReceiveMessage(e, k, s, op)
        BY <2>2
      <3> DEFINE key == IF has_session_client_key(s) THEN k ELSE e2c[e]
      <3>2. key \in Keys \cup {None}
        BY <1>1
      <3>3. proc' = [ProcIdle EXCEPT !.at = "find", !.op = op, !.source = e, !.session = s, !.key = key]
        BY <3>1 DEF ReceiveMessage
      <3> HIDE DEF key
      <3> QED BY <3>1, <3>2, <3>3 DEF ProcIdle, ProcOK, ProcSteps
    <2> QED BY <2>1, <2>2
  <1>5. proc'.at \in {"get", "create", "find"}
    <2>1. CASE \E v \in BOOLEAN : ReceiveCreate(e, k, s, v)
      BY <2>1 DEF ReceiveCreate
    <2>2. CASE \E op \in {"data", "delete"} : ReceiveMessage(e, k, s, op)
      BY <2>2 DEF ReceiveMessage, ProcIdle
    <2> QED BY <2>1, <2>2
  <1>4. proc.client = None /\ proc'.client = None
    <2>1. proc.client = None
      BY <1>1 DEF ProcOK
    <2>2. proc'.client = None
      BY <1>3, <1>5 DEF ProcOK
    <2> QED BY <2>1, <2>2
  <1>6. ProxiesOK'
    BY <1>1, <1>4, ProxiesStay DEF Held
  <1> QED BY <1>2, <1>3, <1>6

LEMMA FindKeepsLife == ASSUME LifeInv, FindClient \/ ProcGet PROVE LifeInv'
  <1> USE DEF LifeInv
  <1>1. UNCHANGED <<e2c, c2e, clients, current, proxies, hb>> /\ proc.at \in {"find", "get"}
    BY DEF FindClient, ProcGet
  <1>2. MapsType' /\ RootOK' /\ HbOK'
    BY <1>1 DEF MapsType, RootOK, HbOK, IteratorValid
  <1>3. \A k \in Keys \cup {None} : get_client(k) \in ProxyIds \cup {None}
          /\ (get_client(k) # None => k \in Keys /\ get_client(k) \in Range(clients))
    BY NoneAssumption DEF get_client, RootOK, Range
  <1>4. proc.client = None /\ proc.key \in Keys \cup {None} /\ proc.victim \in Keys \cup {None}
    BY <1>1 DEF ProcOK
  <1>5. ProcOK'
    <2>1. CASE FindClient
      BY <1>1, <1>3, <1>4, <2>1, ZenonT(60) DEF FindClient, ProcIdle, ProcOK, ProcSteps
    <2>2. CASE ProcGet
      BY <1>1, <1>3, <1>4, <2>2, ZenonT(60) DEF ProcGet, ProcIdle, ProcOK, ProcSteps
    <2> QED BY <2>1, <2>2
  <1>6. proc'.client \in Range(clients) \cup {None}
    <2>1. CASE FindClient
      BY <1>3, <1>4, <2>1 DEF FindClient, ProcIdle, ProcOK
    <2>2. CASE ProcGet
      BY <1>3, <1>4, <2>2 DEF ProcGet, ProcIdle, ProcOK
    <2> QED BY <2>1, <2>2
  <1>7. ProxiesOK'
    BY <1>1, <1>4, <1>6, ProxiesStay DEF Held
  <1> QED BY <1>2, <1>5, <1>7

LEMMA UpdateKeepsLife ==
    ASSUME LifeInv, UpdateState
    PROVE  /\ LifeInv'
           /\ proc.client \in DOMAIN proxies
           /\ \A p \in DOMAIN proxies' :
                p \in DOMAIN proxies /\ proxies'[p] =
                   IF p = proc.client
                   THEN [proxies[p] EXCEPT
                            !.state = "alive", !.stale = FALSE, !.tries = 0,
                            !.silent = 0, !.heard = proxies[p].hard,
                            !.raced = proxies[p].hard /\ Suspected(p)]
                   ELSE proxies[p]
  <1> USE DEF LifeInv
  <1> DEFINE c == proc.client
             r == [proxies[c] EXCEPT
                            !.state = "alive", !.stale = FALSE, !.tries = 0,
                            !.silent = 0, !.heard = proxies[c].hard,
                            !.raced = proxies[c].hard /\ Suspected(c)]
             ps == [proxies EXCEPT ![c] = r]
  <1>1. /\ proc.at = "update" /\ clients' = clients /\ hb' = hb /\ Keep(ps)
        /\ UNCHANGED <<e2c, c2e, current>>
        /\ proc' = IF proc.op = "delete"
                   THEN [proc EXCEPT !.at = "get", !.client = None, !.victim = proxies[c].key]
                   ELSE ProcIdle
    BY DEF UpdateState
  <1>2. c \in DOMAIN proxies /\ proxies[c] \in Proxy
    BY <1>1, ClientsLive DEF ProcOK
  <1>3. r \in Proxy
    <2> DEFINE raced == proxies[c].hard /\ Suspected(c)
    <2>1. raced \in BOOLEAN /\ proxies[c].hard \in BOOLEAN
      BY <1>2 DEF Proxy
    <2> HIDE DEF raced
    <2>2. [proxies[c] EXCEPT !.state = "alive", !.stale = FALSE, !.tries = 0, !.silent = 0,
                             !.heard = proxies[c].hard, !.raced = raced] \in Proxy
      <3>1. "alive" \in States /\ 0 \in 0 .. 255 /\ 0 \in 0 .. LivelinessTries /\ FALSE \in BOOLEAN
        BY DEF States, LivelinessTries
      <3> QED BY <1>2, <2>1, <3>1, Zenon DEF Proxy
    <2> QED BY <2>2 DEF raced
  <1> HIDE DEF r
  <1>4. /\ DOMAIN ps = DOMAIN proxies
        /\ \A p \in DOMAIN ps : ps[p] \in Proxy
        /\ \A p \in DOMAIN ps : ps[p] = IF p = c THEN r ELSE proxies[p]
    BY <1>2, <1>3, ProxyReplaced
  <1>5. proxies[c].key \in Keys
    BY <1>2 DEF Proxy
  <1>6. MapsType' /\ RootOK' /\ HbOK'
    BY <1>1 DEF MapsType, RootOK, HbOK, IteratorValid
  <1>7. ProcOK' /\ proc'.client = None
    BY <1>1, <1>5 DEF ProcOK, ProcIdle, ProcSteps
  <1>8. Held' \ {None} \subseteq DOMAIN proxies
    BY <1>1, <1>7 DEF Held, ProxiesOK
  <1> HIDE DEF ps
  <1>9. ProxiesOK' /\ \A p \in DOMAIN proxies' : p \in DOMAIN ps /\ proxies'[p] = ps[p]
    BY <1>1, <1>4, <1>8, KeepHolds, ClientsLive
  <1>10. \A p \in DOMAIN proxies' : p \in DOMAIN proxies /\ proxies'[p] = IF p = c THEN r ELSE proxies[p]
    BY <1>4, <1>9
  <1> QED BY <1>2, <1>6, <1>7, <1>9, <1>10 DEF r

\* The iterator leaves a client before it is erased.
LEMMA EraseKeepsRoot ==
    ASSUME RootOK, NEW k \in Keys, erase_client(k)
    PROVE  /\ RootOK'
           /\ Range(clients') \subseteq Range(clients) \cup {None}
           /\ \A i \in Keys : clients'[i] = IF i = k THEN None ELSE clients[i]
  <1>1. /\ clients' = [clients EXCEPT ![k] = None]
        /\ current' = IF current = k THEN After(k) ELSE current
    BY DEF erase_client
  <1>2. \A i \in Keys : clients'[i] = IF i = k THEN None ELSE clients[i]
    BY <1>1 DEF RootOK
  <1>3. After(k) \in {i \in Registered : i > k} \cup {None}
    BY FirstKey DEF After, Registered
  <1>4. k \notin {i \in Registered : i > k}
    BY KeysAssumption
  <1>5. current' \in Keys \cup {None} /\ IteratorValid'
    BY <1>1, <1>2, <1>3, <1>4 DEF RootOK, IteratorValid, Registered
  <1>6. clients' \in [Keys -> ProxyIds \cup {None}]
    BY <1>1 DEF RootOK
  <1>7. Range(clients') \subseteq Range(clients) \cup {None}
    BY <1>1, RangeChanged DEF RootOK
  <1> QED BY <1>2, <1>5, <1>6, <1>7 DEF RootOK

LEMMA ProcEraseKeepsLife ==
    ASSUME LifeInv, ProcErase
    PROVE  LifeInv' /\ \A p \in DOMAIN proxies' : p \in DOMAIN proxies /\ proxies'[p] = proxies[p]
  <1> USE DEF LifeInv
  <1>1. /\ proc.at = "erase" /\ erase_client(proc.victim) /\ hb' = hb /\ Keep(proxies)
        /\ proc' = [proc EXCEPT !.at = "destroy", !.client = None] /\ UNCHANGED <<e2c, c2e>>
    BY DEF ProcErase
  <1>2. proc.victim \in Keys
    BY <1>1 DEF ProcOK
  <1>3. RootOK' /\ Range(clients') \subseteq Range(clients) \cup {None}
    BY <1>1, <1>2, EraseKeepsRoot
  <1>4. ProcOK' /\ proc'.client = None
    BY <1>1 DEF ProcOK, ProcSteps
  <1>5. MapsType' /\ HbOK'
    BY <1>1 DEF MapsType, HbOK
  <1>6. Held' \ {None} \subseteq Held
    BY <1>1, <1>3, <1>4 DEF Held
  <1>7. ProxiesOK' /\ \A p \in DOMAIN proxies' : p \in DOMAIN proxies /\ proxies'[p] = proxies[p]
    BY <1>1, <1>6, KeepProxies
  <1> QED BY <1>3, <1>4, <1>5, <1>7

\* The session manager's operations keep its maps maps.
LEMMA MapsStayMaps ==
    ASSUME MapsType
    PROVE  /\ \A e \in Endpoints, k \in Keys, s \in Sessions : establish_session(e, k, s) => MapsType'
           /\ \A e \in Endpoints : destroy_session_of_endpoint(e) => MapsType'
           /\ \A k \in Keys : destroy_session_of_key(k) => MapsType'
  <1>1. \A k \in Keys : c2e[k] \in Endpoints \cup {None}
    BY DEF MapsType
  <1>2. \A e \in Endpoints \cup {None} : Forget(e) \in [Endpoints -> Keys \cup {None}]
    BY ForgetErases
  <1>3. ASSUME NEW e \in Endpoints, NEW k \in Keys, NEW s \in Sessions, establish_session(e, k, s)
        PROVE  MapsType'
    BY <1>1, <1>2, <1>3 DEF establish_session, MapsType
  <1>4. ASSUME NEW e \in Endpoints, destroy_session_of_endpoint(e)
        PROVE  MapsType'
    BY <1>2, <1>4 DEF destroy_session_of_endpoint, MapsType
  <1>5. ASSUME NEW k \in Keys, destroy_session_of_key(k)
        PROVE  MapsType'
    BY <1>1, <1>2, <1>5 DEF destroy_session_of_key, MapsType
  <1> QED BY <1>3, <1>4, <1>5

LEMMA SessionsKeepLife == ASSUME LifeInv, ProcDestroy \/ ProcEstablish PROVE LifeInv'
  <1> USE DEF LifeInv
  <1>1. UNCHANGED <<clients, current, proxies, hb>> /\ proc.at \in {"destroy", "establish"}
    BY DEF ProcDestroy, ProcEstablish
  <1>2. RootOK' /\ HbOK'
    BY <1>1 DEF RootOK, HbOK, IteratorValid
  <1>3. proc.source \in Endpoints /\ proc.client = None
    BY <1>1 DEF ProcOK
  <1>4. ProcOK' /\ proc'.client = None
    <2>1. CASE ProcDestroy
      BY <1>1, <1>3, <2>1 DEF ProcDestroy, ProcOK, ProcIdle, ProcSteps
    <2>2. CASE ProcEstablish
      BY <2>2 DEF ProcEstablish, ProcOK, ProcIdle, ProcSteps
    <2> QED BY <2>1, <2>2
  <1>5. MapsType'
    BY <1>3, MapsStayMaps DEF ProcDestroy, ProcEstablish, ProcOK
  <1>6. ProxiesOK'
    BY <1>1, <1>3, <1>4, ProxiesStay DEF Held
  <1> QED BY <1>2, <1>4, <1>5, <1>6

\* A client that is created gets a proxy of its own, or keeps the one it had.
LEMMA CreateKeepsLife ==
    ASSUME LifeInv, ProcCreate
    PROVE  /\ LifeInv'
           /\ UNCHANGED <<e2c, c2e, current, hb>>
           /\ \A k \in Keys :
                 \/ clients'[k] = clients[k]
                 \/ k = proc.key /\ clients'[k] = FreeId /\ proc'.at = "establish" /\ proc'.key = k
           /\ \A p \in DOMAIN proxies' :
                 \/ p \in DOMAIN proxies /\ proxies'[p] = proxies[p]
                 \/ /\ p = FreeId /\ p \notin DOMAIN proxies
                    /\ \E t \in InitialTries :
                         proxies'[p] = NewProxy(proc.key, proc.session,
                                                proc.key \in HardKeys /\ clients[proc.key] = None, t)
  <1> USE DEF LifeInv
  <1>1. proc.at = "create" /\ hb' = hb /\ UNCHANGED <<e2c, c2e, current>>
    BY DEF ProcCreate
  <1>2. proc.client = None /\ proc.op = "create" /\ proc.key \in Keys /\ proc.session \in Sessions
    BY <1>1 DEF ProcOK
  <1>3. ProcOK' /\ proc'.client = None
    BY <1>2 DEF ProcCreate, ProcOK, ProcIdle, ProcSteps
  <1>4. MapsType' /\ HbOK'
    BY <1>1 DEF MapsType, HbOK
  <1>5. CASE UNCHANGED <<clients, proxies>>
    <2>1. ProxiesOK'
      BY <1>1, <1>2, <1>3, <1>5, ProxiesStay DEF Held
    <2>2. RootOK'
      BY <1>1, <1>5 DEF RootOK, IteratorValid
    <2>3. \A k \in Keys : clients'[k] = clients[k]
      BY <1>5
    <2>4. \A p \in DOMAIN proxies' : p \in DOMAIN proxies /\ proxies'[p] = proxies[p]
      BY <1>5
    <2>5. LifeInv'
      BY <1>1, <1>3, <1>4, <2>1, <2>2
    <2> QED BY <1>1, <2>3, <2>4, <2>5
  <1>6. CASE clients' = clients /\ Keep(proxies)
    <2>1. Held' \ {None} \subseteq Held
      BY <1>1, <1>3, <1>6 DEF Held
    <2>2. ProxiesOK' /\ \A p \in DOMAIN proxies' : p \in DOMAIN proxies /\ proxies'[p] = proxies[p]
      BY <1>6, <2>1, KeepProxies
    <2>3. RootOK'
      BY <1>1, <1>6 DEF RootOK, IteratorValid
    <2>4. \A k \in Keys : clients'[k] = clients[k]
      BY <1>6
    <2>5. LifeInv'
      BY <1>1, <1>3, <1>4, <2>2, <2>3
    <2> QED BY <1>1, <2>2, <2>4, <2>5
  <1>7. ASSUME NEW t \in InitialTries, proc.valid, clients' = [clients EXCEPT ![proc.key] = FreeId],
               Keep([p \in DOMAIN proxies \cup {FreeId} |->
                        IF p = FreeId
                        THEN NewProxy(proc.key, proc.session,
                                      proc.key \in HardKeys /\ clients[proc.key] = None, t)
                        ELSE proxies[p]])
        PROVE  /\ LifeInv'
               /\ \A k \in Keys :
                 \/ clients'[k] = clients[k]
                 \/ k = proc.key /\ clients'[k] = FreeId /\ proc'.at = "establish" /\ proc'.key = k
               /\ \A p \in DOMAIN proxies' :
                     \/ p \in DOMAIN proxies /\ proxies'[p] = proxies[p]
                     \/ /\ p = FreeId /\ p \notin DOMAIN proxies
                        /\ proxies'[p] = NewProxy(proc.key, proc.session,
                                                  proc.key \in HardKeys /\ clients[proc.key] = None, t)
    <2> DEFINE new == NewProxy(proc.key, proc.session,
                               proc.key \in HardKeys /\ clients[proc.key] = None, t)
               ps == [p \in DOMAIN proxies \cup {FreeId} |-> IF p = FreeId THEN new ELSE proxies[p]]
               f == FreeId
    <2>1. f \in ProxyIds /\ f \notin DOMAIN proxies /\ f # None
      BY <1>2, FreeIdIsFree, NoProxyAssumption
    <2>2. new \in Proxy
      BY <1>2, TriesAssumption DEF NewProxy, Proxy, States, LivelinessTries
    <2> HIDE DEF new, f
    <2>3. DOMAIN ps = DOMAIN proxies \cup {f} /\ \A p \in DOMAIN ps : ps[p] \in Proxy
            /\ ps[p] = IF p = f THEN new ELSE proxies[p]
      BY <2>1, <2>2, ClientsLive DEF f
    <2>4. /\ clients' \in [Keys -> ProxyIds \cup {None}]
          /\ \A k \in Keys : clients'[k] = IF k = proc.key THEN f ELSE clients[k]
      BY <1>2, <1>7, <2>1 DEF RootOK, f
    <2>5. RootOK'
      BY <1>1, <2>1, <2>4 DEF RootOK, IteratorValid
    <2>6. Range(clients') \subseteq Range(clients) \cup {f}
      BY <1>2, <1>7, RangeChanged DEF RootOK, f
    <2>7. Held' \ {None} \subseteq DOMAIN proxies \cup {f}
      BY <1>1, <1>2, <1>3, <2>6 DEF Held, ProxiesOK
    <2>8. Keep(ps)
      BY <1>7 DEF new
    <2> HIDE DEF ps
    <2>9. ProxiesOK' /\ \A p \in DOMAIN proxies' : p \in DOMAIN ps /\ proxies'[p] = ps[p]
      BY <2>1, <2>3, <2>7, <2>8, KeepHolds, ClientsLive
    <2>10. proc'.at = "establish" /\ proc'.key = proc.key
      BY <1>7 DEF ProcCreate, ProcOK
    <2>11. \A p \in DOMAIN proxies' :
             \/ p \in DOMAIN proxies /\ proxies'[p] = proxies[p]
             \/ p = f /\ p \notin DOMAIN proxies /\ proxies'[p] = new
      BY <2>1, <2>3, <2>9
    <2>12. \A k \in Keys :
                 \/ clients'[k] = clients[k]
                 \/ k = proc.key /\ clients'[k] = f /\ proc'.at = "establish" /\ proc'.key = k
      <3> TAKE k \in Keys
      <3>1. CASE k = proc.key
        BY <2>4, <2>10, <3>1
      <3>2. CASE k # proc.key
        <4>1. clients'[k] = clients[k]
          BY <2>4, <3>2
        <4> QED BY <4>1
      <3> QED BY <3>1, <3>2
    <2> QED BY <1>3, <1>4, <2>5, <2>9, <2>11, <2>12 DEF new, f
  <1>8. CASE ~proc.valid
    BY <1>5, <1>8 DEF ProcCreate
  <1>9. CASE proc.valid
    <2>1. create_client(proc.key, proc.session)
      BY <1>9 DEF ProcCreate
    <2>2. CASE clients' = clients /\ Keep(proxies)
      BY <1>6, <2>2, <1>1
    <2>3. CASE ~(clients' = clients /\ Keep(proxies))
      <3>1. /\ clients' = [clients EXCEPT ![proc.key] = FreeId]
            /\ \E t \in InitialTries :
                 Keep([p \in DOMAIN proxies \cup {FreeId} |->
                        IF p = FreeId
                        THEN NewProxy(proc.key, proc.session,
                                      proc.key \in HardKeys /\ clients[proc.key] = None, t)
                        ELSE proxies[p]])
        BY <2>1, <2>3 DEF create_client
      <3> QED BY <1>1, <1>7, <1>9, <3>1
    <2> QED BY <2>2, <2>3
  <1> QED BY <1>8, <1>9

\* No proxy changes in the step.
SameProxies == \A p \in DOMAIN proxies' : p \in DOMAIN proxies /\ proxies'[p] = proxies[p]

\* Only the heartbeat thread's proxy changes, to r.
OnlySeenChanges(r) ==
    \A p \in DOMAIN proxies' :
        p \in DOMAIN proxies /\ proxies'[p] = IF p = hb.client THEN r ELSE proxies[p]

\* The heartbeat thread lets go of its client.
LEMMA HbDoneKeeps ==
    ASSUME LifeInv, NEW ps, DOMAIN ps = DOMAIN proxies, \A p \in DOMAIN ps : ps[p] \in Proxy,
           HbDone(ps), UNCHANGED <<clients, current, proc>>
    PROVE  /\ RootOK' /\ ProcOK' /\ HbOK' /\ ProxiesOK'
           /\ \A p \in DOMAIN proxies' : p \in DOMAIN proxies /\ proxies'[p] = ps[p]
  <1> USE DEF LifeInv
  <1>1. hb' = HbIdle /\ Keep(ps)
    BY DEF HbDone
  <1>2. HbOK' /\ hb'.client = None
    BY <1>1 DEF HbOK, HbIdle, HbSteps, States
  <1>3. RootOK' /\ ProcOK'
    BY DEF RootOK, IteratorValid, ProcOK
  <1>4. Held' \ {None} \subseteq DOMAIN proxies
    BY <1>2 DEF Held, ProxiesOK
  <1> QED BY <1>1, <1>2, <1>3, <1>4, KeepHolds, ClientsLive

LEMMA SeenLives == ASSUME LifeInv, hb.at # "idle" PROVE hb.client \in DOMAIN proxies /\ Seen \in Proxy
  BY ClientsLive DEF LifeInv, HbOK, Seen

\* Steps in which the heartbeat thread goes on with its client.
LEMMA HbGoesOn ==
    ASSUME LifeInv, hb.at # "idle", HbOK', hb'.client = hb.client, UNCHANGED <<clients, current, proc>>,
           \/ UNCHANGED proxies
           \/ \E r \in Proxy : proxies' = [proxies EXCEPT ![hb.client] = r]
    PROVE  RootOK' /\ ProcOK' /\ ProxiesOK'
  <1> USE DEF LifeInv
  <1>1. RootOK' /\ ProcOK'
    BY DEF RootOK, IteratorValid, ProcOK
  <1>2. DOMAIN proxies' = DOMAIN proxies /\ \A p \in DOMAIN proxies' : proxies'[p] \in Proxy
    <2>1. CASE UNCHANGED proxies
      BY <2>1, ClientsLive
    <2>2. CASE \E r \in Proxy : proxies' = [proxies EXCEPT ![hb.client] = r]
      BY <2>2, SeenLives, ProxyReplaced
    <2> QED BY <2>1, <2>2
  <1>3. Held' = Held
    BY DEF Held
  <1> QED BY <1>1, <1>2, <1>3 DEF ProxiesOK

LEMMA NextClientKeepsLife == ASSUME LifeInv, GetNextClient PROVE LifeInv'
  <1> USE DEF LifeInv
  <1>1. hb.at = "idle" /\ UNCHANGED <<e2c, c2e, clients, proxies, proc>> /\ hb.client = None
    BY DEF GetNextClient, HbOK
  <1>2. MapsType' /\ ProcOK'
    BY <1>1 DEF MapsType, ProcOK
  <1>3. \A k \in Keys : After(k) \in Registered \cup {None}
    BY FirstKey DEF After, Registered
  <1>4. First(Registered) \in Registered \cup {None}
    BY FirstKey DEF Registered
  <1>5. CASE current # None
    <2>1. hb' = [HbIdle EXCEPT !.at = "state", !.client = clients[current]] /\ current' = After(current)
      BY <1>5 DEF GetNextClient
    <2>2. current \in Keys /\ clients[current] \in ProxyIds /\ clients[current] # None
          /\ clients[current] \in Range(clients)
      BY <1>5, NoneAssumption DEF RootOK, IteratorValid, Range
    <2>3. HbOK' /\ hb'.client = clients[current]
      <3> DEFINE c == clients[current]
      <3>1. c \in ProxyIds /\ c # None
        BY <2>2
      <3>2. hb' = [HbIdle EXCEPT !.at = "state", !.client = c]
        BY <2>1
      <3>3. 0 \in 0 .. 255
        OBVIOUS
      <3> HIDE DEF c
      <3>4. HbOK' /\ hb'.client = c
        BY <3>1, <3>2, <3>3 DEF HbOK, HbIdle, HbSteps, States
      <3> QED BY <3>4 DEF c
    <2>4. RootOK'
      BY <1>1, <1>3, <2>1, <2>2 DEF RootOK, IteratorValid, Registered
    <2>5. ProxiesOK'
      BY <1>1, <2>2, <2>3, ProxiesStay DEF Held
    <2> QED BY <1>2, <2>3, <2>4, <2>5
  <1>6. CASE current = None
    <2>1. hb' = hb /\ current' = First(Registered)
      BY <1>6 DEF GetNextClient
    <2>2. HbOK' /\ RootOK'
      BY <1>1, <1>4, <2>1 DEF HbOK, RootOK, IteratorValid, Registered
    <2>3. ProxiesOK'
      BY <1>1, <2>1, ProxiesStay DEF Held
    <2> QED BY <1>2, <2>2, <2>3
  <1> QED BY <1>5, <1>6

\* What get_state leaves in the proxy.
StateRead ==
    [Seen EXCEPT !.state = get_state,
                 !.silent = IF Seen.hard /\ get_state = "dead"
                            THEN Min({Seen.silent + 1, LivelinessTries})
                            ELSE Seen.silent]

LEMMA SilentCounted == \A n \in 0 .. LivelinessTries :
    Min({n + 1, LivelinessTries}) = IF n < LivelinessTries THEN n + 1 ELSE n
  <1> SUFFICES ASSUME NEW n \in 0 .. LivelinessTries
               PROVE  Min({n + 1, LivelinessTries}) = IF n < LivelinessTries THEN n + 1 ELSE n
    OBVIOUS
  <1>1. {n + 1, LivelinessTries} \in SUBSET Nat
    BY DEF LivelinessTries
  <1> DEFINE S == {n + 1, LivelinessTries}
  <1>2. \E x \in S : \A y \in S : x <= y
    BY DEF LivelinessTries
  <1>3. Min(S) \in S /\ \A y \in S : Min(S) <= y
    BY <1>2 DEF Min
  <1> QED BY <1>1, <1>3 DEF LivelinessTries

LEMMA ReadKeepsLife == ASSUME LifeInv, ReadState PROVE LifeInv' /\ OnlySeenChanges(StateRead)
  <1> USE DEF LifeInv
  <1>1. /\ hb.at = "state" /\ hb' = [hb EXCEPT !.at = "endpoint", !.state = get_state]
        /\ proxies' = [proxies EXCEPT ![hb.client] = StateRead]
        /\ UNCHANGED <<e2c, c2e, clients, current, proc>>
    BY DEF ReadState, StateRead
  <1>2. hb.client \in DOMAIN proxies /\ Seen \in Proxy
    BY <1>1, SeenLives
  <1>3. get_state \in States
    BY <1>2 DEF get_state, Proxy, States
  <1>4. StateRead \in Proxy
    <2> DEFINE n == IF Seen.hard /\ get_state = "dead"
                    THEN Min({Seen.silent + 1, LivelinessTries}) ELSE Seen.silent
    <2>1. n \in 0 .. LivelinessTries
      <3>1. Seen.silent \in 0 .. LivelinessTries
        BY <1>2 DEF Proxy
      <3>2. Min({Seen.silent + 1, LivelinessTries}) \in 0 .. LivelinessTries
        BY <3>1, SilentCounted DEF LivelinessTries
      <3> QED BY <3>1, <3>2
    <2> HIDE DEF n
    <2>2. [Seen EXCEPT !.state = get_state, !.silent = n] \in Proxy
      BY <1>2, <1>3, <2>1, Zenon DEF Proxy
    <2> QED BY <2>2 DEF StateRead, n
  <1>5. HbOK' /\ hb'.client = hb.client
    BY <1>1, <1>3 DEF HbOK, HbSteps
  <1>6. MapsType'
    BY <1>1 DEF MapsType
  <1>7. RootOK' /\ ProcOK' /\ ProxiesOK'
    BY <1>1, <1>4, <1>5, HbGoesOn
  <1>8. OnlySeenChanges(StateRead)
    BY <1>1, <1>2, <1>4, ProxyReplaced DEF OnlySeenChanges
  <1> QED BY <1>5, <1>6, <1>7, <1>8

\* Steps that only look, and go on or let go of the client.
LEMMA LooksKeepLife ==
    ASSUME LifeInv, GetEndpoint \/ TestTries \/ HbGet
    PROVE  LifeInv' /\ SameProxies /\ UNCHANGED <<e2c, c2e, clients, current, proc>>
  <1> USE DEF LifeInv
  <1>1. UNCHANGED <<e2c, c2e, clients, current, proc>> /\ hb.at # "idle"
    BY DEF GetEndpoint, TestTries, HbGet
  <1>2. MapsType'
    BY <1>1 DEF MapsType
  <1>3. CASE HbDone(proxies)
    <2>1. RootOK' /\ ProcOK' /\ HbOK' /\ ProxiesOK' /\ SameProxies
      BY <1>1, <1>3, HbDoneKeeps, ClientsLive DEF SameProxies
    <2> QED BY <1>1, <1>2, <2>1
  <1>4. CASE ~HbDone(proxies)
    <2>1. /\ proxies' = proxies
          /\ \E l \in {"load", "get", "mark", "erase"} :
                hb' = [hb EXCEPT !.at = l] /\ (l \in {"load", "mark"} => hb.state = "dead")
      BY <1>4 DEF GetEndpoint, TestTries, HbGet, HbOK
    <2>2. HbOK' /\ hb'.client = hb.client
      BY <1>1, <2>1 DEF HbOK, HbSteps
    <2>3. RootOK' /\ ProcOK' /\ ProxiesOK'
      BY <1>1, <2>1, <2>2, HbGoesOn
    <2> QED BY <1>1, <1>2, <2>1, <2>2, <2>3 DEF SameProxies
  <1> QED BY <1>3, <1>4

LEMMA LoadKeepsLife == ASSUME LifeInv, LoadTries PROVE LifeInv' /\ SameProxies
  <1> USE DEF LifeInv
  <1>1. /\ hb.at = "load" /\ hb' = [hb EXCEPT !.at = "store", !.tries = Seen.tries]
        /\ UNCHANGED <<e2c, c2e, clients, current, proxies, proc>>
    BY DEF LoadTries
  <1>2. Seen.tries \in 0 .. 255
    BY <1>1, SeenLives DEF Proxy
  <1>3. HbOK' /\ hb'.client = hb.client
    BY <1>1, <1>2 DEF HbOK, HbSteps
  <1>4. RootOK' /\ ProcOK' /\ ProxiesOK' /\ MapsType'
    BY <1>1, <1>3, HbGoesOn DEF MapsType
  <1> QED BY <1>1, <1>3, <1>4 DEF SameProxies

LEMMA StoreKeepsLife ==
    ASSUME LifeInv, StoreTries
    PROVE  LifeInv' /\ OnlySeenChanges([Seen EXCEPT !.tries = (hb.tries + 1) % 256])
  <1> USE DEF LifeInv
  <1> DEFINE n == (hb.tries + 1) % 256
             r == [Seen EXCEPT !.tries = n]
  <1>1. /\ hb.at = "store" /\ hb' = [hb EXCEPT !.at = "test"]
        /\ proxies' = [proxies EXCEPT ![hb.client].tries = n]
        /\ UNCHANGED <<e2c, c2e, clients, current, proc>>
    BY DEF StoreTries
  <1>2. hb.client \in DOMAIN proxies /\ Seen \in Proxy
    BY <1>1, SeenLives
  <1>3. n \in 0 .. 255
    BY DEF HbOK
  <1> HIDE DEF n
  <1>4. r \in Proxy
    BY <1>2, <1>3, Zenon DEF Proxy
  <1>5. proxies' = [proxies EXCEPT ![hb.client] = r]
    BY <1>1 DEF Seen
  <1>6. HbOK' /\ hb'.client = hb.client
    BY <1>1 DEF HbOK, HbSteps
  <1>7. RootOK' /\ ProcOK' /\ ProxiesOK' /\ MapsType'
    BY <1>1, <1>4, <1>5, <1>6, HbGoesOn DEF MapsType
  <1> HIDE DEF r
  <1>8. OnlySeenChanges(r)
    BY <1>2, <1>4, <1>5, ProxyReplaced DEF OnlySeenChanges
  <1> QED BY <1>6, <1>7, <1>8 DEF r, n

LEMMA MarkKeepsLife ==
    ASSUME LifeInv, MarkToRemove
    PROVE  LifeInv' /\ OnlySeenChanges([Seen EXCEPT !.state = "to_remove"])
  <1> USE DEF LifeInv
  <1> DEFINE r == [Seen EXCEPT !.state = "to_remove"]
             ps == [proxies EXCEPT ![hb.client] = r]
  <1>1. hb.at = "mark" /\ HbDone(ps) /\ UNCHANGED <<e2c, c2e, clients, current, proc>>
    BY DEF MarkToRemove, Seen
  <1>2. hb.client \in DOMAIN proxies /\ Seen \in Proxy
    BY <1>1, SeenLives
  <1>3. r \in Proxy
    <2>1. "to_remove" \in States
      BY DEF States
    <2> QED BY <1>2, <2>1, Zenon DEF Proxy
  <1> HIDE DEF r
  <1>4. /\ DOMAIN ps = DOMAIN proxies /\ \A p \in DOMAIN ps : ps[p] \in Proxy
        /\ \A p \in DOMAIN ps : ps[p] = IF p = hb.client THEN r ELSE proxies[p]
    BY <1>2, <1>3, ProxyReplaced
  <1> HIDE DEF ps
  <1>5. /\ RootOK' /\ ProcOK' /\ HbOK' /\ ProxiesOK'
        /\ \A p \in DOMAIN proxies' : p \in DOMAIN proxies /\ proxies'[p] = ps[p]
    BY <1>1, <1>4, HbDoneKeeps
  <1>6. OnlySeenChanges(r)
    BY <1>4, <1>5 DEF OnlySeenChanges
  <1>7. MapsType'
    BY <1>1 DEF MapsType
  <1> QED BY <1>5, <1>6, <1>7 DEF r

LEMMA HbEraseKeepsLife == ASSUME LifeInv, HbErase PROVE LifeInv' /\ SameProxies
  <1> USE DEF LifeInv
  <1>1. /\ hb.at = "erase" /\ erase_client(Seen.key) /\ hb' = [hb EXCEPT !.at = "destroy"]
        /\ proc' = proc /\ Keep(proxies) /\ UNCHANGED <<e2c, c2e>>
    BY DEF HbErase
  <1>2. Seen.key \in Keys
    BY <1>1, SeenLives DEF Proxy
  <1>3. RootOK' /\ Range(clients') \subseteq Range(clients) \cup {None}
    BY <1>1, <1>2, EraseKeepsRoot
  <1>4. HbOK' /\ hb'.client = hb.client
    BY <1>1 DEF HbOK, HbSteps
  <1>5. MapsType' /\ ProcOK'
    BY <1>1 DEF MapsType, ProcOK
  <1>6. Held' \ {None} \subseteq Held
    BY <1>1, <1>3, <1>4 DEF Held
  <1>7. ProxiesOK' /\ SameProxies
    BY <1>1, <1>6, KeepProxies DEF SameProxies
  <1> QED BY <1>3, <1>4, <1>5, <1>7

LEMMA HbDestroyKeepsLife == ASSUME LifeInv, HbDestroy PROVE LifeInv' /\ SameProxies
  <1> USE DEF LifeInv
  <1>1. /\ hb.at = "destroy" /\ destroy_session_of_key(Seen.key) /\ HbDone(proxies)
        /\ UNCHANGED <<clients, proc, current>>
    BY DEF HbDestroy
  <1>2. Seen.key \in Keys
    BY <1>1, SeenLives DEF Proxy
  <1>3. MapsType'
    BY <1>1, <1>2, MapsStayMaps
  <1>4. RootOK' /\ ProcOK' /\ HbOK' /\ ProxiesOK' /\ SameProxies
    BY <1>1, HbDoneKeeps, ClientsLive DEF SameProxies
  <1> QED BY <1>3, <1>4

LEMMA SilenceKeepsLife ==
    ASSUME LifeInv, NEW id \in DOMAIN proxies, FallSilent(id)
    PROVE  /\ LifeInv'
           /\ \A p \in DOMAIN proxies' : p \in DOMAIN proxies
                 /\ proxies'[p] = IF p = id THEN [proxies[p] EXCEPT !.stale = TRUE] ELSE proxies[p]
  <1> USE DEF LifeInv
  <1> DEFINE r == [proxies[id] EXCEPT !.stale = TRUE]
  <1>1. /\ proxies' = [proxies EXCEPT ![id] = r]
        /\ UNCHANGED <<e2c, c2e, clients, current, proc, hb>>
    BY DEF FallSilent
  <1>2. r \in Proxy
    <2>1. proxies[id] \in Proxy /\ TRUE \in BOOLEAN
      BY ClientsLive
    <2> QED BY <2>1, Zenon DEF Proxy
  <1> HIDE DEF r
  <1>3. /\ DOMAIN proxies' = DOMAIN proxies /\ \A p \in DOMAIN proxies' : proxies'[p] \in Proxy
        /\ \A p \in DOMAIN proxies' : proxies'[p] = IF p = id THEN r ELSE proxies[p]
    BY <1>1, <1>2, ProxyReplaced
  <1>4. MapsType' /\ RootOK' /\ ProcOK' /\ HbOK'
    BY <1>1 DEF MapsType, RootOK, IteratorValid, ProcOK, HbOK
  <1>5. ProxiesOK'
    BY <1>1, <1>3 DEF ProxiesOK, Held
  <1> QED BY <1>3, <1>4, <1>5 DEF r

LEMMA LifeStep == LifeInv /\ [ClientsNext]_clients_vars => LifeInv'
  <1> SUFFICES ASSUME LifeInv, [ClientsNext]_clients_vars PROVE LifeInv'
    OBVIOUS
  <1>1. CASE UNCHANGED clients_vars
    BY <1>1 DEF clients_vars, LifeInv, MapsType, RootOK, IteratorValid, ProcOK, HbOK, ProxiesOK, Held
  <1>2. CASE Proceed
    BY <1>2, FindKeepsLife, UpdateKeepsLife, ProcEraseKeepsLife, SessionsKeepLife, CreateKeepsLife DEF Proceed
  <1>3. CASE Heartbeat
    BY <1>3, NextClientKeepsLife, ReadKeepsLife, LooksKeepLife, LoadKeepsLife, StoreKeepsLife,
       MarkKeepsLife, HbEraseKeepsLife, HbDestroyKeepsLife DEF Heartbeat
  <1>4. CASE \E p \in DOMAIN proxies : FallSilent(p)
    BY <1>4, SilenceKeepsLife
  <1> QED BY <1>1, <1>2, <1>3, <1>4, ReceiveKeepsLife DEF ClientsNext

LEMMA LifeStart == ClientsInit => LifeInv
  <1> SUFFICES ASSUME ClientsInit PROVE LifeInv
    OBVIOUS
  <1>1. MapsType
    BY DEF ClientsInit, MapsInit, MapsType
  <1>2. RootOK
    BY DEF ClientsInit, RootOK, IteratorValid
  <1>3. ProcOK /\ HbOK /\ proc.client = None /\ hb.client = None
    BY DEF ClientsInit, ProcOK, HbOK, ProcIdle, HbIdle, ProcSteps, HbSteps, States
  <1>4. DOMAIN proxies = {}
    BY DEF ClientsInit
  <1>5. Held \ {None} = {}
    BY <1>3 DEF ClientsInit, Held, Range
  <1> QED BY <1>1, <1>2, <1>3, <1>4, <1>5 DEF LifeInv, ProxiesOK

\* Root's map and its iterator are sound while both threads are at work on
\* them: in particular the iterator never points at an erased client
\* (delete_client, get_next_client, create_client).
THEOREM RootStaysSound == ClientsSpec => []ClientsInv
  <1>1. LifeInv => ClientsInv
    <2> SUFFICES ASSUME LifeInv PROVE ClientsInv
      OBVIOUS
    <2>1. MapsType /\ RootOK /\ HbOK /\ ProcOK
      BY DEF LifeInv
    <2>2. proc \in [at : ProcSteps, op : {"none", "create", "data", "delete"},
                 source : Endpoints \cup {None}, key : Keys \cup {None},
                 session : Sessions \cup {0}, valid : BOOLEAN,
                 victim : Keys \cup {None},
                 client : DOMAIN proxies \cup {None}]
      BY <2>1, ClientsLive DEF ProcOK
    <2>3. hb \in [at : HbSteps, client : DOMAIN proxies \cup {None}, state : States, tries : 0 .. 255]
      BY <2>1, ClientsLive DEF HbOK
    <2> QED BY <2>1, <2>2, <2>3, ClientsLive DEF ClientsInv, ClientsTypeOK, RootOK
  <1> QED BY LifeStart, LifeStep, <1>1, PTL DEF ClientsSpec

-----------------------------------------------------------------------------
(* Removal is earned                                                       *)

\* What the count of x, the proxy p, says of the silent rounds, given how far
\* the heartbeat thread is with it.
Earned(x, p) ==
    x.heard /\ ~x.raced =>
        /\ x.hard
        /\ x.state = "to_remove" => x.silent = LivelinessTries
        /\ \/ x.silent = LivelinessTries
           \/ /\ ~(Suspected(p) /\ hb.at = "mark")
              /\ x.tries <= x.silent
              /\ Suspected(p) /\ hb.at \in {"endpoint", "load"} => x.tries < x.silent
              /\ Suspected(p) /\ hb.at = "store" => hb.tries < x.silent

AllEarned == \A p \in DOMAIN proxies : Earned(proxies[p], p)

\* A proxy that stays as it is, while the heartbeat thread stays or lets go.
LEMMA EarnedStays ==
    ASSUME LifeInv, AllEarned, NEW p \in DOMAIN proxies, hb' = hb \/ hb'.client # p
    PROVE  Earned(proxies[p], p)'  \/ ~(p \in DOMAIN proxies' /\ proxies'[p] = proxies[p])
  <1> SUFFICES ASSUME p \in DOMAIN proxies', proxies'[p] = proxies[p]
               PROVE  Earned(proxies[p], p)'
    OBVIOUS
  <1> DEFINE x == proxies[p]
  <1>1. Earned(x, p) /\ x \in Proxy
    BY ClientsLive DEF AllEarned
  <1>2. proxies'[p] = x /\ x.tries \in Nat /\ x.silent \in Nat /\ x.hard \in BOOLEAN /\ x.heard \in BOOLEAN
          /\ x.raced \in BOOLEAN
    BY <1>1 DEF Proxy, LivelinessTries
  <1> HIDE DEF x
  <1>3. CASE hb' = hb
    BY <1>1, <1>2, <1>3 DEF Earned, Suspected
  <1>4. CASE hb'.client # p
    <2>1. ~Suspected(p)'
      BY <1>4 DEF Suspected
    <2> QED BY <1>1, <1>2, <2>1 DEF Earned
  <1> QED BY <1>3, <1>4

LEMMA EarnedStart == ClientsInit => AllEarned
  BY DEF ClientsInit, AllEarned

\* What is earned before a step is earned after it.
LEMMA EarnedStep == LifeInv /\ AllEarned /\ [ClientsNext]_clients_vars => AllEarned'
  <1> SUFFICES ASSUME LifeInv, AllEarned, [ClientsNext]_clients_vars, NEW p \in DOMAIN proxies'
               PROVE  Earned(proxies[p], p)'
    BY DEF AllEarned
  <1> DEFINE x == proxies[p]
  <1>0. LifeInv'
    BY LifeStep
  <1>1. ASSUME SameProxies, hb' = hb \/ hb'.client # p
        PROVE  Earned(proxies[p], p)'
    BY <1>1, EarnedStays DEF SameProxies
  \* Where the heartbeat thread's client, and only it, is concerned.
  <1>2. ASSUME hb.at # "idle", p \in DOMAIN proxies, p # hb.client, proxies'[p] = proxies[p],
               hb'.client = hb.client
        PROVE  Earned(proxies[p], p)'
    BY <1>2, EarnedStays
  <1>3. CASE UNCHANGED clients_vars
    BY <1>1, <1>3 DEF clients_vars, SameProxies
  <1>4. CASE \E e \in Endpoints, k \in Keys, s \in Sessions, v \in BOOLEAN : ReceiveCreate(e, k, s, v)
    BY <1>1, <1>4 DEF ReceiveCreate, SameProxies
  <1>5. CASE \E e \in Endpoints, k \in Keys, s \in Sessions, op \in {"data", "delete"} : ReceiveMessage(e, k, s, op)
    BY <1>1, <1>5 DEF ReceiveMessage, SameProxies
  <1>6. CASE FindClient \/ ProcGet
    BY <1>1, <1>6 DEF FindClient, ProcGet, SameProxies
  <1>7. CASE UpdateState
    <2>1. /\ proc.client \in DOMAIN proxies /\ hb' = hb
          /\ p \in DOMAIN proxies /\ proxies'[p] =
                   IF p = proc.client
                   THEN [x EXCEPT !.state = "alive", !.stale = FALSE, !.tries = 0,
                                  !.silent = 0, !.heard = x.hard,
                                  !.raced = x.hard /\ Suspected(p)]
                   ELSE x
      BY <1>7, UpdateKeepsLife DEF UpdateState
    <2>2. CASE p = proc.client
      <3>1. x \in Proxy
        BY <2>1, ClientsLive
      <3>2. /\ proxies'[p].state = "alive" /\ proxies'[p].tries = 0 /\ proxies'[p].silent = 0
            /\ proxies'[p].hard = x.hard /\ proxies'[p].heard = x.hard
            /\ proxies'[p].raced = (x.hard /\ Suspected(p))
        BY <2>1, <2>2, <3>1 DEF Proxy
      <3>3. Suspected(p)' = Suspected(p)
        BY <2>1 DEF Suspected
      <3> HIDE DEF x
      <3>4. CASE proxies'[p].heard /\ ~proxies'[p].raced
        <4>1. proxies'[p].hard /\ ~Suspected(p)'
          BY <3>2, <3>3, <3>4
        <4> QED BY <3>2, <4>1 DEF Earned
      <3> QED BY <3>4 DEF Earned
    <2>3. CASE p # proc.client
      BY <2>1, <2>3, EarnedStays
    <2> QED BY <2>2, <2>3
  <1>8. CASE ProcErase
    BY <1>1, <1>8, ProcEraseKeepsLife DEF ProcErase, SameProxies
  <1>9. CASE ProcDestroy \/ ProcEstablish
    BY <1>1, <1>9 DEF ProcDestroy, ProcEstablish, SameProxies
  <1>10. CASE ProcCreate
    <2>1. hb' = hb
      BY <1>10 DEF ProcCreate
    <2>2. CASE p \in DOMAIN proxies /\ proxies'[p] = proxies[p]
      BY <2>1, <2>2, EarnedStays
    <2>3. CASE ~(p \in DOMAIN proxies /\ proxies'[p] = proxies[p])
      <3>1. ~proxies'[p].heard
        BY <1>10, <2>3, CreateKeepsLife DEF NewProxy
      <3> QED BY <3>1 DEF Earned
    <2> QED BY <2>2, <2>3
  <1>11. CASE GetNextClient
    <2>1. hb.client = None /\ proxies' = proxies /\ hb.at = "idle"
      BY <1>11 DEF GetNextClient, LifeInv, HbOK
    <2>2. Earned(x, p) /\ ~Suspected(p)
      BY <2>1 DEF AllEarned, Suspected
    <2>3. ~Suspected(p)'
      BY <1>11, <2>1 DEF GetNextClient, Suspected, HbIdle, LifeInv, HbOK
    <2>4. proxies'[p] = x
      BY <2>1
    <2> HIDE DEF x
    <2> QED BY <2>2, <2>3, <2>4 DEF Earned
  <1>12. CASE ReadState
    <2>1. /\ hb.at = "state" /\ hb' = [hb EXCEPT !.at = "endpoint", !.state = get_state]
          /\ OnlySeenChanges(StateRead)
      BY <1>12, ReadKeepsLife DEF ReadState
    <2>2. hb'.client = hb.client /\ hb'.at = "endpoint" /\ hb'.state = get_state
      BY <2>1 DEF LifeInv, HbOK
    <2>3. CASE p # hb.client
      BY <1>2, <2>1, <2>2, <2>3 DEF OnlySeenChanges
    <2>4. CASE p = hb.client
      <3>1. p \in DOMAIN proxies /\ proxies'[p] = StateRead /\ Seen = x /\ x \in Proxy
        BY <2>1, <2>4, ClientsLive DEF OnlySeenChanges, Seen
      <3>2. Earned(x, p) /\ ~Suspected(p)
        BY <2>1, <3>1 DEF AllEarned, Suspected
      <3> HIDE DEF x
      <3> DEFINE y == proxies'[p]
                 died == x.hard /\ get_state = "dead"
      <3>3. /\ y.heard = x.heard /\ y.raced = x.raced /\ y.hard = x.hard /\ y.tries = x.tries
            /\ y.state = get_state
            /\ y.silent = IF died THEN Min({x.silent + 1, LivelinessTries}) ELSE x.silent
        BY <3>1 DEF StateRead, Proxy
      <3>4. /\ x.silent \in 0 .. LivelinessTries /\ x.tries \in Nat
            /\ x.heard \in BOOLEAN /\ x.raced \in BOOLEAN /\ x.hard \in BOOLEAN
        BY <3>1 DEF Proxy
      <3>5. y.silent = IF died /\ x.silent < LivelinessTries THEN x.silent + 1 ELSE x.silent
        BY <3>3, <3>4, SilentCounted
      <3>6. Suspected(p)' <=> get_state = "dead"
        BY <2>2, <2>4 DEF Suspected
      <3>7. get_state = "to_remove" => x.state = "to_remove"
        BY <3>1 DEF get_state
      <3> HIDE DEF y, died
      <3>8. ASSUME y.heard, ~y.raced
            PROVE  /\ y.hard
                   /\ y.state = "to_remove" => y.silent = LivelinessTries
                   /\ \/ y.silent = LivelinessTries
                      \/ y.tries <= y.silent /\ (get_state = "dead" => y.tries < y.silent)
        <4>1. x.heard /\ ~x.raced /\ x.hard /\ y.hard
          BY <3>2, <3>3, <3>4, <3>8 DEF Earned
        <4>2. (died <=> get_state = "dead") /\ (x.state = "to_remove" => x.silent = LivelinessTries)
          BY <3>2, <4>1 DEF Earned, died
        <4>3. x.silent = LivelinessTries \/ x.tries <= x.silent
          BY <3>2, <4>1 DEF Earned
        <4>4. CASE died
          <5>1. y.silent = IF x.silent < LivelinessTries THEN x.silent + 1 ELSE x.silent
            BY <3>5, <4>4
          <5>2. y.silent = LivelinessTries \/ (y.tries <= y.silent /\ y.tries < y.silent)
            BY <3>3, <3>4, <4>3, <5>1 DEF LivelinessTries
          <5>3. y.state # "to_remove"
            BY <3>3, <4>2, <4>4
          <5> QED BY <4>1, <5>2, <5>3
        <4>5. CASE ~died
          <5>1. y.silent = x.silent
            BY <3>5, <4>5
          <5> QED BY <3>3, <3>7, <4>1, <4>2, <4>3, <4>5, <5>1
        <4> QED BY <4>4, <4>5
      <3>9. Earned(proxies[p], p)' <=>
              (y.heard /\ ~y.raced =>
                   /\ y.hard
                   /\ y.state = "to_remove" => y.silent = LivelinessTries
                   /\ \/ y.silent = LivelinessTries
                      \/ y.tries <= y.silent /\ (get_state = "dead" => y.tries < y.silent))
        BY <2>2, <3>6 DEF Earned, y
      <3> QED BY <3>8, <3>9
    <2> QED BY <2>3, <2>4
  <1>13. CASE GetEndpoint \/ TestTries \/ HbGet
    <2>1. SameProxies /\ hb.at \in {"endpoint", "test", "get"}
      BY <1>13, LooksKeepLife DEF GetEndpoint, TestTries, HbGet
    <2>2. CASE hb'.client # p
      BY <1>1, <2>1, <2>2
    <2>3. CASE hb'.client = p
      <3>1. p # None /\ p \in DOMAIN proxies /\ proxies'[p] = x
        BY <2>1, ClientsLive DEF SameProxies
      <3>2. hb' # HbIdle
        BY <2>3, <3>1 DEF HbIdle
      <3>3. hb'.client = hb.client /\ hb'.state = hb.state /\ hb'.at \in {"load", "get", "mark", "erase"}
            /\ (hb'.at = "mark" => hb.at = "test" /\ Seen.tries = LivelinessTries)
            /\ (hb'.at = "load" => hb.at = "endpoint")
        BY <1>13, <3>2 DEF GetEndpoint, TestTries, HbGet, HbDone, LifeInv, HbOK
      <3>4. Earned(x, p) /\ x \in Proxy /\ Seen = x
        BY <2>3, <3>1, <3>3, ClientsLive DEF AllEarned, Seen
      <3>5. x.tries \in Nat /\ x.silent \in 0 .. LivelinessTries
        BY <3>4 DEF Proxy
      <3>6. /\ hb'.at = "load" => (Suspected(p)' <=> Suspected(p))
            /\ hb'.at = "mark" => (Suspected(p)' <=> Suspected(p))
            /\ hb'.at \in {"get", "erase"} => ~Suspected(p)'
        BY <3>3, <2>1 DEF Suspected
      <3> HIDE DEF x
      <3>7. CASE hb'.at = "mark"
        <4>1. x.tries = LivelinessTries
          BY <3>3, <3>4, <3>7
        <4>2. x.heard /\ ~x.raced => x.hard /\ x.silent = LivelinessTries
          BY <3>4, <3>5, <4>1 DEF Earned, LivelinessTries
        <4> QED BY <3>1, <4>2 DEF Earned
      <3>8. CASE hb'.at = "load"
        BY <3>1, <3>3, <3>4, <3>6, <3>8 DEF Earned
      <3>9. CASE hb'.at \in {"get", "erase"}
        BY <3>1, <3>3, <3>4, <3>6, <3>9 DEF Earned
      <3> QED BY <3>3, <3>7, <3>8, <3>9
    <2> QED BY <2>2, <2>3
  <1>14. CASE LoadTries
    <2>1. SameProxies /\ hb.at = "load" /\ hb' = [hb EXCEPT !.at = "store", !.tries = Seen.tries]
      BY <1>14, LoadKeepsLife DEF LoadTries
    <2>2. hb'.client = hb.client /\ hb'.state = hb.state /\ hb'.at = "store" /\ hb'.tries = Seen.tries
      BY <2>1 DEF LifeInv, HbOK
    <2>3. CASE p # hb.client
      BY <1>2, <2>1, <2>2, <2>3 DEF SameProxies
    <2>4. CASE p = hb.client
      <3>1. Earned(x, p) /\ Seen = x /\ proxies'[p] = x
        BY <2>1, <2>4 DEF AllEarned, SameProxies, Seen
      <3>2. Suspected(p)' <=> Suspected(p)
        BY <2>1, <2>2 DEF Suspected
      <3> HIDE DEF x
      <3> QED BY <2>1, <2>2, <3>1, <3>2 DEF Earned
    <2> QED BY <2>3, <2>4
  <1>15. CASE StoreTries
    <2>1. /\ OnlySeenChanges([Seen EXCEPT !.tries = (hb.tries + 1) % 256])
          /\ hb.at = "store" /\ hb' = [hb EXCEPT !.at = "test"]
      BY <1>15, StoreKeepsLife DEF StoreTries
    <2>2. hb'.client = hb.client /\ hb'.state = hb.state /\ hb'.at = "test" /\ hb.tries \in Nat
      BY <2>1 DEF LifeInv, HbOK
    <2>3. CASE p # hb.client
      BY <1>2, <2>1, <2>2, <2>3 DEF OnlySeenChanges
    <2>4. CASE p = hb.client
      <3> DEFINE n == (hb.tries + 1) % 256
      <3>1. Earned(x, p) /\ Seen = x /\ proxies'[p] = [x EXCEPT !.tries = n] /\ x \in Proxy
        BY <2>1, <2>4, ClientsLive DEF AllEarned, OnlySeenChanges, Seen
      <3>2. x.tries \in Nat /\ x.silent \in 0 .. LivelinessTries
        BY <3>1 DEF Proxy
      <3>3. hb.tries < LivelinessTries => n = hb.tries + 1
        BY <2>2 DEF LivelinessTries
      <3> HIDE DEF x, n
      <3>4. /\ proxies'[p].heard = x.heard /\ proxies'[p].raced = x.raced /\ proxies'[p].hard = x.hard
            /\ proxies'[p].state = x.state /\ proxies'[p].silent = x.silent /\ proxies'[p].tries = n
        BY <3>1 DEF Proxy
      <3>5. Suspected(p)' <=> Suspected(p)
        BY <2>1, <2>2 DEF Suspected
      <3>6. Suspected(p)
        BY <2>1, <2>4 DEF Suspected, LifeInv, HbOK
      <3>7. x.heard /\ ~x.raced /\ x.silent # LivelinessTries => n <= x.silent
        <4>1. x.heard /\ ~x.raced /\ x.silent # LivelinessTries => hb.tries < x.silent
          BY <2>1, <3>1, <3>6 DEF Earned
        <4>2. hb.tries < x.silent => n = hb.tries + 1
          BY <2>2, <3>2, <3>3 DEF LivelinessTries
        <4>3. hb.tries < x.silent => n <= x.silent
          BY <2>2, <3>2, <4>2 DEF LivelinessTries
        <4> QED BY <4>1, <4>3
      <3>8. x.heard /\ ~x.raced => x.hard /\ (x.state = "to_remove" => x.silent = LivelinessTries)
        BY <3>1 DEF Earned
      <3> QED BY <2>2, <3>4, <3>7, <3>8 DEF Earned
    <2> QED BY <2>3, <2>4
  <1>16. CASE MarkToRemove
    <2>1. OnlySeenChanges([Seen EXCEPT !.state = "to_remove"]) /\ hb.at = "mark" /\ hb' = HbIdle
      BY <1>16, MarkKeepsLife DEF MarkToRemove, HbDone
    <2>2. hb'.client = None /\ p # None
      BY <1>0, <2>1 DEF HbIdle, LifeInv, ProxiesOK
    <2>3. CASE p # hb.client
      BY <2>1, <2>2, <2>3, EarnedStays DEF OnlySeenChanges
    <2>4. CASE p = hb.client
      <3>1. Earned(x, p) /\ Seen = x /\ proxies'[p] = [x EXCEPT !.state = "to_remove"] /\ x \in Proxy
        BY <2>1, <2>4, ClientsLive DEF AllEarned, OnlySeenChanges, Seen
      <3> HIDE DEF x
      <3>2. /\ proxies'[p].heard = x.heard /\ proxies'[p].raced = x.raced /\ proxies'[p].hard = x.hard
            /\ proxies'[p].silent = x.silent
        BY <3>1 DEF Proxy
      <3>3. x.heard /\ ~x.raced => x.hard /\ x.silent = LivelinessTries
        BY <2>1, <2>4, <3>1 DEF Earned, Suspected, LifeInv, HbOK
      <3> QED BY <3>2, <3>3 DEF Earned
    <2> QED BY <2>3, <2>4
  <1>17. CASE HbErase
    <2>1. SameProxies /\ hb.at = "erase" /\ hb' = [hb EXCEPT !.at = "destroy"]
      BY <1>17, HbEraseKeepsLife DEF HbErase
    <2>2. Earned(x, p) /\ proxies'[p] = x
      BY <2>1 DEF SameProxies, AllEarned
    <2>3. ~Suspected(p) /\ ~Suspected(p)'
      BY <2>1 DEF Suspected, LifeInv, HbOK
    <2> HIDE DEF x
    <2> QED BY <2>2, <2>3 DEF Earned
  <1>18. CASE HbDestroy
    <2>1. SameProxies /\ hb' = HbIdle
      BY <1>18, HbDestroyKeepsLife DEF HbDestroy, HbDone
    <2>2. hb'.client # p
      BY <1>0, <2>1 DEF HbIdle, LifeInv, ProxiesOK
    <2> QED BY <1>1, <2>1, <2>2
  <1>19. CASE \E id \in DOMAIN proxies : FallSilent(id)
    <2>1. PICK id \in DOMAIN proxies : FallSilent(id)
      BY <1>19
    <2>2. /\ p \in DOMAIN proxies /\ hb' = hb
          /\ proxies'[p] = IF p = id THEN [x EXCEPT !.stale = TRUE] ELSE x
      BY <2>1, SilenceKeepsLife DEF FallSilent
    <2>3. Earned(x, p) /\ x \in Proxy
      BY <2>2, ClientsLive DEF AllEarned
    <2> HIDE DEF x
    <2>4. /\ proxies'[p].heard = x.heard /\ proxies'[p].raced = x.raced /\ proxies'[p].hard = x.hard
          /\ proxies'[p].state = x.state /\ proxies'[p].silent = x.silent /\ proxies'[p].tries = x.tries
      BY <2>2, <2>3 DEF Proxy
    <2>5. Suspected(p)' <=> Suspected(p)
      BY <2>2 DEF Suspected
    <2> QED BY <2>2, <2>3, <2>4, <2>5 DEF Earned
  <1> QED BY <1>3, <1>4, <1>5, <1>6, <1>7, <1>8, <1>9, <1>10, <1>11, <1>12, <1>13, <1>14, <1>15,
             <1>16, <1>17, <1>18, <1>19 DEF ClientsNext, Proceed, Heartbeat

\* A client is marked for removal only after three rounds of silence, but for
\* the two races the model names (get_state, hard_liveliness_check_tries_).
THEOREM RemovalAlwaysEarned == ClientsSpec => []RemovalIsEarned
  <1>1. AllEarned /\ LifeInv => RemovalIsEarned
    <2> SUFFICES ASSUME AllEarned, LifeInv, NEW p \in DOMAIN proxies, proxies[p].state = "to_remove",
                        ~proxies[p].raced, proxies[p].heard
                 PROVE  proxies[p].silent = LivelinessTries
      BY DEF RemovalIsEarned
    <2> QED BY DEF AllEarned, Earned
  <1> QED BY LifeStart, LifeStep, EarnedStart, EarnedStep, <1>1, PTL DEF ClientsSpec
-----------------------------------------------------------------------------
(* The session manager's maps under both threads                           *)

\* Every step of the Agent makes one call of the session manager, or none.
LEMMA CallsOfSteps ==
    ASSUME LifeInv, [ClientsNext]_clients_vars
    PROVE  \/ UNCHANGED maps
           \/ ProcEstablish /\ proc.key \in Keys /\ proc.session \in Sessions /\ proc.source \in Endpoints
           \/ ProcDestroy /\ proc.source \in Endpoints
           \/ HbDestroy /\ Seen.key \in Keys /\ hb.client \in DOMAIN proxies
  <1>1. CASE ProcEstablish
    BY <1>1 DEF ProcEstablish, LifeInv, ProcOK
  <1>2. CASE ProcDestroy
    BY <1>2 DEF ProcDestroy, LifeInv, ProcOK
  <1>3. CASE HbDestroy
    <2>1. hb.at # "idle"
      BY <1>3 DEF HbDestroy
    <2> QED BY <1>3, <2>1, SeenLives DEF Proxy
  <1>4. CASE UNCHANGED clients_vars
    BY <1>4 DEF clients_vars, maps
  <1>5. CASE \/ \E e \in Endpoints, k \in Keys, s \in Sessions, v \in BOOLEAN : ReceiveCreate(e, k, s, v)
             \/ \E e \in Endpoints, k \in Keys, s \in Sessions, op \in {"data", "delete"} :
                   ReceiveMessage(e, k, s, op)
             \/ \E p \in DOMAIN proxies : FallSilent(p)
    BY <1>5 DEF ReceiveCreate, ReceiveMessage, FallSilent, maps
  <1>6. CASE FindClient \/ UpdateState \/ ProcGet \/ ProcErase \/ ProcCreate
    BY <1>6 DEF FindClient, UpdateState, ProcGet, ProcErase, ProcCreate, maps
  <1>7. CASE GetNextClient \/ ReadState \/ GetEndpoint \/ LoadTries \/ StoreTries
    BY <1>7 DEF GetNextClient, ReadState, GetEndpoint, LoadTries, StoreTries, maps
  <1>8. CASE TestTries \/ MarkToRemove \/ HbGet \/ HbErase
    BY <1>8 DEF TestTries, MarkToRemove, HbGet, HbErase, maps
  <1> QED BY <1>1, <1>2, <1>3, <1>4, <1>5, <1>6, <1>7, <1>8 DEF ClientsNext, Proceed, Heartbeat

LEMMA AgreementStep == LifeInv /\ MapsAgree /\ [ClientsNext]_clients_vars => MapsAgree'
  <1> SUFFICES ASSUME LifeInv, MapsAgree, [ClientsNext]_clients_vars PROVE MapsAgree'
    OBVIOUS
  <1>0. MapsInv
    BY DEF LifeInv, MapsInv
  <1>1. CASE UNCHANGED maps
    BY <1>1 DEF maps, MapsAgree
  <1>2. CASE ProcEstablish /\ proc.key \in Keys /\ proc.session \in Sessions /\ proc.source \in Endpoints
    <2>1. establish_session(proc.source, proc.key, proc.session)
      BY <1>2 DEF ProcEstablish
    <2> QED BY <1>0, <1>2, <2>1, EstablishKeepsAgreement DEF MapsInv
  <1>3. CASE ProcDestroy /\ proc.source \in Endpoints
    <2>1. destroy_session_of_endpoint(proc.source)
      BY <1>3 DEF ProcDestroy
    <2> QED BY <1>0, <1>3, <2>1, DestroyEndpointKeepsAgreement DEF MapsInv
  <1>4. CASE HbDestroy /\ Seen.key \in Keys
    <2>1. destroy_session_of_key(Seen.key)
      BY <1>4 DEF HbDestroy
    <2> QED BY <1>0, <1>4, <2>1, DestroyKeyKeepsAgreement DEF MapsInv
  <1> QED BY <1>1, <1>2, <1>3, <1>4, CallsOfSteps

\* The two maps agree while the processing thread and the heartbeat thread
\* both enter and remove clients, in whatever order their calls come
\* (establish_session, destroy_session).
THEOREM ThreadsKeepAgreement == ClientsSpec => []MapsAgree
  <1>1. ClientsInit => MapsAgree
    BY DEF ClientsInit, MapsInit, MapsAgree
  <1> QED BY LifeStart, LifeStep, AgreementStep, <1>1, PTL DEF ClientsSpec

-----------------------------------------------------------------------------
(* Known clients are reachable                                             *)

\* Root finds a client by the key of its proxy, and what the threads hold on
\* to is what they looked up.
KeysMatch ==
    /\ \A k \in Keys : clients[k] # None => proxies[clients[k]].key = k
    /\ \A p \in DOMAIN proxies : proxies[p].hard => proxies[p].key \in HardKeys
    /\ proc.at = "update" => proxies[proc.client].key = proc.key
    /\ hb.at \in {"get", "erase", "destroy"} => Seen.hard

\* A client with an endpoint is found by it.
EndpointsLead == \A k \in Keys : c2e[k] # None => e2c[c2e[k]] = k

\* The endpoint a packet came from belongs to no one but the client the
\* processing thread is dealing with.
SourceIsOwn ==
    /\ proc.at \in {"find", "update", "create", "establish"} => e2c[proc.source] \in {None, proc.key}
    /\ proc.at \in {"get", "erase", "destroy"} =>
          proc.victim \in Keys /\ e2c[proc.source] \in {None, proc.victim}
    /\ proc.at = "destroy" => clients[proc.victim] = None

\* A client in Root's map has an endpoint, or is about to get it.
HasEndpoint ==
    \A k \in Registered \ HardKeys :
        c2e[k] # None \/ (proc.at = "establish" /\ proc.key = k)

ReachInv == KeysMatch /\ EndpointsLead /\ SourceIsOwn /\ HasEndpoint

KeysStay ==
    \A p \in DOMAIN proxies' :
        /\ p \in DOMAIN proxies
        /\ proxies'[p].key = proxies[p].key /\ proxies'[p].hard = proxies[p].hard

ClientsStay == \A k \in Keys : clients'[k] \in {clients[k], None}

\* Only a CREATE_CLIENT adds clients and proxies; nothing changes whose a
\* proxy is.
LEMMA OnlyCreateAdds ==
    ASSUME LifeInv, [ClientsNext]_clients_vars, ~ProcCreate
    PROVE  KeysStay /\ ClientsStay
  <1>0. \A p \in DOMAIN proxies : proxies[p] \in Proxy
    BY ClientsLive
  <1>1. SameProxies => KeysStay
    BY DEF SameProxies, KeysStay
  <1>2. ASSUME NEW r, r.key = Seen.key, r.hard = Seen.hard, OnlySeenChanges(r)
        PROVE  KeysStay
    BY <1>2 DEF OnlySeenChanges, KeysStay, Seen
  <1>3. clients' = clients => ClientsStay
    BY DEF ClientsStay
  <1>4. CASE UNCHANGED clients_vars
    BY <1>1, <1>3, <1>4 DEF clients_vars, SameProxies
  <1>5. CASE \/ \E e \in Endpoints, k \in Keys, s \in Sessions, v \in BOOLEAN : ReceiveCreate(e, k, s, v)
             \/ \E e \in Endpoints, k \in Keys, s \in Sessions, op \in {"data", "delete"} :
                   ReceiveMessage(e, k, s, op)
    BY <1>1, <1>3, <1>5 DEF ReceiveCreate, ReceiveMessage, SameProxies
  <1>6. CASE FindClient \/ ProcGet \/ ProcDestroy \/ ProcEstablish \/ GetNextClient \/ LoadTries
    BY <1>1, <1>3, <1>6 DEF FindClient, ProcGet, ProcDestroy, ProcEstablish, GetNextClient, LoadTries, SameProxies
  <1>7. CASE UpdateState
    <2>1. clients' = clients
      BY <1>7 DEF UpdateState
    <2> SUFFICES ASSUME NEW p \in DOMAIN proxies'
                 PROVE  /\ p \in DOMAIN proxies
                        /\ proxies'[p].key = proxies[p].key /\ proxies'[p].hard = proxies[p].hard
      BY <1>3, <2>1 DEF KeysStay
    <2> DEFINE x == proxies[p]
    <2>2. /\ p \in DOMAIN proxies
          /\ proxies'[p] = IF p = proc.client
                           THEN [x EXCEPT !.state = "alive", !.stale = FALSE, !.tries = 0,
                                          !.silent = 0, !.heard = x.hard,
                                          !.raced = x.hard /\ Suspected(p)]
                           ELSE x
      BY <1>7, UpdateKeepsLife
    <2>3. x \in Proxy
      BY <1>0, <2>2
    <2> HIDE DEF x
    <2> QED BY <2>2, <2>3 DEF Proxy, x
  <1>8. CASE ProcErase \/ HbErase
    <2>1. SameProxies
      BY <1>8, ProcEraseKeepsLife, HbEraseKeepsLife DEF SameProxies
    <2>2. \E k \in Keys : erase_client(k)
      <3>1. ProcErase => proc.victim \in Keys
        BY DEF ProcErase, LifeInv, ProcOK
      <3>2. HbErase => Seen.key \in Keys
        BY SeenLives DEF HbErase, Proxy
      <3> QED BY <1>8, <3>1, <3>2 DEF ProcErase, HbErase
    <2>3. ClientsStay
      BY <2>2, EraseKeepsRoot DEF LifeInv, ClientsStay
    <2> QED BY <1>1, <2>1, <2>3
  <1>9. CASE ReadState
    <2>1. OnlySeenChanges(StateRead) /\ clients' = clients /\ Seen \in Proxy
      BY <1>9, ReadKeepsLife, SeenLives DEF ReadState
    <2>2. StateRead.key = Seen.key /\ StateRead.hard = Seen.hard
      BY <2>1 DEF StateRead, Proxy
    <2> QED BY <1>2, <1>3, <2>1, <2>2
  <1>10. CASE GetEndpoint \/ TestTries \/ HbGet
    BY <1>1, <1>3, <1>10, LooksKeepLife
  <1>11. CASE StoreTries
    <2> DEFINE n == (hb.tries + 1) % 256
    <2>1. OnlySeenChanges([Seen EXCEPT !.tries = n]) /\ clients' = clients /\ Seen \in Proxy
      BY <1>11, StoreKeepsLife, SeenLives DEF StoreTries
    <2> HIDE DEF n
    <2>2. [Seen EXCEPT !.tries = n].key = Seen.key /\ [Seen EXCEPT !.tries = n].hard = Seen.hard
      BY <2>1 DEF Proxy
    <2> QED BY <1>2, <1>3, <2>1, <2>2
  <1>12. CASE MarkToRemove
    <2>1. OnlySeenChanges([Seen EXCEPT !.state = "to_remove"]) /\ clients' = clients /\ Seen \in Proxy
      BY <1>12, MarkKeepsLife, SeenLives DEF MarkToRemove
    <2>2. [Seen EXCEPT !.state = "to_remove"].key = Seen.key /\ [Seen EXCEPT !.state = "to_remove"].hard = Seen.hard
      BY <2>1 DEF Proxy
    <2> QED BY <1>2, <1>3, <2>1, <2>2
  <1>13. CASE HbDestroy
    BY <1>1, <1>3, <1>13, HbDestroyKeepsLife DEF HbDestroy
  <1>14. CASE \E p \in DOMAIN proxies : FallSilent(p)
    <2>1. PICK id \in DOMAIN proxies : FallSilent(id)
      BY <1>14
    <2>2. \A p \in DOMAIN proxies' : p \in DOMAIN proxies
                 /\ proxies'[p] = IF p = id THEN [proxies[p] EXCEPT !.stale = TRUE] ELSE proxies[p]
      BY <2>1, SilenceKeepsLife
    <2>3. KeysStay
      BY <1>0, <2>2 DEF KeysStay, Proxy
    <2> QED BY <1>3, <2>1, <2>3 DEF FallSilent
  <1> QED BY <1>4, <1>5, <1>6, <1>7, <1>8, <1>9, <1>10, <1>11, <1>12, <1>13, <1>14
          DEF ClientsNext, Proceed, Heartbeat

LEMMA MatchStep == LifeInv /\ KeysMatch /\ [ClientsNext]_clients_vars => KeysMatch'
  <1> SUFFICES ASSUME LifeInv, KeysMatch, [ClientsNext]_clients_vars PROVE KeysMatch'
    OBVIOUS
  <1>0. LifeInv'
    BY LifeStep
  <1>1. CASE ~ProcCreate
    <2>1. KeysStay /\ ClientsStay
      BY <1>1, OnlyCreateAdds
    <2>2. \A k \in Keys : clients'[k] # None => proxies'[clients'[k]].key = k
      <3> SUFFICES ASSUME NEW k \in Keys, clients'[k] # None PROVE proxies'[clients'[k]].key = k
        OBVIOUS
      <3>1. clients'[k] = clients[k]
        BY <2>1 DEF ClientsStay
      <3>2. clients'[k] \in DOMAIN proxies'
        BY <1>0, ClientsLive DEF LifeInv, ProxiesOK, Held, Range, RootOK
      <3> QED BY <2>1, <3>1, <3>2 DEF KeysStay, KeysMatch
    <2>3. \A p \in DOMAIN proxies' : proxies'[p].hard => proxies'[p].key \in HardKeys
      BY <2>1 DEF KeysStay, KeysMatch
    <2>4. ASSUME proc'.at = "update" PROVE proxies'[proc'.client].key = proc'.key
      <3>1. proc'.client \in DOMAIN proxies'
        BY <1>0, <2>4 DEF LifeInv, ProxiesOK, Held, ProcOK
      <3>2. CASE proc' = proc
        BY <2>1, <2>4, <3>1, <3>2 DEF KeysStay, KeysMatch
      <3>3. CASE FindClient
        <4>1. /\ proc'.client = clients[proc.key] /\ clients[proc.key] # None
              /\ proc.key \in Keys /\ proc'.key = proc.key
          BY <2>4, <3>3 DEF FindClient, get_client, ProcIdle, LifeInv, ProcOK
        <4> QED BY <2>1, <3>1, <4>1 DEF KeysStay, KeysMatch
      <3>4. proc' = proc \/ FindClient
        <4> SUFFICES ASSUME proc' # proc, ~FindClient PROVE FALSE
          BY DEF FindClient
        <4>1. CASE \/ \E e \in Endpoints, k \in Keys, s \in Sessions, v \in BOOLEAN : ReceiveCreate(e, k, s, v)
                   \/ \E e \in Endpoints, k \in Keys, s \in Sessions, op \in {"data", "delete"} :
                         ReceiveMessage(e, k, s, op)
          <5>1. ASSUME NEW e \in Endpoints, NEW k \in Keys, NEW s \in Sessions, NEW v \in BOOLEAN,
                       ReceiveCreate(e, k, s, v)
                PROVE  FALSE
            BY <2>4, <5>1 DEF ReceiveCreate
          <5>2. ASSUME NEW e \in Endpoints, NEW k \in Keys, NEW s \in Sessions, NEW op \in {"data", "delete"},
                       ReceiveMessage(e, k, s, op)
                PROVE  FALSE
            <6> DEFINE key == IF has_session_client_key(s) THEN k ELSE e2c[e]
            <6>1. proc' = [ProcIdle EXCEPT !.at = "find", !.op = op, !.source = e, !.session = s, !.key = key]
              BY <5>2 DEF ReceiveMessage
            <6> HIDE DEF key
            <6> QED BY <2>4, <6>1 DEF ProcIdle
          <5> QED BY <4>1, <5>1, <5>2
        <4>2. CASE UpdateState \/ ProcGet \/ ProcErase
          <5>1. CASE UpdateState
            <6> DEFINE key == proxies[proc.client].key
            <6>1. proc' = ProcIdle \/ proc' = [proc EXCEPT !.at = "get", !.client = None, !.victim = key]
              BY <5>1 DEF UpdateState
            <6> HIDE DEF key
            <6>2. ProcIdle.at = "idle"
              BY DEF ProcIdle
            <6>3. [proc EXCEPT !.at = "get", !.client = None, !.victim = key].at = "get"
              BY DEF LifeInv, ProcOK
            <6> QED BY <2>4, <6>1, <6>2, <6>3
          <5>2. CASE ProcGet
            BY <2>4, <5>2 DEF ProcGet, ProcIdle, LifeInv, ProcOK
          <5>3. CASE ProcErase
            BY <2>4, <5>3 DEF ProcErase, LifeInv, ProcOK
          <5> QED BY <4>2, <5>1, <5>2, <5>3
        <4>3. CASE ProcDestroy \/ ProcEstablish
          BY <2>4, <4>3 DEF ProcDestroy, ProcEstablish, ProcIdle, LifeInv, ProcOK
        <4>4. CASE GetNextClient \/ ReadState \/ GetEndpoint \/ LoadTries \/ StoreTries
          BY <4>4 DEF GetNextClient, ReadState, GetEndpoint, LoadTries, StoreTries
        <4>5. CASE TestTries \/ MarkToRemove \/ HbGet \/ HbErase \/ HbDestroy
          BY <4>5 DEF TestTries, MarkToRemove, HbGet, HbErase, HbDestroy
        <4>6. CASE UNCHANGED clients_vars \/ \E p \in DOMAIN proxies : FallSilent(p)
          BY <4>6 DEF clients_vars, FallSilent
        <4> QED BY <1>1, <4>1, <4>2, <4>3, <4>4, <4>5, <4>6 DEF ClientsNext, Proceed, Heartbeat
      <3> QED BY <3>2, <3>3, <3>4
    <2>5. ASSUME hb'.at \in {"get", "erase", "destroy"} PROVE Seen'.hard
      <3>1. hb'.client \in DOMAIN proxies'
        BY <1>0, <2>5, SeenLives DEF LifeInv, ProxiesOK, Held, HbOK
      <3>2. CASE hb' = hb
        BY <2>1, <2>5, <3>1, <3>2 DEF KeysStay, KeysMatch, Seen
      <3>3. CASE GetEndpoint
        <4>1. hb'.client = hb.client /\ Seen.hard
          BY <2>5, <3>3 DEF GetEndpoint, HbDone, HbIdle, LifeInv, HbOK
        <4> QED BY <2>1, <3>1, <4>1 DEF KeysStay, Seen
      <3>4. CASE HbGet \/ HbErase
        <4>1. hb'.client = hb.client /\ hb.at \in {"get", "erase"}
          BY <2>5, <3>4 DEF HbGet, HbErase, HbDone, HbIdle, LifeInv, HbOK
        <4> QED BY <2>1, <3>1, <4>1 DEF KeysStay, KeysMatch, Seen
      <3>5. hb' = hb \/ GetEndpoint \/ HbGet \/ HbErase
        <4> SUFFICES ASSUME hb' # hb, ~GetEndpoint, ~HbGet, ~HbErase PROVE FALSE
          BY DEF GetEndpoint, HbGet, HbErase
        <4>1. CASE \/ \E e \in Endpoints, k \in Keys, s \in Sessions, v \in BOOLEAN : ReceiveCreate(e, k, s, v)
                   \/ \E e \in Endpoints, k \in Keys, s \in Sessions, op \in {"data", "delete"} :
                         ReceiveMessage(e, k, s, op)
          BY <4>1 DEF ReceiveCreate, ReceiveMessage
        <4>2. CASE FindClient \/ UpdateState \/ ProcGet \/ ProcErase \/ ProcDestroy \/ ProcEstablish
          BY <4>2 DEF FindClient, UpdateState, ProcGet, ProcErase, ProcDestroy, ProcEstablish
        <4>3. CASE GetNextClient
          BY <2>5, <4>3 DEF GetNextClient, HbIdle
        <4>4. CASE ReadState \/ LoadTries \/ StoreTries
          BY <2>5, <4>4 DEF ReadState, LoadTries, StoreTries, LifeInv, HbOK
        <4>5. CASE TestTries \/ MarkToRemove \/ HbDestroy
          BY <2>5, <4>5 DEF TestTries, MarkToRemove, HbDestroy, HbDone, HbIdle, LifeInv, HbOK
        <4>6. CASE UNCHANGED clients_vars \/ \E p \in DOMAIN proxies : FallSilent(p)
          BY <4>6 DEF clients_vars, FallSilent
        <4> QED BY <1>1, <4>1, <4>2, <4>3, <4>4, <4>5, <4>6 DEF ClientsNext, Proceed, Heartbeat
      <3> QED BY <3>2, <3>3, <3>4, <3>5
    <2> QED BY <2>2, <2>3, <2>4, <2>5 DEF KeysMatch
  <1>2. CASE ProcCreate
    <2>1. /\ \A k \in Keys :
                 \/ clients'[k] = clients[k]
                 \/ k = proc.key /\ clients'[k] = FreeId
          /\ \A p \in DOMAIN proxies' :
                 \/ p \in DOMAIN proxies /\ proxies'[p] = proxies[p]
                 \/ /\ p = FreeId /\ p \notin DOMAIN proxies
                    /\ proxies'[p].key = proc.key /\ (proxies'[p].hard => proc.key \in HardKeys)
      <3>1. \A t : LET new == NewProxy(proc.key, proc.session,
                                      proc.key \in HardKeys /\ clients[proc.key] = None, t)
                  IN new.key = proc.key /\ (new.hard => proc.key \in HardKeys)
        BY DEF NewProxy
      <3>2. \A k \in Keys : clients'[k] = clients[k] \/ (k = proc.key /\ clients'[k] = FreeId)
        BY <1>2, CreateKeepsLife
      <3>3. \A p \in DOMAIN proxies' :
                 \/ p \in DOMAIN proxies /\ proxies'[p] = proxies[p]
                 \/ /\ p = FreeId /\ p \notin DOMAIN proxies
                    /\ \E t \in InitialTries :
                         proxies'[p] = NewProxy(proc.key, proc.session,
                                                proc.key \in HardKeys /\ clients[proc.key] = None, t)
        BY <1>2, CreateKeepsLife
      <3> QED BY <3>1, <3>2, <3>3
    <2>2. proc.client = None
      BY <1>2 DEF ProcCreate, LifeInv, ProcOK
    <2>3. \A k \in Keys : clients'[k] # None => clients'[k] \in DOMAIN proxies'
      BY <1>0 DEF LifeInv, ProxiesOK, Held, Range, RootOK
    <2>4. FreeId \notin DOMAIN proxies
      BY <2>2, FreeIdIsFree
    <2>5. \A k \in Keys : clients'[k] # None => proxies'[clients'[k]].key = k
      <3> SUFFICES ASSUME NEW k \in Keys, clients'[k] # None PROVE proxies'[clients'[k]].key = k
        OBVIOUS
      <3>1. CASE clients'[k] = clients[k]
        <4>1. clients[k] \in DOMAIN proxies
          BY <3>1, ClientsLive
        <4> QED BY <2>1, <2>3, <3>1, <4>1 DEF KeysMatch
      <3>2. CASE k = proc.key /\ clients'[k] = FreeId
        BY <2>1, <2>3, <2>4, <3>2
      <3> QED BY <2>1, <3>1, <3>2
    <2>6. \A p \in DOMAIN proxies' : proxies'[p].hard => proxies'[p].key \in HardKeys
      <3> TAKE p \in DOMAIN proxies'
      <3>1. CASE p \in DOMAIN proxies /\ proxies'[p] = proxies[p]
        BY <3>1 DEF KeysMatch
      <3> QED BY <2>1, <3>1
    <2>7. proc'.at # "update"
      BY <1>2 DEF ProcCreate, ProcIdle, LifeInv, ProcOK
    <2>8. ASSUME hb'.at \in {"get", "erase", "destroy"} PROVE Seen'.hard
      <3>1. hb' = hb
        BY <1>2 DEF ProcCreate
      <3>2. hb.client \in DOMAIN proxies /\ hb'.client \in DOMAIN proxies'
        BY <1>0, <2>8, <3>1, SeenLives DEF LifeInv, ProxiesOK, Held, HbOK
      <3>3. proxies'[hb.client] = proxies[hb.client]
        BY <2>1, <3>1, <3>2
      <3> QED BY <2>8, <3>1, <3>3 DEF KeysMatch, Seen
    <2> QED BY <2>5, <2>6, <2>7, <2>8 DEF KeysMatch
  <1> QED BY <1>1, <1>2

\* What the session manager's calls leave of the endpoints.
LEMMA EstablishLeads ==
    ASSUME MapsType, EndpointsLead, NEW e \in Endpoints, NEW k \in Keys, NEW s \in Sessions,
           ~has_session_client_key(s), e2c[e] \in {None, k}, establish_session(e, k, s)
    PROVE  EndpointsLead' /\ c2e'[k] # None /\ \A i \in Keys \ {k} : c2e'[i] = c2e[i]
  <1>1. /\ e2c' = [Forget(c2e[k]) EXCEPT ![e] = k]
        /\ c2e' = [c2e EXCEPT ![k] = e]
    BY DEF establish_session
  <1>2. c2e'[k] = e /\ \A i \in Keys \ {k} : c2e'[i] = c2e[i]
    BY <1>1 DEF MapsType
  <1>3. \A f \in Endpoints : e2c'[f] = IF f = e THEN k ELSE IF f = c2e[k] THEN None ELSE e2c[f]
    BY <1>1 DEF Forget
  <1>4. ASSUME NEW i \in Keys, c2e'[i] # None PROVE e2c'[c2e'[i]] = i
    <2>1. CASE i = k
      BY <1>2, <1>3, <2>1
    <2>2. CASE i # k
      <3>1. c2e'[i] = c2e[i] /\ c2e[i] \in Endpoints /\ e2c[c2e[i]] = i
        BY <1>2, <1>4, <2>2 DEF EndpointsLead, MapsType
      <3>2. c2e[i] # e /\ c2e[i] # c2e[k]
        BY <2>2, <3>1, NoneAssumption DEF EndpointsLead
      <3> QED BY <1>3, <3>1, <3>2
    <2> QED BY <2>1, <2>2
  <1> QED BY <1>2, <1>4, NoneAssumption DEF EndpointsLead

LEMMA DestroyEndpointLeads ==
    ASSUME MapsType, EndpointsLead, NEW e \in Endpoints, destroy_session_of_endpoint(e)
    PROVE  EndpointsLead' /\ e2c'[e] = None /\ \A i \in Keys : i # e2c[e] => c2e'[i] = c2e[i]
  <1>1. \A f \in Endpoints : e2c'[f] = IF f = e THEN None ELSE e2c[f]
    BY DEF destroy_session_of_endpoint, Forget
  <1>2. /\ \A i \in Keys : i # e2c[e] => c2e'[i] = c2e[i]
        /\ e2c[e] # None => c2e'[e2c[e]] = None
    BY DEF destroy_session_of_endpoint, MapsType
  <1>3. ASSUME NEW i \in Keys, c2e'[i] # None PROVE e2c'[c2e'[i]] = i
    <2>1. i # e2c[e]
      BY <1>2, <1>3, NoneAssumption
    <2>2. c2e'[i] = c2e[i] /\ c2e[i] \in Endpoints /\ e2c[c2e[i]] = i
      BY <1>2, <1>3, <2>1 DEF EndpointsLead, MapsType
    <2> QED BY <1>1, <2>1, <2>2
  <1> QED BY <1>1, <1>2, <1>3 DEF EndpointsLead

LEMMA DestroyKeyLeads ==
    ASSUME MapsType, EndpointsLead, NEW k \in Keys, destroy_session_of_key(k)
    PROVE  /\ EndpointsLead'
           /\ \A f \in Endpoints : e2c'[f] \in {None, e2c[f]}
           /\ \A i \in Keys \ {k} : c2e'[i] = c2e[i]
  <1>1. \A f \in Endpoints : e2c'[f] = IF f = c2e[k] THEN None ELSE e2c[f]
    BY DEF destroy_session_of_key, Forget
  <1>2. c2e'[k] = None /\ \A i \in Keys \ {k} : c2e'[i] = c2e[i]
    BY DEF destroy_session_of_key, MapsType
  <1>3. ASSUME NEW i \in Keys, c2e'[i] # None PROVE e2c'[c2e'[i]] = i
    <2>1. i # k /\ c2e'[i] = c2e[i] /\ c2e[i] \in Endpoints /\ e2c[c2e[i]] = i
      BY <1>2, <1>3 DEF EndpointsLead, MapsType
    <2>2. c2e[i] # c2e[k]
      BY <2>1, NoneAssumption DEF EndpointsLead
    <2> QED BY <1>1, <2>1, <2>2
  <1> QED BY <1>1, <1>2, <1>3 DEF EndpointsLead

\* No client puts its key in its headers: all are known by their endpoints.
AddressedByEndpoint == \A s \in Sessions : ~has_session_client_key(s)

\* Steps of the heartbeat thread, and silence.
LEMMA ProcWaitsReach ==
    ASSUME LifeInv, ReachInv, [ClientsNext]_clients_vars, proc' = proc, ~ProcCreate, ~ProcEstablish, ~ProcDestroy
    PROVE  EndpointsLead' /\ SourceIsOwn' /\ HasEndpoint'
  <1> USE DEF ReachInv
  <1>0. MapsType /\ ClientsStay
    BY OnlyCreateAdds DEF LifeInv
  <1>1. /\ EndpointsLead'
        /\ \A f \in Endpoints : e2c'[f] \in {None, e2c[f]}
        /\ \A i \in Keys \ HardKeys : c2e'[i] = c2e[i]
    <2>1. CASE UNCHANGED maps
      BY <2>1 DEF maps, EndpointsLead
    <2>2. CASE HbDestroy /\ Seen.key \in Keys /\ hb.client \in DOMAIN proxies
      <3>1. destroy_session_of_key(Seen.key) /\ Seen.key \in HardKeys
        BY <2>2 DEF HbDestroy, KeysMatch, Seen
      <3> QED BY <1>0, <2>2, <3>1, DestroyKeyLeads
    <2> QED BY <2>1, <2>2, CallsOfSteps
  <1>2. proc.at # "idle" => proc.source \in Endpoints
    BY DEF LifeInv, ProcOK
  <1>3. SourceIsOwn'
    BY <1>0, <1>1, <1>2 DEF SourceIsOwn, ClientsStay
  <1>4. HasEndpoint'
    BY <1>0, <1>1 DEF HasEndpoint, ClientsStay, Registered
  <1> QED BY <1>1, <1>3, <1>4

LEMMA ReachStep ==
    ASSUME AddressedByEndpoint, LifeInv, ReachInv, [ClientsNext]_clients_vars
    PROVE  ReachInv'
  <1> USE DEF ReachInv
  <1>0. MapsType /\ KeysMatch'
    BY MatchStep DEF LifeInv
  <1>1. CASE proc' = proc /\ ~ProcCreate /\ ~ProcEstablish /\ ~ProcDestroy
    BY <1>0, <1>1, ProcWaitsReach
  <1>2. ASSUME NEW e \in Endpoints, NEW k \in Keys, NEW s \in Sessions, NEW v \in BOOLEAN,
               ReceiveCreate(e, k, s, v)
        PROVE  ReachInv'
    <2>1. /\ UNCHANGED <<e2c, c2e, clients>> /\ proc.at = "idle" /\ proc'.source = e
          /\ \/ proc'.at = "get" /\ proc'.victim = e2c[e] /\ e2c[e] # None
             \/ proc'.at = "create" /\ proc'.key = k /\ e2c[e] \in {None, k}
      BY <1>2 DEF ReceiveCreate
    <2>2. e2c[e] \in Keys \cup {None}
      BY <1>0 DEF MapsType
    <2> QED BY <1>0, <2>1, <2>2 DEF EndpointsLead, SourceIsOwn, HasEndpoint, Registered
  <1>3. ASSUME NEW e \in Endpoints, NEW k \in Keys, NEW s \in Sessions, NEW op \in {"data", "delete"},
               ReceiveMessage(e, k, s, op)
        PROVE  ReachInv'
    <2>1. ~has_session_client_key(s)
      BY DEF AddressedByEndpoint
    <2>2. /\ UNCHANGED <<e2c, c2e, clients>> /\ proc.at = "idle"
          /\ proc' = [ProcIdle EXCEPT !.at = "find", !.op = op, !.source = e, !.session = s, !.key = e2c[e]]
      BY <1>3, <2>1 DEF ReceiveMessage
    <2>3. proc'.at = "find" /\ proc'.source = e /\ proc'.key = e2c[e]
      BY <2>2 DEF ProcIdle
    <2> QED BY <1>0, <2>2, <2>3 DEF EndpointsLead, SourceIsOwn, HasEndpoint, Registered
  <1>4. CASE FindClient
    <2>1. /\ UNCHANGED <<e2c, c2e, clients>> /\ proc.at = "find"
          /\ \/ proc'.at = "idle"
             \/ proc'.at = "update" /\ proc'.key = proc.key /\ proc'.source = proc.source
      BY <1>4 DEF FindClient, ProcIdle, LifeInv, ProcOK
    <2> QED BY <1>0, <2>1 DEF EndpointsLead, SourceIsOwn, HasEndpoint, Registered
  <1>5. CASE UpdateState
    <2> DEFINE key == proxies[proc.client].key
    <2>1. /\ UNCHANGED <<e2c, c2e, clients>> /\ proc.at = "update"
          /\ proc' = ProcIdle \/ proc' = [proc EXCEPT !.at = "get", !.client = None, !.victim = key]
      BY <1>5 DEF UpdateState
    <2>2. key = proc.key /\ key \in Keys
      BY <1>5, <2>1, UpdateKeepsLife, ClientsLive DEF KeysMatch, Proxy
    <2> HIDE DEF key
    <2>3. \/ proc'.at = "idle"
          \/ proc'.at = "get" /\ proc'.victim = key /\ proc'.source = proc.source
      <3>1. ProcIdle.at = "idle"
        BY DEF ProcIdle
      <3>2. LET q == [proc EXCEPT !.at = "get", !.client = None, !.victim = key]
            IN q.at = "get" /\ q.victim = key /\ q.source = proc.source
        BY DEF LifeInv, ProcOK
      <3> QED BY <2>1, <3>1, <3>2
    <2> QED BY <1>0, <2>1, <2>2, <2>3 DEF EndpointsLead, SourceIsOwn, HasEndpoint, Registered
  <1>6. CASE ProcGet
    <2>1. /\ UNCHANGED <<e2c, c2e, clients>> /\ proc.at = "get" /\ proc.victim \in Keys
          /\ \/ proc'.at = "idle"
             \/ proc'.at = "erase" /\ proc'.victim = proc.victim /\ proc'.source = proc.source
             \/ proc'.at = "destroy" /\ proc'.victim = proc.victim /\ proc'.source = proc.source
                /\ clients[proc.victim] = None
      BY <1>6, NoneAssumption DEF ProcGet, ProcIdle, get_client, LifeInv, ProcOK
    <2> QED BY <1>0, <2>1 DEF EndpointsLead, SourceIsOwn, HasEndpoint, Registered
  <1>7. CASE ProcErase
    <2>1. /\ UNCHANGED <<e2c, c2e>> /\ proc.at = "erase" /\ proc.victim \in Keys
          /\ proc'.at = "destroy" /\ proc'.victim = proc.victim /\ proc'.source = proc.source
      BY <1>7 DEF ProcErase, LifeInv, ProcOK
    <2>2. \A i \in Keys : clients'[i] = IF i = proc.victim THEN None ELSE clients[i]
      BY <1>7, <2>1, EraseKeepsRoot DEF ProcErase, LifeInv
    <2> QED BY <1>0, <2>1, <2>2 DEF EndpointsLead, SourceIsOwn, HasEndpoint, Registered
  <1>8. CASE ProcDestroy
    <2>1. /\ destroy_session_of_endpoint(proc.source) /\ proc.source \in Endpoints
          /\ clients' = clients /\ proc.at = "destroy"
          /\ \/ proc'.at = "idle"
             \/ proc'.at = "create" /\ proc'.source = proc.source
      BY <1>8 DEF ProcDestroy, ProcIdle, LifeInv, ProcOK
    <2>2. /\ EndpointsLead' /\ e2c'[proc.source] = None
          /\ \A i \in Keys : i # e2c[proc.source] => c2e'[i] = c2e[i]
      BY <1>0, <2>1, DestroyEndpointLeads
    <2>3. SourceIsOwn'
      BY <2>1, <2>2 DEF SourceIsOwn
    <2>4. \A i \in Registered : i # e2c[proc.source]
      BY <2>1, NoneAssumption DEF SourceIsOwn, Registered
    <2>5. HasEndpoint'
      BY <2>1, <2>2, <2>4 DEF HasEndpoint, Registered
    <2> QED BY <1>0, <2>2, <2>3, <2>5
  <1>9. CASE ProcCreate
    <2>1. /\ UNCHANGED <<e2c, c2e>> /\ proc.at = "create"
          /\ \A i \in Keys : clients'[i] = clients[i] \/ (i = proc.key /\ proc'.at = "establish" /\ proc'.key = i)
      BY <1>9, CreateKeepsLife DEF ProcCreate
    <2>2. \/ proc'.at = "idle"
          \/ proc'.at = "establish" /\ proc'.key = proc.key /\ proc'.source = proc.source
      BY <1>9 DEF ProcCreate, ProcIdle, LifeInv, ProcOK
    <2> QED BY <1>0, <2>1, <2>2 DEF EndpointsLead, SourceIsOwn, HasEndpoint, Registered
  <1>10. CASE ProcEstablish
    <2>1. /\ establish_session(proc.source, proc.key, proc.session) /\ proc.source \in Endpoints
          /\ proc.key \in Keys /\ proc.session \in Sessions
          /\ clients' = clients /\ proc.at = "establish" /\ proc'.at = "idle"
      BY <1>10 DEF ProcEstablish, ProcIdle, LifeInv, ProcOK
    <2>2. EndpointsLead' /\ c2e'[proc.key] # None /\ \A i \in Keys \ {proc.key} : c2e'[i] = c2e[i]
      BY <1>0, <2>1, EstablishLeads DEF SourceIsOwn, AddressedByEndpoint
    <2> QED BY <1>0, <2>1, <2>2 DEF SourceIsOwn, HasEndpoint, Registered
  <1>11. CASE Heartbeat \/ (\E p \in DOMAIN proxies : FallSilent(p)) \/ UNCHANGED clients_vars
    <2>1. proc' = proc
      <3>1. CASE GetNextClient \/ ReadState \/ GetEndpoint \/ LoadTries \/ StoreTries
        BY <3>1 DEF GetNextClient, ReadState, GetEndpoint, LoadTries, StoreTries
      <3>2. CASE TestTries \/ MarkToRemove \/ HbGet \/ HbErase \/ HbDestroy
        BY <3>2 DEF TestTries, MarkToRemove, HbGet, HbErase, HbDestroy
      <3>3. CASE UNCHANGED clients_vars \/ \E p \in DOMAIN proxies : FallSilent(p)
        BY <3>3 DEF clients_vars, FallSilent
      <3> QED BY <1>11, <3>1, <3>2, <3>3 DEF Heartbeat
    <2> QED BY <1>1, <1>8, <1>9, <1>10, <2>1
  <1> QED BY <1>2, <1>3, <1>4, <1>5, <1>6, <1>7, <1>8, <1>9, <1>10, <1>11 DEF ClientsNext, Proceed

LEMMA ReachStart == ClientsInit => ReachInv
  BY DEF ClientsInit, MapsInit, ReachInv, KeysMatch, EndpointsLead, SourceIsOwn, HasEndpoint,
         Registered, ProcIdle, HbIdle

\* Where no client carries its key in its headers, a client that Root knows,
\* and did not ask for hard liveliness, is known to the session manager too:
\* its packets lead to it and it can be answered, after any creations, moves
\* and deletions and in any order with the heartbeat thread's removals of
\* others (process_create_client, process_delete, check_heartbeats).
THEOREM ClientsStayReachable ==
    ASSUME AddressedByEndpoint
    PROVE  ClientsSpec => []RegisteredClientsReachable
  <1>1. LifeInv /\ ReachInv /\ [ClientsNext]_clients_vars => ReachInv'
    BY ReachStep
  <1>2. ReachInv => RegisteredClientsReachable
    BY DEF ReachInv, EndpointsLead, HasEndpoint, RegisteredClientsReachable, Registered
  <1> QED BY LifeStart, LifeStep, ReachStart, <1>1, <1>2, PTL DEF ClientsSpec

=============================================================================
