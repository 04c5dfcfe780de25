-------------------------- MODULE XrceObjectsProofs --------------------------
(***************************************************************************)
(* The objects of a client, for any ids, names, types, formats and         *)
(* domains, and whatever DDS refuses.  What the maps and the registers say *)
(* does not change alone what a step does: the inductive invariant is that *)
(* each entity keeps what its constructor was given, that a name is in its *)
(* participant's register exactly while its topic lives, and that an       *)
(* object's entity is what was asked for.  Each operator of the model is   *)
(* shown to keep a sound state sound, and the steps follow.                *)
(***************************************************************************)
EXTENDS XrceObjects, FiniteSetTheorems, FunctionTheorems, TLAPS

-----------------------------------------------------------------------------
(* What makes a state sound                                                *)

(* An entity's kinds: of the objects', and types.                          *)
EntityKinds == ObjectKinds \cup {"type"}
TopicEnds == {"datawriter", "datareader"}
Services == {"requester", "replier"}

(* What an entity keeps is alive, with all that it keeps, and of the kinds *)
(* that its constructor was given.                                         *)
SoundEntity(h, e) ==
    /\ e.kind \in EntityKinds
    /\ e.refs \subseteq DOMAIN h
    /\ \A v \in e.refs : h[v].refs \subseteq e.refs
    /\ e.kind = "participant" => e.refs = {}
    /\ e.kind \in {"type", "publisher", "subscriber"}
         => \E p \in e.refs : e.refs = {p} /\ h[p].kind = "participant"
    /\ e.kind = "topic"
         => \E p, t \in e.refs :
              e.refs = {p, t} /\ h[p].kind = "participant" /\ h[t].kind = "type"
    /\ e.kind \in TopicEnds => e.topic \in e.refs /\ h[e.topic].kind = "topic"
    /\ e.kind \in Services
         => /\ e.request \in e.refs /\ h[e.request].kind = "topic"
            /\ e.reply \in e.refs /\ h[e.reply].kind = "topic"

SoundHeap(h) ==
    /\ IsFiniteSet(DOMAIN h)
    /\ \A u \in DOMAIN h : u[1] = h[u].kind /\ SoundEntity(h, h[u])

(* The registers name topics and types that are alive.                     *)
SoundTopics(h, reg) ==
    \A k \in DOMAIN reg :
        reg[k] \in DOMAIN h /\ h[reg[k]].kind = "topic" /\ h[reg[k]].name = k[2]

SoundTypes(h, reg) ==
    \A k \in DOMAIN reg :
        reg[k] \in DOMAIN h /\ h[reg[k]].kind = "type" /\ h[reg[k]].refs = {k[1]}

(* Every topic is in its participant's register.                           *)
TopicsRegistered(h, reg) ==
    \A u \in DOMAIN h : \A p \in h[u].refs :
        h[u].kind = "topic" /\ h[p].kind = "participant"
          => <<p, h[u].name>> \in DOMAIN reg /\ reg[<<p, h[u].name>>] = u

SoundMaps(s) ==
    /\ s.objects = DOMAIN s.mw
    /\ \A i \in DOMAIN s.mw : s.mw[i] \in DOMAIN s.heap /\ s.heap[s.mw[i]].kind = i.kind

AState(s) ==
    s = [objects |-> s.objects, mw |-> s.mw, heap |-> s.heap,
         topics |-> s.topics, types |-> s.types]

(* A state that may be in the middle of the creation of a topic.           *)
AlmostSound(s) ==
    /\ AState(s) /\ SoundMaps(s) /\ SoundHeap(s.heap)
    /\ SoundTopics(s.heap, s.topics) /\ SoundTypes(s.heap, s.types)

Sound(s) == AlmostSound(s) /\ TopicsRegistered(s.heap, s.topics)

(* What is kept of the representation that an entity was created from.     *)
Described(h, e, rep) ==
    /\ rep.kind = e.kind
    /\ e.kind = "participant"
         => rep.qos = e.qos /\ (rep.domain # Override => rep.domain = e.domain)
    /\ e.kind = "topic" => rep.name = e.name
    /\ e.kind \in TopicEnds
         => rep.qos = e.qos /\ (rep.fmt # "bin" => rep.name = h[e.topic].name)
    /\ e.kind \in Services
         => rep.request = h[e.request].name /\ rep.reply = h[e.reply].name

AskedFor(s, a) ==
    /\ DOMAIN a = s.objects
    /\ \A i \in s.objects : Described(s.heap, s.heap[s.mw[i]], a[i])

Consistent(s, a) == s.objects \subseteq Ids /\ Sound(s) /\ AskedFor(s, a)

ObjectsIInv == Consistent(State, asked)

-----------------------------------------------------------------------------
(* Entities                                                                *)

(* A number that is not used is found for a new entity.                    *)
LEMMA FreshUidIsNew ==
    ASSUME NEW h, NEW kind, IsFiniteSet(DOMAIN h)
    PROVE  /\ FreshUid(h, kind) \notin DOMAIN h
           /\ FreshUid(h, kind)[1] = kind
<1> DEFINE mine == {v \in DOMAIN h : v[1] = kind}
           used == {u[2] : u \in mine}
           n == Cardinality(used)
           S == 1 .. n + 1
<1>1. IsFiniteSet(mine)
  BY FS_Subset
<1>2. IsFiniteSet(used)
  <2> DEFINE f == [u \in mine |-> u[2]]
  <2>1. f \in Surjection(mine, used)
    BY DEF Surjection
  <2> QED BY <1>1, <2>1, FS_Surjection
<1>3. n \in Nat
  BY <1>2, FS_CardinalityType
<1>4. PICK m \in S : m \notin used
  <2>1. SUFFICES ASSUME S \subseteq used PROVE FALSE
    OBVIOUS
  <2>2. Cardinality(S) <= n
    BY <1>2, <2>1, FS_Subset
  <2>3. Cardinality(S) = n + 1
    <3> HIDE DEF n
    <3>1. 1 \in Int /\ n + 1 \in Int /\ ~(1 > n + 1) /\ n + 1 - 1 + 1 = n + 1
      BY <1>3
    <3> QED BY <3>1, FS_Interval
  <2> HIDE DEF n
  <2> QED BY <1>3, <2>2, <2>3
<1> DEFINE c == CHOOSE k \in S : k \notin used
<1>5. c \notin used
  BY <1>4
<1>6. FreshUid(h, kind) = <<kind, c>>
  BY DEF FreshUid
<1>7. <<kind, c>> \notin DOMAIN h
  <2>1. SUFFICES ASSUME <<kind, c>> \in DOMAIN h PROVE c \in used
    BY <1>5
  <2> HIDE DEF c
  <2>2. <<kind, c>> \in mine
    BY <2>1
  <2>3. <<kind, c>>[2] = c
    OBVIOUS
  <2> QED BY <2>2, <2>3
<1> HIDE DEF c
<1> QED BY <1>6, <1>7

LEMMA WithIs ==
    ASSUME NEW f, NEW k, NEW v
    PROVE  /\ DOMAIN With(f, k, v) = DOMAIN f \cup {k}
           /\ With(f, k, v)[k] = v
           /\ \A x \in DOMAIN f : x # k => With(f, k, v)[x] = f[x]
  BY DEF With

LEMMA RestrictIs ==
    ASSUME NEW f, NEW S
    PROVE  /\ DOMAIN Restrict(f, S) = S
           /\ \A x \in S : Restrict(f, S)[x] = f[x]
  BY DEF Restrict

(* An entity stays sound in any heap that keeps what it keeps.             *)
LEMMA SoundEntityIsLocal ==
    ASSUME NEW h, NEW g, NEW e, SoundEntity(h, e),
           e.refs \subseteq DOMAIN g, \A v \in e.refs : g[v] = h[v]
    PROVE  SoundEntity(g, e)
<1> USE DEF SoundEntity
<1>1. \A v \in e.refs : g[v].refs \subseteq e.refs
  OBVIOUS
<1>2. e.kind \in {"type", "publisher", "subscriber"}
         => \E p \in e.refs : e.refs = {p} /\ g[p].kind = "participant"
  OBVIOUS
<1>3. e.kind = "topic"
         => \E p, t \in e.refs :
              e.refs = {p, t} /\ g[p].kind = "participant" /\ g[t].kind = "type"
  OBVIOUS
<1>4. e.kind \in TopicEnds => e.topic \in e.refs /\ g[e.topic].kind = "topic"
  OBVIOUS
<1>5. e.kind \in Services
         => /\ e.request \in e.refs /\ g[e.request].kind = "topic"
            /\ e.reply \in e.refs /\ g[e.reply].kind = "topic"
  OBVIOUS
<1> QED BY <1>1, <1>2, <1>3, <1>4, <1>5

LEMMA DescribedIsLocal ==
    ASSUME NEW h, NEW g, NEW e, NEW rep, SoundEntity(h, e), Described(h, e, rep),
           \A v \in e.refs : g[v] = h[v]
    PROVE  Described(g, e, rep)
  BY DEF SoundEntity, Described

(* A heap that has all of another, and more.                               *)
Extends(h, g) == DOMAIN h \subseteq DOMAIN g /\ \A u \in DOMAIN h : g[u] = h[u]

(* One more entity.                                                        *)
LEMMA NewHeap ==
    ASSUME NEW h, NEW e, SoundHeap(h), SoundEntity(h, e),
           NEW u, u = FreshUid(h, e.kind),
           NEW g, g = With(h, u, e)
    PROVE  /\ SoundHeap(g)
           /\ Extends(h, g)
           /\ DOMAIN g = DOMAIN h \cup {u} /\ u \notin DOMAIN h /\ g[u] = e
           /\ u # NoEntity
<1>1. u \notin DOMAIN h /\ u[1] = e.kind
  BY FreshUidIsNew DEF SoundHeap
<1>2. DOMAIN g = DOMAIN h \cup {u} /\ g[u] = e /\ \A x \in DOMAIN h : g[x] = h[x]
  <2>1. /\ DOMAIN With(h, u, e) = DOMAIN h \cup {u}
        /\ With(h, u, e)[u] = e
        /\ \A x \in DOMAIN h : x # u => With(h, u, e)[x] = h[x]
    BY DEF With
  <2> QED BY <1>1, <2>1
<1>3. IsFiniteSet(DOMAIN g)
  BY <1>2, FS_AddElement DEF SoundHeap
<1>4. ASSUME NEW x \in DOMAIN g PROVE x[1] = g[x].kind /\ SoundEntity(g, g[x])
  <2>1. CASE x = u
    <3>1. e.refs \subseteq DOMAIN g /\ \A v \in e.refs : g[v] = h[v]
      BY <1>2 DEF SoundEntity
    <3>2. SoundEntity(g, e)
      BY <3>1, SoundEntityIsLocal
    <3> QED BY <2>1, <3>2, <1>1, <1>2
  <2>2. CASE x \in DOMAIN h
    <3>1. SoundEntity(h, h[x]) /\ x[1] = h[x].kind
      BY <2>2 DEF SoundHeap
    <3>2. h[x].refs \subseteq DOMAIN g /\ \A v \in h[x].refs : g[v] = h[v]
      BY <3>1, <1>2 DEF SoundEntity
    <3>3. SoundEntity(g, h[x])
      BY <3>1, <3>2, SoundEntityIsLocal
    <3> QED BY <2>2, <3>1, <3>3, <1>2
  <2> QED BY <2>1, <2>2, <1>2
<1>5. u # NoEntity
  <2>1. u[1] \in EntityKinds
    BY <1>1 DEF SoundEntity
  <2>2. NoEntity[1] = "none"
    BY DEF NoEntity
  <2>3. "none" \notin EntityKinds
    BY DEF EntityKinds, ObjectKinds
  <2> QED BY <2>1, <2>2, <2>3
<1>6. SoundHeap(g)
  BY <1>3, <1>4 DEF SoundHeap
<1>7. Extends(h, g)
  BY <1>2 DEF Extends
<1> QED BY <1>1, <1>2, <1>5, <1>6, <1>7

(* The entities that are alive are none of the missing ones.               *)
LEMMA AliveIsSome ==
    ASSUME NEW h, SoundHeap(h), NEW u \in DOMAIN h
    PROVE  u # NoEntity
<1>1. u[1] \in EntityKinds
  BY DEF SoundHeap, SoundEntity
<1>2. NoEntity[1] = "none"
  BY DEF NoEntity
<1>3. "none" \notin EntityKinds
  BY DEF EntityKinds, ObjectKinds
<1> QED BY <1>1, <1>2, <1>3

(* What some entities keep is closed.                                      *)
LEMMA KeepsClosed ==
    ASSUME NEW h, SoundHeap(h), NEW us, us \subseteq DOMAIN h
    PROVE  /\ us \subseteq Keeps(h, us)
           /\ \A u \in us : h[u].refs \subseteq Keeps(h, us)
           /\ Keeps(h, us) \subseteq DOMAIN h
           /\ \A v \in Keeps(h, us) : h[v].refs \subseteq Keeps(h, us)
<1>1. ASSUME NEW v PROVE v \in Keeps(h, us) <=> \E u \in us : v \in {u} \cup h[u].refs
  BY DEF Keeps
<1>2. \A u \in us : h[u].refs \subseteq DOMAIN h /\ \A v \in h[u].refs : h[v].refs \subseteq h[u].refs
  BY DEF SoundHeap, SoundEntity
<1> QED BY <1>1, <1>2

(* A topic, publisher or subscriber has one participant.                   *)
Owned == {"topic", "publisher", "subscriber"}

LEMMA OneParticipant ==
    ASSUME NEW h, SoundHeap(h), NEW u \in DOMAIN h, h[u].kind \in Owned
    PROVE  /\ ParticipantOf(h, u) \in h[u].refs
           /\ h[ParticipantOf(h, u)].kind = "participant"
           /\ \A p \in {u} \cup h[u].refs : h[p].kind = "participant" => p = ParticipantOf(h, u)
<1>1. SoundEntity(h, h[u])
  BY DEF SoundHeap
<1>2. \E p \in h[u].refs : h[p].kind = "participant"
                           /\ \A q \in h[u].refs : h[q].kind = "participant" => q = p
  BY <1>1 DEF SoundEntity, Owned
<1>3. Keeps(h, {u}) = {u} \cup h[u].refs
  BY DEF Keeps
<1>4. h[u].kind # "participant"
  BY DEF Owned
<1> QED BY <1>2, <1>3, <1>4 DEF ParticipantOf

-----------------------------------------------------------------------------
(* States                                                                  *)

LEMMA HeapSet ==
    ASSUME NEW s, AState(s), NEW h
    PROVE  [s EXCEPT !.heap = h] =
              [objects |-> s.objects, mw |-> s.mw, heap |-> h,
               topics |-> s.topics, types |-> s.types]
  BY DEF AState

LEMMA MadeIs ==
    ASSUME NEW s, AState(s), NEW e
    PROVE  /\ Made(s, e).u = FreshUid(s.heap, e.kind)
           /\ Made(s, e).s =
                [objects |-> s.objects, mw |-> s.mw,
                 heap |-> With(s.heap, FreshUid(s.heap, e.kind), e),
                 topics |-> s.topics, types |-> s.types]
<1>1. NewEntity(s, e) = [objects |-> s.objects, mw |-> s.mw,
                 heap |-> With(s.heap, FreshUid(s.heap, e.kind), e),
                 topics |-> s.topics, types |-> s.types]
  BY DEF AState, NewEntity
<1> QED BY <1>1 DEF Made

(* What a call of the middleware leaves as it was.                         *)
Later(s, t) == t.objects = s.objects /\ t.mw = s.mw /\ Extends(s.heap, t.heap)

LEMMA LaterIsTransitive ==
    ASSUME NEW s, NEW t, NEW w, Later(s, t), Later(t, w)
    PROVE  Later(s, w)
  BY DEF Later, Extends

LEMMA RegistersInLaterHeap ==
    ASSUME NEW h, NEW g, Extends(h, g), NEW reg
    PROVE  /\ SoundTopics(h, reg) => SoundTopics(g, reg)
           /\ SoundTypes(h, reg) => SoundTypes(g, reg)
  BY DEF Extends, SoundTopics, SoundTypes

LEMMA MapsInLaterHeap ==
    ASSUME NEW s, NEW t, SoundMaps(s), Later(s, t)
    PROVE  SoundMaps(t)
  BY DEF Later, Extends, SoundMaps

(* Making an entity of what is there.                                      *)
LEMMA MadeIsAlmostSound ==
    ASSUME NEW s, AlmostSound(s), NEW e, SoundEntity(s.heap, e),
           NEW m, m = Made(s, e)
    PROVE  /\ AlmostSound(m.s) /\ Later(s, m.s)
           /\ m.s.topics = s.topics /\ m.s.types = s.types
           /\ DOMAIN m.s.heap = DOMAIN s.heap \cup {m.u} /\ m.u \notin DOMAIN s.heap
           /\ m.s.heap[m.u] = e /\ m.u # NoEntity
<1> DEFINE u == FreshUid(s.heap, e.kind)
           g == With(s.heap, u, e)
<1>1. m.u = u /\ m.s = [objects |-> s.objects, mw |-> s.mw, heap |-> g,
                        topics |-> s.topics, types |-> s.types]
  BY MadeIs DEF AlmostSound
<1>2. SoundHeap(s.heap)
  BY DEF AlmostSound
<1>3. /\ SoundHeap(g) /\ Extends(s.heap, g)
      /\ DOMAIN g = DOMAIN s.heap \cup {u} /\ u \notin DOMAIN s.heap /\ g[u] = e
      /\ u # NoEntity
  BY <1>2, NewHeap
<1> HIDE DEF u, g
<1>4. m.s.objects = s.objects /\ m.s.mw = s.mw /\ m.s.heap = g /\ m.s.topics = s.topics /\ m.s.types = s.types
  BY <1>1
<1>5. AState(m.s)
  BY <1>1 DEF AState
<1>6. Later(s, m.s)
  BY <1>3, <1>4 DEF Later
<1>7. SoundMaps(m.s)
  BY <1>6, MapsInLaterHeap DEF AlmostSound
<1>8. SoundTopics(g, s.topics) /\ SoundTypes(g, s.types)
  BY <1>3, RegistersInLaterHeap DEF AlmostSound
<1> QED BY <1>1, <1>3, <1>4, <1>5, <1>6, <1>7, <1>8 DEF AlmostSound

(* ... which is not a topic.                                               *)
LEMMA MadeIsSound ==
    ASSUME NEW s, Sound(s), NEW e, SoundEntity(s.heap, e), e.kind # "topic",
           NEW m, m = Made(s, e)
    PROVE  /\ Sound(m.s) /\ Later(s, m.s)
           /\ m.s.topics = s.topics /\ m.s.types = s.types
           /\ m.u \in DOMAIN m.s.heap
           /\ m.s.heap[m.u] = e /\ m.u # NoEntity
<1>1. /\ AlmostSound(m.s) /\ Later(s, m.s)
      /\ m.s.topics = s.topics /\ m.s.types = s.types
      /\ DOMAIN m.s.heap = DOMAIN s.heap \cup {m.u} /\ m.u \notin DOMAIN s.heap
      /\ m.s.heap[m.u] = e /\ m.u # NoEntity
  BY MadeIsAlmostSound DEF Sound
<1>2. TopicsRegistered(m.s.heap, m.s.topics)
  <2>1. \A v \in DOMAIN s.heap : m.s.heap[v] = s.heap[v]
    BY <1>1 DEF Later, Extends
  <2>2. \A v \in DOMAIN s.heap : s.heap[v].refs \subseteq DOMAIN s.heap
    BY DEF Sound, AlmostSound, SoundHeap, SoundEntity
  <2>3. TopicsRegistered(s.heap, s.topics)
    BY DEF Sound
  <2> QED BY <1>1, <2>1, <2>2, <2>3 DEF TopicsRegistered
<1> QED BY <1>1, <1>2 DEF Sound

-----------------------------------------------------------------------------
(* The middleware                                                          *)

(* A call of the middleware on a sound state, answered with an entity of a *)
(* kind, or with none.                                                     *)
Answers(s, m) ==
    /\ Sound(m.s) /\ Later(s, m.s)
    /\ m.u # NoEntity => m.u \in DOMAIN m.s.heap

LEMMA NotMadeAnswers ==
    ASSUME NEW s, Sound(s)
    PROVE  Answers(s, NotMade(s)) /\ NotMade(s).u = NoEntity
<1>1. NotMade(s).s = s /\ NotMade(s).u = NoEntity
  BY DEF NotMade
<1> QED BY <1>1 DEF Answers, Later, Extends

LEMMA TypeSet ==
    ASSUME NEW s, AState(s), NEW e, NEW x
    PROVE  LET m == [Made(s, e) EXCEPT !.s.types = x]
           IN  /\ m.u = Made(s, e).u
               /\ m.s = [objects |-> s.objects, mw |-> s.mw, heap |-> Made(s, e).s.heap,
                         topics |-> s.topics, types |-> x]
<1>1. Made(s, e) = [s |-> Made(s, e).s, u |-> Made(s, e).u]
  BY DEF Made
<1> DEFINE g == With(s.heap, FreshUid(s.heap, e.kind), e)
<1>2. Made(s, e).s = [objects |-> s.objects, mw |-> s.mw, heap |-> g,
                      topics |-> s.topics, types |-> s.types]
  BY MadeIs
<1>3. Made(s, e).s.heap = g
  BY <1>2
<1> HIDE DEF g
<1> QED BY <1>1, <1>2, <1>3

LEMMA TopicSet ==
    ASSUME NEW s, AState(s), NEW e, NEW x
    PROVE  LET m == [Made(s, e) EXCEPT !.s.topics = x]
           IN  /\ m.u = Made(s, e).u
               /\ m.s = [objects |-> s.objects, mw |-> s.mw, heap |-> Made(s, e).s.heap,
                         topics |-> x, types |-> s.types]
<1>1. Made(s, e) = [s |-> Made(s, e).s, u |-> Made(s, e).u]
  BY DEF Made
<1> DEFINE g == With(s.heap, FreshUid(s.heap, e.kind), e)
<1>2. Made(s, e).s = [objects |-> s.objects, mw |-> s.mw, heap |-> g,
                      topics |-> s.topics, types |-> s.types]
  BY MadeIs
<1>3. Made(s, e).s.heap = g
  BY <1>2
<1> HIDE DEF g
<1> QED BY <1>1, <1>2, <1>3

AParticipant(h, p) == p \in DOMAIN h /\ h[p].kind = "participant"

(* A type is found or made.                                                *)
LEMMA FindType ==
    ASSUME NEW s, Sound(s), NEW p, AParticipant(s.heap, p), NEW type,
           NEW r, r = find_type(s, p, type)
    PROVE  /\ Answers(s, r) /\ r.u # NoEntity
           /\ r.s.heap[r.u].kind = "type" /\ r.s.heap[r.u].refs = {p}
           /\ r.s.topics = s.topics
<1> DEFINE key == <<p, type>>
           u == Lookup(s.heap, s.types, p, type)
<1>0. /\ AState(s) /\ SoundHeap(s.heap) /\ SoundTypes(s.heap, s.types) /\ SoundMaps(s)
      /\ SoundTopics(s.heap, s.topics) /\ TopicsRegistered(s.heap, s.topics)
  BY DEF Sound, AlmostSound
<1>1. CASE key \in DOMAIN s.types
  <2>1. /\ s.types[key] \in DOMAIN s.heap /\ s.heap[s.types[key]].kind = "type"
        /\ s.heap[s.types[key]].refs = {p}
    BY <1>0, <1>1 DEF SoundTypes
  <2>2. u = s.types[key] /\ u # NoEntity
    BY <1>0, <1>1, <2>1, AliveIsSome DEF Lookup
  <2>3. r.s = s /\ r.u = u
    BY <2>2 DEF find_type
  <2> HIDE DEF u
  <2> QED BY <2>1, <2>2, <2>3 DEF Answers, Later, Extends
<1>2. CASE key \notin DOMAIN s.types
  <2> DEFINE e == FastDDSType(p, type)
             m == Made(s, e)
             types == With(m.s.types, key, m.u)
  <2>1. u = NoEntity
    BY <1>2 DEF Lookup
  <2>2. r = [m EXCEPT !.s.types = types]
    BY <1>2, <2>1 DEF find_type, register_local_type
  <2>3. /\ r.u = m.u
        /\ r.s = [objects |-> s.objects, mw |-> s.mw, heap |-> m.s.heap,
                  topics |-> s.topics, types |-> types]
    BY <1>0, <2>2, TypeSet
  <2>4. e.kind = "type" /\ e.refs = {p}
    BY DEF FastDDSType
  <2>5. SoundEntity(s.heap, e)
    <3>1. s.heap[p].refs = {}
      BY <1>0 DEF SoundHeap, SoundEntity, AParticipant
    <3> HIDE DEF e
    <3> QED BY <2>4, <3>1 DEF SoundEntity, AParticipant, EntityKinds, TopicEnds, Services
  <2> HIDE DEF e
  <2>6. /\ Sound(m.s) /\ Later(s, m.s) /\ m.s.topics = s.topics /\ m.s.types = s.types
        /\ m.u \in DOMAIN m.s.heap /\ m.s.heap[m.u] = e /\ m.u # NoEntity
    BY <2>4, <2>5, MadeIsSound
  <2> HIDE DEF m
  <2>7. SoundTypes(m.s.heap, types)
    <3>1. SoundTypes(m.s.heap, s.types)
      BY <2>6 DEF Sound, AlmostSound
    <3>2. DOMAIN types = DOMAIN s.types \cup {key} /\ types[key] = m.u
          /\ \A k \in DOMAIN s.types : types[k] = s.types[k]
      BY <1>2, <2>6 DEF With
    <3>3. key[1] = p
      OBVIOUS
    <3> HIDE DEF types, key
    <3> QED BY <3>1, <3>2, <3>3, <2>4, <2>6 DEF SoundTypes
  <2> HIDE DEF types
  <2>8. /\ r.s.objects = s.objects /\ r.s.mw = s.mw /\ r.s.heap = m.s.heap
        /\ r.s.topics = s.topics /\ r.s.types = types
    BY <2>3
  <2>9. AState(r.s)
    BY <2>3 DEF AState
  <2>10. Later(s, r.s)
    BY <2>6, <2>8 DEF Later
  <2>11. SoundMaps(r.s)
    BY <1>0, <2>10, MapsInLaterHeap
  <2>12. Sound(r.s)
    BY <2>6, <2>7, <2>8, <2>9, <2>11 DEF Sound, AlmostSound
  <2> QED BY <2>3, <2>4, <2>6, <2>8, <2>10, <2>12 DEF Answers
<1> QED BY <1>1, <1>2

(* A topic is found or made: no name is ever unusable.                     *)
LEMMA MakeTopic ==
    ASSUME NEW s, Sound(s), NEW p, AParticipant(s.heap, p), NEW name, NEW type, NEW qos,
           NEW r, r = make_topic(s, p, name, type, qos)
    PROVE  /\ Answers(s, r) /\ r.u # NoEntity
           /\ r.s.heap[r.u].kind = "topic" /\ r.s.heap[r.u].name = name
<1> DEFINE key == <<p, name>>
           u == Lookup(s.heap, s.topics, p, name)
           t == find_type(s, p, type)
<1>0. /\ AState(s) /\ SoundHeap(s.heap) /\ SoundTypes(s.heap, s.types) /\ SoundMaps(s)
      /\ SoundTopics(s.heap, s.topics) /\ TopicsRegistered(s.heap, s.topics)
  BY DEF Sound, AlmostSound
<1>1. CASE key \in DOMAIN s.topics
  <2>1. /\ s.topics[key] \in DOMAIN s.heap /\ s.heap[s.topics[key]].kind = "topic"
        /\ s.heap[s.topics[key]].name = name
    BY <1>0, <1>1 DEF SoundTopics
  <2>2. u = s.topics[key] /\ u # NoEntity
    BY <1>0, <1>1, <2>1, AliveIsSome DEF Lookup
  <2>3. r.s = s /\ r.u = u
    BY <2>2 DEF make_topic
  <2> HIDE DEF u
  <2> QED BY <2>1, <2>2, <2>3 DEF Answers, Later, Extends
<1>2. CASE key \notin DOMAIN s.topics
  <2> DEFINE e == FastDDSTopic(p, t.u, name, type, qos)
             m == Made(t.s, e)
             topics == With(m.s.topics, key, m.u)
  <2>1. u = NoEntity
    BY <1>2 DEF Lookup
  <2>2. /\ Sound(t.s) /\ Later(s, t.s) /\ t.u \in DOMAIN t.s.heap /\ t.u # NoEntity
        /\ t.s.heap[t.u].kind = "type" /\ t.s.heap[t.u].refs = {p}
        /\ t.s.topics = s.topics
    BY FindType DEF Answers
  <2> HIDE DEF t
  <2>3. r = [m EXCEPT !.s.topics = topics]
    BY <1>2, <2>1, <2>2 DEF make_topic, t
  <2>4. AState(t.s) /\ SoundHeap(t.s.heap) /\ SoundMaps(t.s)
    BY <2>2 DEF Sound, AlmostSound
  <2>5. /\ r.u = m.u
        /\ r.s = [objects |-> t.s.objects, mw |-> t.s.mw, heap |-> m.s.heap,
                  topics |-> topics, types |-> t.s.types]
    BY <2>3, <2>4, TopicSet
  <2>6. e.kind = "topic" /\ e.refs = {p, t.u} /\ e.name = name
    BY DEF FastDDSTopic
  <2>7. p \in DOMAIN t.s.heap /\ t.s.heap[p].kind = "participant" /\ t.s.heap[p].refs = {}
    <3>1. p \in DOMAIN t.s.heap /\ t.s.heap[p] = s.heap[p]
      BY <2>2 DEF Later, Extends, AParticipant
    <3> QED BY <3>1, <2>4 DEF SoundHeap, SoundEntity, AParticipant
  <2>8. SoundEntity(t.s.heap, e)
    <3> HIDE DEF e
    <3> QED BY <2>2, <2>6, <2>7 DEF SoundEntity, EntityKinds, ObjectKinds, TopicEnds, Services
  <2> HIDE DEF e
  <2>9. /\ AlmostSound(m.s) /\ Later(t.s, m.s)
        /\ m.s.topics = t.s.topics /\ m.s.types = t.s.types
        /\ DOMAIN m.s.heap = DOMAIN t.s.heap \cup {m.u} /\ m.u \notin DOMAIN t.s.heap
        /\ m.s.heap[m.u] = e /\ m.u # NoEntity
    BY <2>2, <2>8, MadeIsAlmostSound DEF Sound
  <2> HIDE DEF m
  <2>10. /\ DOMAIN topics = DOMAIN t.s.topics \cup {key} /\ topics[key] = m.u
         /\ \A k \in DOMAIN t.s.topics : topics[k] = t.s.topics[k]
    BY <1>2, <2>2, <2>9 DEF With
  <2> HIDE DEF topics
  <2>11. SoundTopics(m.s.heap, topics)
    <3>1. SoundTopics(m.s.heap, t.s.topics)
      BY <2>9 DEF AlmostSound
    <3>2. key[2] = name
      OBVIOUS
    <3> HIDE DEF key
    <3> QED BY <3>1, <3>2, <2>6, <2>9, <2>10 DEF SoundTopics
  <2>12. TopicsRegistered(m.s.heap, topics)
    <3>1. TopicsRegistered(t.s.heap, t.s.topics)
      BY <2>2 DEF Sound
    <3>2. SUFFICES ASSUME NEW v \in DOMAIN m.s.heap, NEW q \in m.s.heap[v].refs,
                          m.s.heap[v].kind = "topic", m.s.heap[q].kind = "participant"
                   PROVE  /\ <<q, m.s.heap[v].name>> \in DOMAIN topics
                          /\ topics[<<q, m.s.heap[v].name>>] = v
      BY DEF TopicsRegistered
    <3>3. CASE v = m.u
      <4>1. q \in {p, t.u}
        BY <3>3, <2>6, <2>9
      <4>2. m.s.heap[t.u] = t.s.heap[t.u]
        BY <2>2, <2>9 DEF Later, Extends
      <4>3. q = p
        BY <3>2, <4>1, <4>2, <2>2
      <4> QED BY <3>3, <4>3, <2>6, <2>9, <2>10
    <3>4. CASE v \in DOMAIN t.s.heap
      <4>1. m.s.heap[v] = t.s.heap[v]
        BY <3>4, <2>9 DEF Later, Extends
      <4>2. q \in DOMAIN t.s.heap
        BY <4>1, <3>4, <2>4 DEF SoundHeap, SoundEntity
      <4>3. m.s.heap[q] = t.s.heap[q]
        BY <4>2, <2>9 DEF Later, Extends
      <4>4. <<q, t.s.heap[v].name>> \in DOMAIN t.s.topics
            /\ t.s.topics[<<q, t.s.heap[v].name>>] = v
        BY <3>1, <3>2, <3>4, <4>1, <4>3 DEF TopicsRegistered
      <4> QED BY <4>1, <4>4, <2>10
    <3> QED BY <3>3, <3>4, <2>9
  <2>13. /\ r.s.objects = m.s.objects /\ r.s.mw = m.s.mw /\ r.s.heap = m.s.heap
         /\ r.s.topics = topics /\ r.s.types = m.s.types
    BY <2>5, <2>9 DEF Later
  <2>14. AState(r.s)
    BY <2>5 DEF AState
  <2>15. Later(s, r.s)
    <3>1. Later(s, m.s)
      BY <2>2, <2>9, LaterIsTransitive
    <3> QED BY <3>1, <2>13 DEF Later
  <2>16. SoundMaps(r.s)
    BY <1>0, <2>15, MapsInLaterHeap
  <2>17. Sound(r.s)
    BY <2>9, <2>11, <2>12, <2>13, <2>14, <2>16 DEF Sound, AlmostSound
  <2> QED BY <2>5, <2>6, <2>9, <2>13, <2>15, <2>17 DEF Answers
<1> QED BY <1>1, <1>2

(* An answer to a request: the entity, if any, is what was asked for.      *)
Serves(s, m, rep) ==
    /\ Answers(s, m)
    /\ m.u # NoEntity => Described(m.s.heap, m.s.heap[m.u], rep)

(* An entity that is not a topic, made of what is there.                   *)
LEMMA MadeServes ==
    ASSUME NEW s, Sound(s), NEW e, SoundEntity(s.heap, e), e.kind # "topic",
           NEW rep, Described(s.heap, e, rep)
    PROVE  Serves(s, Made(s, e), rep) /\ Made(s, e).u # NoEntity
<1> DEFINE m == Made(s, e)
<1>1. /\ Sound(m.s) /\ Later(s, m.s) /\ m.u \in DOMAIN m.s.heap
      /\ m.s.heap[m.u] = e /\ m.u # NoEntity
  BY MadeIsSound
<1> HIDE DEF m
<1>2. \A v \in e.refs : m.s.heap[v] = s.heap[v]
  BY <1>1 DEF Later, Extends, SoundEntity
<1>3. Described(m.s.heap, e, rep)
  BY <1>2, DescribedIsLocal
<1>4. Serves(s, m, rep) /\ m.u # NoEntity
  BY <1>1, <1>3 DEF Serves, Answers
<1> QED BY <1>4 DEF m

LEMMA NotMadeServes ==
    ASSUME NEW s, Sound(s), NEW rep
    PROVE  Serves(s, NotMade(s), rep)
  BY NotMadeAnswers DEF Serves

LEMMA ServesParticipant ==
    ASSUME NEW s, Sound(s), NEW rep, rep.kind = "participant", NEW dds \in BOOLEAN,
           NEW m, m = create_participant_by(s, rep, dds)
    PROVE  Serves(s, m, rep) /\ (dds => m.u # NoEntity)
<1> DEFINE domain == IF rep.domain = Override THEN AgentDomain ELSE rep.domain
           e == FastDDSParticipant(domain, rep.qos)
<1>1. e.kind = "participant" /\ e.refs = {} /\ e.domain = domain /\ e.qos = rep.qos
  BY DEF FastDDSParticipant
<1>2. m = IF dds THEN Made(s, e) ELSE NotMade(s)
  BY DEF create_participant_by
<1>3. rep.domain # Override => rep.domain = domain
  OBVIOUS
<1> HIDE DEF e, domain
<1>4. SoundEntity(s.heap, e)
  BY <1>1 DEF SoundEntity, EntityKinds, ObjectKinds, TopicEnds, Services
<1>5. Described(s.heap, e, rep)
  BY <1>1, <1>3 DEF Described, TopicEnds, Services
<1> QED BY <1>1, <1>2, <1>4, <1>5, MadeServes, NotMadeServes

LEMMA ServesTopic ==
    ASSUME NEW s, Sound(s), NEW p, AParticipant(s.heap, p), NEW rep, rep.kind = "topic",
           NEW m, m = create_topic_by(s, p, rep)
    PROVE  Serves(s, m, rep) /\ m.u # NoEntity
<1>1. /\ Answers(s, m) /\ m.u # NoEntity
      /\ m.s.heap[m.u].kind = "topic" /\ m.s.heap[m.u].name = rep.name
  BY MakeTopic DEF create_topic_by
<1> QED BY <1>1 DEF Serves, Described, TopicEnds, Services

LEMMA ServesPublisher ==
    ASSUME NEW s, Sound(s), NEW p, AParticipant(s.heap, p), NEW dds \in BOOLEAN,
           NEW rep, NEW m,
           \/ rep.kind = "publisher" /\ m = create_publisher_by(s, p, rep, dds)
           \/ rep.kind = "subscriber" /\ m = create_subscriber_by(s, p, rep, dds)
    PROVE  Serves(s, m, rep) /\ (dds => m.u # NoEntity)
<1>1. PICK e : /\ m = IF dds THEN Made(s, e) ELSE NotMade(s)
               /\ e.kind = rep.kind /\ e.refs = {p}
               /\ e.kind \in {"publisher", "subscriber"}
  <2>1. FastDDSPublisher(p).kind = "publisher" /\ FastDDSPublisher(p).refs = {p}
    BY DEF FastDDSPublisher
  <2>2. FastDDSSubscriber(p).kind = "subscriber" /\ FastDDSSubscriber(p).refs = {p}
    BY DEF FastDDSSubscriber
  <2> QED BY <2>1, <2>2 DEF create_publisher_by, create_subscriber_by
<1>2. SoundEntity(s.heap, e)
  <2>1. s.heap[p].refs = {}
    BY DEF Sound, AlmostSound, SoundHeap, SoundEntity, AParticipant
  <2> QED BY <1>1, <2>1 DEF SoundEntity, AParticipant, EntityKinds, ObjectKinds, TopicEnds, Services
<1>3. Described(s.heap, e, rep)
  BY <1>1 DEF Described, TopicEnds, Services
<1> QED BY <1>1, <1>2, <1>3, MadeServes, NotMadeServes

(* The topic of a writer or reader.                                        *)
LEMMA TopicForIs ==
    ASSUME NEW s, Sound(s), NEW group, NEW rep,
           NEW t, t = TopicFor(s, group, rep), t # NoEntity
    PROVE  /\ t \in DOMAIN s.heap /\ s.heap[t].kind = "topic"
           /\ rep.fmt # "bin" => s.heap[t].name = rep.name
<1>1. CASE rep.fmt = "bin"
  <2> DEFINE i == [kind |-> "topic", num |-> rep.topic]
  <2>1. i \in DOMAIN s.mw /\ t = s.mw[i]
    BY <1>1 DEF TopicFor
  <2>2. i.kind = "topic"
    OBVIOUS
  <2> HIDE DEF i
  <2> QED BY <1>1, <2>1, <2>2 DEF Sound, AlmostSound, SoundMaps
<1>2. CASE rep.fmt # "bin"
  <2> DEFINE key == <<ParticipantOf(s.heap, group), rep.name>>
  <2>1. key \in DOMAIN s.topics /\ t = s.topics[key]
    BY <1>2 DEF TopicFor, Lookup
  <2>2. key[2] = rep.name
    OBVIOUS
  <2> HIDE DEF key
  <2> QED BY <2>1, <2>2 DEF Sound, AlmostSound, SoundTopics
<1> QED BY <1>1, <1>2

LEMMA ServesEndpoint ==
    ASSUME NEW s, Sound(s), NEW group \in DOMAIN s.heap, NEW dds \in BOOLEAN,
           NEW rep, NEW m,
           \/ rep.kind = "datawriter" /\ m = create_datawriter_by(s, group, rep, dds)
           \/ rep.kind = "datareader" /\ m = create_datareader_by(s, group, rep, dds)
    PROVE  /\ Serves(s, m, rep)
           /\ dds /\ TopicFor(s, group, rep) # NoEntity => m.u # NoEntity
<1> DEFINE t == TopicFor(s, group, rep)
           refs == Keeps(s.heap, {group, t})
<1>1. PICK e : /\ m = IF t # NoEntity /\ dds THEN Made(s, e) ELSE NotMade(s)
               /\ e.kind = rep.kind /\ e.refs = refs /\ e.topic = t /\ e.qos = rep.qos
               /\ e.kind \in TopicEnds
  <2>1. LET w == FastDDSDataWriter(s.heap, group, t, rep)
        IN  w.kind = "datawriter" /\ w.refs = refs /\ w.topic = t /\ w.qos = rep.qos
    BY DEF FastDDSDataWriter
  <2>2. LET w == FastDDSDataReader(s.heap, group, t, rep)
        IN  w.kind = "datareader" /\ w.refs = refs /\ w.topic = t /\ w.qos = rep.qos
    BY DEF FastDDSDataReader
  <2>3. CASE rep.kind = "datawriter"
    BY <2>1, <2>3 DEF create_datawriter_by, TopicEnds
  <2>4. CASE rep.kind = "datareader"
    BY <2>2, <2>4 DEF create_datareader_by, TopicEnds
  <2> QED BY <2>3, <2>4
<1>2. CASE t = NoEntity \/ ~dds
  <2>1. m = NotMade(s)
    BY <1>1, <1>2
  <2> QED BY <1>2, <2>1, NotMadeServes
<1>3. CASE t # NoEntity /\ dds
  <2>1. /\ t \in DOMAIN s.heap /\ s.heap[t].kind = "topic"
        /\ rep.fmt # "bin" => s.heap[t].name = rep.name
    BY <1>3, TopicForIs
  <2>2. SoundHeap(s.heap)
    BY DEF Sound, AlmostSound
  <2>3. /\ {group, t} \subseteq refs /\ refs \subseteq DOMAIN s.heap
        /\ \A v \in refs : s.heap[v].refs \subseteq refs
    <3>1. {group, t} \subseteq DOMAIN s.heap
      BY <2>1
    <3> QED BY <2>2, <3>1, KeepsClosed
  <2> HIDE DEF t, refs
  <2>4. SoundEntity(s.heap, e)
    BY <1>1, <2>1, <2>3 DEF SoundEntity, EntityKinds, ObjectKinds, TopicEnds, Services
  <2>5. Described(s.heap, e, rep)
    BY <1>1, <2>1 DEF Described, TopicEnds, Services
  <2>6. e.kind # "topic"
    BY <1>1 DEF TopicEnds
  <2> QED BY <1>1, <1>3, <2>4, <2>5, <2>6, MadeServes
<1> QED BY <1>2, <1>3

LEMMA MakeTopics ==
    ASSUME NEW s, Sound(s), NEW p, AParticipant(s.heap, p), NEW rep,
           NEW t, t = make_topics(s, p, rep)
    PROVE  /\ Sound(t.s) /\ Later(s, t.s)
           /\ t.q \in DOMAIN t.s.heap /\ t.q # NoEntity
           /\ t.s.heap[t.q].kind = "topic" /\ t.s.heap[t.q].name = rep.request
           /\ t.r \in DOMAIN t.s.heap /\ t.r # NoEntity
           /\ t.s.heap[t.r].kind = "topic" /\ t.s.heap[t.r].name = rep.reply
<1> DEFINE q == make_topic(s, p, rep.request, rep.type, DefaultTopicQos)
           r == make_topic(q.s, p, rep.reply, rep.type, DefaultTopicQos)
<1>1. t.s = r.s /\ t.q = q.u /\ t.r = r.u
  BY DEF make_topics
<1>2. /\ Answers(s, q) /\ q.u # NoEntity
      /\ q.s.heap[q.u].kind = "topic" /\ q.s.heap[q.u].name = rep.request
  BY MakeTopic
<1> HIDE DEF q
<1>3. AParticipant(q.s.heap, p) /\ Sound(q.s)
  BY <1>2 DEF Answers, Later, Extends, AParticipant
<1>4. /\ Answers(q.s, r) /\ r.u # NoEntity
      /\ r.s.heap[r.u].kind = "topic" /\ r.s.heap[r.u].name = rep.reply
  BY <1>3, MakeTopic
<1> HIDE DEF r
<1>5. q.u \in DOMAIN r.s.heap /\ r.s.heap[q.u] = q.s.heap[q.u]
  BY <1>2, <1>4 DEF Answers, Later, Extends
<1>6. Later(s, r.s)
  BY <1>2, <1>4, LaterIsTransitive DEF Answers
<1> QED BY <1>1, <1>2, <1>4, <1>5, <1>6 DEF Answers

LEMMA ServesService ==
    ASSUME NEW s, Sound(s), NEW p, AParticipant(s.heap, p), NEW dds \in BOOLEAN,
           NEW rep, NEW m,
           \/ rep.kind = "requester" /\ m = create_requester_by(s, p, rep, dds)
           \/ rep.kind = "replier" /\ m = create_replier_by(s, p, rep, dds)
    PROVE  Serves(s, m, rep) /\ (dds => m.u # NoEntity)
<1> DEFINE t == make_topics(s, p, rep)
           refs == Keeps(t.s.heap, {t.q, t.r})
<1>1. /\ Sound(t.s) /\ Later(s, t.s)
      /\ t.q \in DOMAIN t.s.heap /\ t.q # NoEntity
      /\ t.s.heap[t.q].kind = "topic" /\ t.s.heap[t.q].name = rep.request
      /\ t.r \in DOMAIN t.s.heap /\ t.r # NoEntity
      /\ t.s.heap[t.r].kind = "topic" /\ t.s.heap[t.r].name = rep.reply
  BY MakeTopics
<1>2. PICK e : /\ m = IF dds THEN Made(t.s, e) ELSE NotMade(s)
               /\ e.kind = rep.kind /\ e.refs = refs /\ e.request = t.q /\ e.reply = t.r
               /\ e.kind \in Services
  <2>1. LET w == FastDDSRequester(t.s.heap, t.q, t.r)
        IN  w.kind = "requester" /\ w.refs = refs /\ w.request = t.q /\ w.reply = t.r
    BY DEF FastDDSRequester
  <2>2. LET w == FastDDSReplier(t.s.heap, t.q, t.r)
        IN  w.kind = "replier" /\ w.refs = refs /\ w.request = t.q /\ w.reply = t.r
    BY DEF FastDDSReplier
  <2>3. NoEntity \notin {t.q, t.r}
    BY <1>1
  <2>4. CASE rep.kind = "requester"
    BY <2>1, <2>3, <2>4 DEF create_requester_by, Services
  <2>5. CASE rep.kind = "replier"
    BY <2>2, <2>3, <2>5 DEF create_replier_by, Services
  <2> QED BY <2>4, <2>5
<1>3. CASE ~dds
  BY <1>2, <1>3, NotMadeServes
<1>4. CASE dds
  <2> HIDE DEF t
  <2>1. SoundHeap(t.s.heap)
    BY <1>1 DEF Sound, AlmostSound
  <2>2. /\ {t.q, t.r} \subseteq refs /\ refs \subseteq DOMAIN t.s.heap
        /\ \A v \in refs : t.s.heap[v].refs \subseteq refs
    <3>1. {t.q, t.r} \subseteq DOMAIN t.s.heap
      BY <1>1
    <3> QED BY <2>1, <3>1, KeepsClosed
  <2> HIDE DEF refs
  <2>3. SoundEntity(t.s.heap, e)
    BY <1>1, <1>2, <2>2 DEF SoundEntity, EntityKinds, ObjectKinds, TopicEnds, Services
  <2>4. Described(t.s.heap, e, rep)
    BY <1>1, <1>2 DEF Described, TopicEnds, Services
  <2>5. e.kind # "topic"
    BY <1>2 DEF Services
  <2>6. Serves(t.s, m, rep) /\ m.u # NoEntity
    BY <1>1, <1>2, <1>4, <2>3, <2>4, <2>5, MadeServes
  <2>7. Later(s, m.s)
    BY <1>1, <2>6, LaterIsTransitive DEF Serves, Answers
  <2> QED BY <2>6, <2>7 DEF Serves, Answers
<1> QED BY <1>3, <1>4

-----------------------------------------------------------------------------
(* Destructors                                                             *)

(* Objects whose entities, with all they keep, stay what they are.         *)
Kept(s, t, O) ==
    \A o \in O :
        /\ o \in s.objects /\ o \in t.objects /\ t.mw[o] = s.mw[o]
        /\ \A v \in {s.mw[o]} \cup s.heap[s.mw[o]].refs :
             v \in DOMAIN t.heap /\ t.heap[v] = s.heap[v]

LEMMA KeptIsTransitive ==
    ASSUME NEW s, NEW t, NEW w, NEW O, Kept(s, t, O), Kept(t, w, O)
    PROVE  Kept(s, w, O)
<1>1. SUFFICES ASSUME NEW o \in O
               PROVE  /\ o \in s.objects /\ o \in w.objects /\ w.mw[o] = s.mw[o]
                      /\ \A v \in {s.mw[o]} \cup s.heap[s.mw[o]].refs :
                           v \in DOMAIN w.heap /\ w.heap[v] = s.heap[v]
  BY DEF Kept
<1>2. /\ o \in s.objects /\ o \in t.objects /\ t.mw[o] = s.mw[o]
      /\ \A v \in {s.mw[o]} \cup s.heap[s.mw[o]].refs :
           v \in DOMAIN t.heap /\ t.heap[v] = s.heap[v]
  BY DEF Kept
<1>3. /\ o \in w.objects /\ w.mw[o] = t.mw[o]
      /\ \A v \in {t.mw[o]} \cup t.heap[t.mw[o]].refs :
           v \in DOMAIN w.heap /\ w.heap[v] = t.heap[v]
  BY DEF Kept
<1> QED BY <1>2, <1>3

LEMMA LaterKeeps ==
    ASSUME NEW s, Sound(s), NEW t, Later(s, t)
    PROVE  Kept(s, t, s.objects)
<1>1. ASSUME NEW o \in s.objects
      PROVE  s.mw[o] \in DOMAIN s.heap /\ s.heap[s.mw[o]].refs \subseteq DOMAIN s.heap
  BY DEF Sound, AlmostSound, SoundMaps, SoundHeap, SoundEntity
<1> QED BY <1>1 DEF Later, Extends, Kept

LEMMA CollectIs ==
    ASSUME NEW s, AState(s)
    PROVE  LET live == Keeps(s.heap, Range(s.mw))
           IN  Collect(s) =
                 [objects |-> s.objects, mw |-> s.mw, heap |-> Restrict(s.heap, live),
                  topics |-> Restrict(s.topics, {k \in DOMAIN s.topics : s.topics[k] \in live}),
                  types |-> Restrict(s.types, {k \in DOMAIN s.types : s.types[k] \in live})]
<1> DEFINE live == Keeps(s.heap, Range(s.mw))
           h == Restrict(s.heap, live)
           Named(reg) == Restrict(reg, {k \in DOMAIN reg : reg[k] \in live})
<1>1. Collect(s) = [s EXCEPT !.heap = h, !.topics = Named(@), !.types = Named(@)]
  BY DEF Collect
<1>2. Collect(s) = [s EXCEPT !.heap = h, !.topics = Named(s.topics), !.types = Named(s.types)]
  <2> HIDE DEF h, Named
  <2> QED BY <1>1 DEF AState
<1> DEFINE a == Named(s.topics)
           b == Named(s.types)
<1>3. Collect(s) = [objects |-> s.objects, mw |-> s.mw, heap |-> h, topics |-> a, types |-> b]
  <2> HIDE DEF a, b, h
  <2>1. Collect(s) = [s EXCEPT !.heap = h, !.topics = a, !.types = b]
    BY <1>2 DEF a, b
  <2> QED BY <2>1 DEF AState
<1> QED BY <1>3

(* What the maps reach stays.                                              *)
LEMMA CollectKeeps ==
    ASSUME NEW s, Sound(s), NEW c, c = Collect(s)
    PROVE  /\ Sound(c) /\ Kept(s, c, s.objects)
           /\ c.objects = s.objects /\ c.mw = s.mw
<1> DEFINE live == Keeps(s.heap, Range(s.mw))
           h == Restrict(s.heap, live)
           topics == Restrict(s.topics, {k \in DOMAIN s.topics : s.topics[k] \in live})
           types == Restrict(s.types, {k \in DOMAIN s.types : s.types[k] \in live})
<1>0. /\ AState(s) /\ SoundHeap(s.heap) /\ SoundTypes(s.heap, s.types) /\ SoundMaps(s)
      /\ SoundTopics(s.heap, s.topics) /\ TopicsRegistered(s.heap, s.topics)
  BY DEF Sound, AlmostSound
<1>1. c = [objects |-> s.objects, mw |-> s.mw, heap |-> h, topics |-> topics, types |-> types]
  BY <1>0, CollectIs
<1>2. /\ \A o \in DOMAIN s.mw : s.mw[o] \in live /\ s.heap[s.mw[o]].refs \subseteq live
      /\ live \subseteq DOMAIN s.heap
      /\ \A v \in live : s.heap[v].refs \subseteq live
  <2>1. Range(s.mw) \subseteq DOMAIN s.heap
    BY <1>0 DEF SoundMaps, Range
  <2>2. \A o \in DOMAIN s.mw : s.mw[o] \in Range(s.mw)
    BY DEF Range
  <2> QED BY <1>0, <2>1, <2>2, KeepsClosed
<1>3. DOMAIN h = live /\ \A v \in live : h[v] = s.heap[v]
  BY DEF Restrict
<1>4. /\ DOMAIN topics = {k \in DOMAIN s.topics : s.topics[k] \in live}
      /\ \A k \in DOMAIN topics : topics[k] = s.topics[k]
  BY DEF Restrict
<1>5. /\ DOMAIN types = {k \in DOMAIN s.types : s.types[k] \in live}
      /\ \A k \in DOMAIN types : types[k] = s.types[k]
  BY DEF Restrict
<1> HIDE DEF live, h, topics, types
<1>6. /\ c.objects = s.objects /\ c.mw = s.mw /\ c.heap = h
      /\ c.topics = topics /\ c.types = types /\ AState(c)
  BY <1>1 DEF AState
<1>7. SoundHeap(h)
  <2>1. IsFiniteSet(live)
    BY <1>0, <1>2, FS_Subset DEF SoundHeap
  <2>2. ASSUME NEW u \in live PROVE u[1] = h[u].kind /\ SoundEntity(h, h[u])
    <3>1. SoundEntity(s.heap, s.heap[u]) /\ u[1] = s.heap[u].kind
      BY <1>0, <1>2 DEF SoundHeap
    <3>2. s.heap[u].refs \subseteq DOMAIN h /\ \A v \in s.heap[u].refs : h[v] = s.heap[v]
      BY <1>2, <1>3
    <3>3. SoundEntity(h, s.heap[u])
      BY <3>1, <3>2, SoundEntityIsLocal
    <3> QED BY <1>3, <3>1, <3>3
  <2> QED BY <1>3, <2>1, <2>2 DEF SoundHeap
<1>8. SoundMaps(c)
  BY <1>0, <1>2, <1>3, <1>6 DEF SoundMaps
<1>9. SoundTopics(h, topics)
  BY <1>0, <1>3, <1>4 DEF SoundTopics
<1>10. SoundTypes(h, types)
  BY <1>0, <1>3, <1>5 DEF SoundTypes
<1>11. TopicsRegistered(h, topics)
  <2>1. SUFFICES ASSUME NEW u \in live, NEW p \in h[u].refs,
                        h[u].kind = "topic", h[p].kind = "participant"
                 PROVE  /\ <<p, h[u].name>> \in DOMAIN topics
                        /\ topics[<<p, h[u].name>>] = u
    BY <1>3 DEF TopicsRegistered
  <2>2. h[u] = s.heap[u] /\ u \in DOMAIN s.heap /\ p \in s.heap[u].refs
    BY <1>2, <1>3
  <2>3. h[p] = s.heap[p]
    BY <1>2, <1>3, <2>2
  <2>4. /\ <<p, s.heap[u].name>> \in DOMAIN s.topics
        /\ s.topics[<<p, s.heap[u].name>>] = u
    BY <1>0, <2>1, <2>2, <2>3 DEF TopicsRegistered
  <2> QED BY <1>4, <2>2, <2>4
<1>12. Sound(c)
  BY <1>6, <1>7, <1>8, <1>9, <1>10, <1>11 DEF Sound, AlmostSound
<1>13. Kept(s, c, s.objects)
  BY <1>0, <1>2, <1>3, <1>6 DEF Kept, SoundMaps
<1> QED BY <1>6, <1>12, <1>13

LEMMA MapsSet ==
    ASSUME NEW s, AState(s), NEW O, NEW f, NEW t, t = [s EXCEPT !.objects = O, !.mw = f]
    PROVE  t = [objects |-> O, mw |-> f, heap |-> s.heap, topics |-> s.topics, types |-> s.types]
  BY DEF AState

(* Fewer objects.                                                          *)
LEMMA FewerObjects ==
    ASSUME NEW s, Sound(s), NEW O, O \subseteq s.objects,
           NEW f, DOMAIN f = O, \A o \in O : f[o] = s.mw[o],
           NEW t, t = [objects |-> O, mw |-> f, heap |-> s.heap,
                       topics |-> s.topics, types |-> s.types]
    PROVE  Sound(t) /\ t.objects = O /\ t.mw = f /\ Kept(s, t, O)
<1>0. /\ AState(s) /\ SoundHeap(s.heap) /\ SoundTypes(s.heap, s.types) /\ SoundMaps(s)
      /\ SoundTopics(s.heap, s.topics) /\ TopicsRegistered(s.heap, s.topics)
  BY DEF Sound, AlmostSound
<1>2. /\ t.objects = O /\ t.mw = f /\ t.heap = s.heap
      /\ t.topics = s.topics /\ t.types = s.types /\ AState(t)
  BY DEF AState
<1>3. SoundMaps(t)
  BY <1>0, <1>2 DEF SoundMaps
<1>4. Sound(t)
  BY <1>0, <1>2, <1>3 DEF Sound, AlmostSound
<1>5. Kept(s, t, O)
  <2>1. ASSUME NEW o \in O
        PROVE  s.mw[o] \in DOMAIN s.heap /\ s.heap[s.mw[o]].refs \subseteq DOMAIN s.heap
    BY <1>0 DEF SoundMaps, SoundHeap, SoundEntity
  <2> QED BY <1>2, <2>1 DEF Kept
<1> QED BY <1>2, <1>4, <1>5

LEMMA DeleteKeepsOthers ==
    ASSUME NEW s, Sound(s), NEW id,
           NEW t, t = delete_object_unlock(s, id)
    PROVE  /\ Sound(t) /\ t.objects = s.objects \ {id}
           /\ Kept(s, t, s.objects \ {id})
<1> DEFINE O == s.objects \ {id}
           f == Restrict(s.mw, O)
           w == [s EXCEPT !.objects = O, !.mw = f]
<1>0. AState(s) /\ s.objects = DOMAIN s.mw
  BY DEF Sound, AlmostSound, SoundMaps
<1>1. t = Collect(w)
  <2>1. [s EXCEPT !.objects = @ \ {id}, !.mw = Restrict(@, DOMAIN @ \ {id})] = w
    BY <1>0 DEF AState
  <2> QED BY <2>1 DEF delete_object_unlock
<1>2. DOMAIN f = O /\ \A o \in O : f[o] = s.mw[o]
  BY DEF Restrict
<1>3. O \subseteq s.objects
  OBVIOUS
<1> HIDE DEF O, f
<1>w. w = [objects |-> O, mw |-> f, heap |-> s.heap, topics |-> s.topics, types |-> s.types]
  BY <1>0, MapsSet, Zenon
<1> HIDE DEF w
<1>4. Sound(w) /\ w.objects = O /\ Kept(s, w, O)
  BY <1>w, <1>2, <1>3, FewerObjects
<1>5. Sound(t) /\ Kept(w, t, w.objects) /\ t.objects = w.objects
  BY <1>1, <1>4, CollectKeeps
<1>6. Kept(s, t, O)
  BY <1>4, <1>5, KeptIsTransitive
<1> QED BY <1>4, <1>5, <1>6 DEF O

LEMMA ReleaseEmpties ==
    ASSUME NEW s, Sound(s)
    PROVE  Sound(release(s)) /\ release(s).objects = {}
<1> DEFINE w == [s EXCEPT !.objects = {}, !.mw = << >>]
<1>1. DOMAIN << >> = {} /\ {} \subseteq s.objects /\ \A o \in {} : << >>[o] = s.mw[o]
  OBVIOUS
<1> DEFINE O == {}
           f == << >>
<1>w. w = [objects |-> O, mw |-> f, heap |-> s.heap, topics |-> s.topics, types |-> s.types]
  <2>1. AState(s)
    BY DEF Sound, AlmostSound
  <2> QED BY <2>1, MapsSet, Zenon
<1> HIDE DEF w
<1>2. DOMAIN f = O /\ O \subseteq s.objects /\ \A o \in O : f[o] = s.mw[o]
  BY <1>1
<1> HIDE DEF O, f
<1>4. Sound(w) /\ w.objects = O
  BY <1>w, <1>2, FewerObjects
<1>3. release(s) = Collect(w)
  BY DEF release, w
<1> QED BY <1>3, <1>4, CollectKeeps DEF O

-----------------------------------------------------------------------------
(* ProxyClient                                                             *)

(* An object that was made, or was not.                                    *)
Creates(s, id, rep, r) ==
    /\ Sound(r.s) /\ Kept(s, r.s, s.objects)
    /\ r.status \in {"OK", "ERR_DDS_ERROR", "ERR_UNKNOWN_REFERENCE"}
    /\ r.status = "OK" => /\ r.s.objects = s.objects \cup {id}
                          /\ Described(r.s.heap, r.s.heap[r.s.mw[id]], rep)
    /\ r.status # "OK" => r.s.objects = s.objects /\ r.s.mw = s.mw

LEMMA EmplaceCreates ==
    ASSUME NEW s, Sound(s), NEW id, id \notin s.objects, NEW rep, rep.kind = id.kind,
           NEW m, Serves(s, m, rep),
           NEW r, r = Emplace(id, m)
    PROVE  /\ Creates(s, id, rep, r)
           /\ m.u # NoEntity => r.status = "OK"
<1>0. /\ Sound(m.s) /\ Later(s, m.s) /\ Kept(s, m.s, s.objects)
      /\ m.s.objects = s.objects /\ m.s.mw = s.mw
  BY LaterKeeps DEF Serves, Answers, Later
<1>1. CASE m.u = NoEntity
  <2> DEFINE c == Collect(m.s)
  <2>1. r.s = c /\ r.status = "ERR_DDS_ERROR"
    BY <1>1 DEF Emplace, Result
  <2>2. /\ Sound(c) /\ Kept(m.s, c, m.s.objects)
        /\ c.objects = m.s.objects /\ c.mw = m.s.mw
    BY <1>0, CollectKeeps
  <2> HIDE DEF c
  <2>3. Kept(s, c, s.objects)
    BY <1>0, <2>2, KeptIsTransitive
  <2> QED BY <1>0, <1>1, <2>1, <2>2, <2>3 DEF Creates
<1>2. CASE m.u # NoEntity
  <2> DEFINE f == With(m.s.mw, id, m.u)
             O == m.s.objects \cup {id}
             w == [m.s EXCEPT !.mw = f, !.objects = O]
  <2>1. r.s = w /\ r.status = "OK"
    <3>1. w = [m.s EXCEPT !.mw = With(@, id, m.u), !.objects = @ \union {id}]
      BY <1>0 DEF Sound, AlmostSound, AState
    <3> HIDE DEF w
    <3> QED BY <1>2, <3>1 DEF Emplace, Result
  <2>2. /\ AState(m.s) /\ SoundHeap(m.s.heap) /\ SoundTypes(m.s.heap, m.s.types) /\ SoundMaps(m.s)
        /\ SoundTopics(m.s.heap, m.s.topics) /\ TopicsRegistered(m.s.heap, m.s.topics)
    BY <1>0 DEF Sound, AlmostSound
  <2>3. m.u \in DOMAIN m.s.heap /\ Described(m.s.heap, m.s.heap[m.u], rep)
    BY <1>2 DEF Serves, Answers
  <2>4. DOMAIN f = s.objects \cup {id} /\ f[id] = m.u /\ \A o \in s.objects : f[o] = s.mw[o]
    <3>1. DOMAIN m.s.mw = s.objects
      BY <1>0, <2>2 DEF SoundMaps
    <3>2. DOMAIN f = DOMAIN m.s.mw \cup {id} /\ f[id] = m.u
          /\ \A x \in DOMAIN m.s.mw : x # id => f[x] = m.s.mw[x]
      BY DEF With
    <3> HIDE DEF f
    <3> QED BY <1>0, <3>1, <3>2
  <2>5. O = s.objects \cup {id}
    BY <1>0
  <2> HIDE DEF f, O
  <2>w. w = [objects |-> O, mw |-> f, heap |-> m.s.heap,
             topics |-> m.s.topics, types |-> m.s.types]
    <3> DEFINE z == m.s
    <3> HIDE DEF z
    <3>1. ASSUME NEW t, t = [z EXCEPT !.mw = f, !.objects = O], AState(z)
          PROVE  t = [objects |-> O, mw |-> f, heap |-> z.heap, topics |-> z.topics, types |-> z.types]
      BY <3>1 DEF AState
    <3>2. w = [z EXCEPT !.mw = f, !.objects = O]
      BY DEF z
    <3>3. AState(z)
      BY <2>2 DEF z
    <3> HIDE DEF w
    <3> QED BY <3>1, <3>2, <3>3 DEF z
  <2> HIDE DEF w
  <2>6. /\ w.objects = O /\ w.mw = f /\ w.heap = m.s.heap
        /\ w.topics = m.s.topics /\ w.types = m.s.types /\ AState(w)
    BY <2>w DEF AState
  <2>7. SoundMaps(w)
    <3>1. \A i \in s.objects : s.mw[i] \in DOMAIN m.s.heap /\ m.s.heap[s.mw[i]].kind = i.kind
      BY <1>0, <2>2 DEF SoundMaps
    <3>2. m.s.heap[m.u].kind = id.kind
      BY <2>3 DEF Described
    <3> QED BY <2>3, <2>4, <2>5, <2>6, <3>1, <3>2 DEF SoundMaps
  <2>8. Sound(w)
    BY <2>2, <2>6, <2>7 DEF Sound, AlmostSound
  <2>9. Kept(s, w, s.objects)
    BY <1>0, <2>4, <2>5, <2>6 DEF Kept
  <2>10. Described(w.heap, w.heap[w.mw[id]], rep)
    BY <2>3, <2>4, <2>6
  <2> QED BY <1>2, <2>1, <2>5, <2>6, <2>8, <2>9, <2>10 DEF Creates
<1> QED BY <1>1, <1>2

(* The parent that an object is made on.                                   *)
LEMMA ParentIs ==
    ASSUME NEW s, Sound(s), NEW rep, rep.kind \in ObjectKinds \ {"participant"},
           ParentOf(rep) \in s.objects
    PROVE  /\ s.mw[ParentOf(rep)] \in DOMAIN s.heap
           /\ rep.kind \notin TopicEnds => AParticipant(s.heap, s.mw[ParentOf(rep)])
           /\ rep.kind \in TopicEnds => s.heap[s.mw[ParentOf(rep)]].kind \in Owned
<1> DEFINE i == ParentOf(rep)
<1>1. i.kind = ParentKind[rep.kind]
  BY DEF ParentOf
<1>2. s.mw[i] \in DOMAIN s.heap /\ s.heap[s.mw[i]].kind = i.kind
  BY DEF Sound, AlmostSound, SoundMaps
<1> HIDE DEF i
<1>3. rep.kind \notin TopicEnds => ParentKind[rep.kind] = "participant"
  BY DEF ParentKind, ObjectKinds, TopicEnds
<1>4. rep.kind \in TopicEnds => ParentKind[rep.kind] \in Owned
  BY DEF ParentKind, ObjectKinds, TopicEnds, Owned
<1> QED BY <1>1, <1>2, <1>3, <1>4 DEF AParticipant, i

(* With DDS willing and the parent there, only an endpoint without a topic *)
(* is not made.                                                            *)
LEMMA CreateCreates ==
    ASSUME NEW s, Sound(s), NEW id, id \notin s.objects,
           NEW rep, rep.kind = id.kind, id.kind \in ObjectKinds, NEW dds \in BOOLEAN,
           NEW r, r = create(s, id, rep, dds)
    PROVE  /\ Creates(s, id, rep, r)
           /\ dds /\ r.status = "ERR_DDS_ERROR"
                => /\ rep.kind \in TopicEnds /\ ParentOf(rep) \in s.objects
                   /\ TopicFor(s, s.mw[ParentOf(rep)], rep) = NoEntity
<1>0. rep.kind \notin TodoKinds
  BY DEF ObjectKinds, TodoKinds
<1>1. CASE rep.kind # "participant" /\ ParentOf(rep) \notin s.objects
  <2>1. r.s = s /\ r.status = "ERR_UNKNOWN_REFERENCE"
    BY <1>0, <1>1 DEF create, Result
  <2>2. Later(s, s)
    BY DEF Later, Extends
  <2>3. Kept(s, s, s.objects)
    BY <2>2, LaterKeeps
  <2> QED BY <2>1, <2>3 DEF Creates
<1>2. CASE rep.kind = "participant" \/ ParentOf(rep) \in s.objects
  <2> DEFINE g == s.mw[ParentOf(rep)]
  <2>1. \E m : /\ r = Emplace(id, m) /\ Serves(s, m, rep)
               /\ \/ dds => m.u # NoEntity
                  \/ /\ rep.kind \in TopicEnds
                     /\ dds /\ TopicFor(s, g, rep) # NoEntity => m.u # NoEntity
    <3>1. CASE rep.kind = "participant"
      <4>1. r = Emplace(id, create_participant_by(s, rep, dds))
        BY <1>0, <1>2, <3>1 DEF create, create_participant
      <4> QED BY <3>1, <4>1, ServesParticipant
    <3>2. CASE rep.kind = "topic"
      <4>1. r = Emplace(id, create_topic_by(s, g, rep))
        BY <1>0, <1>2, <3>2 DEF create, create_topic
      <4>2. AParticipant(s.heap, g)
        BY <1>2, <3>2, ParentIs DEF TopicEnds, ObjectKinds
      <4> QED BY <3>2, <4>1, <4>2, ServesTopic
    <3>3. CASE rep.kind = "publisher"
      <4>1. r = Emplace(id, create_publisher_by(s, g, rep, dds))
        BY <1>0, <1>2, <3>3 DEF create, create_publisher
      <4>2. AParticipant(s.heap, g)
        BY <1>2, <3>3, ParentIs DEF TopicEnds, ObjectKinds
      <4> QED BY <3>3, <4>1, <4>2, ServesPublisher
    <3>4. CASE rep.kind = "subscriber"
      <4>1. r = Emplace(id, create_subscriber_by(s, g, rep, dds))
        BY <1>0, <1>2, <3>4 DEF create, create_subscriber
      <4>2. AParticipant(s.heap, g)
        BY <1>2, <3>4, ParentIs DEF TopicEnds, ObjectKinds
      <4> QED BY <3>4, <4>1, <4>2, ServesPublisher
    <3>5. CASE rep.kind = "datawriter"
      <4>1. r = Emplace(id, create_datawriter_by(s, g, rep, dds))
        BY <1>0, <1>2, <3>5 DEF create, create_datawriter
      <4>2. g \in DOMAIN s.heap
        BY <1>2, <3>5, ParentIs DEF ObjectKinds
      <4> QED BY <3>5, <4>1, <4>2, ServesEndpoint DEF TopicEnds
    <3>6. CASE rep.kind = "datareader"
      <4>1. r = Emplace(id, create_datareader_by(s, g, rep, dds))
        BY <1>0, <1>2, <3>6 DEF create, create_datareader
      <4>2. g \in DOMAIN s.heap
        BY <1>2, <3>6, ParentIs DEF ObjectKinds
      <4> QED BY <3>6, <4>1, <4>2, ServesEndpoint DEF TopicEnds
    <3>7. CASE rep.kind = "requester"
      <4>1. r = Emplace(id, create_requester_by(s, g, rep, dds))
        BY <1>0, <1>2, <3>7 DEF create, create_requester
      <4>2. AParticipant(s.heap, g)
        BY <1>2, <3>7, ParentIs DEF TopicEnds, ObjectKinds
      <4> QED BY <3>7, <4>1, <4>2, ServesService
    <3>8. CASE rep.kind = "replier"
      <4>1. r = Emplace(id, create_replier_by(s, g, rep, dds))
        BY <1>0, <1>2, <3>8 DEF create, create_replier
      <4>2. AParticipant(s.heap, g)
        BY <1>2, <3>8, ParentIs DEF TopicEnds, ObjectKinds
      <4> QED BY <3>8, <4>1, <4>2, ServesService
    <3> QED BY <3>1, <3>2, <3>3, <3>4, <3>5, <3>6, <3>7, <3>8 DEF ObjectKinds
  <2>2. PICK m : /\ r = Emplace(id, m) /\ Serves(s, m, rep)
                 /\ \/ dds => m.u # NoEntity
                    \/ /\ rep.kind \in TopicEnds
                       /\ dds /\ TopicFor(s, g, rep) # NoEntity => m.u # NoEntity
    BY <2>1
  <2>3. Creates(s, id, rep, r) /\ (m.u # NoEntity => r.status = "OK")
    BY <2>2, EmplaceCreates
  <2>4. rep.kind \in TopicEnds => rep.kind # "participant"
    BY DEF TopicEnds
  <2> QED BY <1>2, <2>2, <2>3, <2>4
<1> QED BY <1>1, <1>2

(* The calls of a client.                                                  *)
LEMMA IdsAreIds ==
    Ids \subseteq [kind : ObjectKinds \cup TodoKinds, num : Nat]
  BY UsesAssumption DEF Ids

LEMMA RepIsOfKind ==
    ASSUME NEW id \in Ids, NEW rep \in RepsOf[id.kind]
    PROVE  rep.kind = id.kind /\ id.kind \in ObjectKinds \cup TodoKinds
<1> DEFINE k == id.kind
<1>1. k \in Kinds /\ k \in ObjectKinds \cup TodoKinds
  BY IdsAreIds DEF Kinds
<1> DEFINE parents == NumsOf(ParentKind[k])
<1>2. RepsOf[k] =
       IF k = "participant" THEN [kind : {k}, fmt : Formats[k], domain : Domains, qos : Qos]
       ELSE IF k \in TodoKinds THEN [kind : {k}]
       ELSE CASE k = "topic" ->
                   [kind : {k}, fmt : Formats[k] \ {"bin"}, parent : parents,
                    name : Names, type : Types, qos : TopicQos]
                   \union [kind : {k}, fmt : Formats[k] \intersect {"bin"}, parent : parents,
                           name : Names, type : Types, qos : {DefaultTopicQos}]
              [] k \in {"publisher", "subscriber"} ->
                   [kind : {k}, fmt : Formats[k] \ {"ref"}, parent : parents]
              [] k \in {"datawriter", "datareader"} ->
                   [kind : {k}, fmt : Formats[k] \ {"bin"}, parent : parents,
                    name : Names, qos : Qos]
                   \union [kind : {k}, fmt : Formats[k] \intersect {"bin"}, parent : parents,
                           topic : NumsOf("topic"), qos : Qos]
              [] OTHER -> [kind : {k}, fmt : Formats[k], parent : parents,
                           request : Names, reply : Names, type : Types]
  BY <1>1 DEF RepsOf
<1>3. rep \in RepsOf[k]
  OBVIOUS
<1> HIDE DEF k, parents
<1>4. rep.kind = k
  <2>0. k \in ObjectKinds => k \notin TodoKinds
    BY DEF ObjectKinds, TodoKinds
  <2>1. CASE k = "participant"
    BY <1>2, <1>3, <2>1
  <2>2. CASE k = "topic"
    BY <1>2, <1>3, <2>0, <2>2 DEF ObjectKinds
  <2>3. CASE k \in {"publisher", "subscriber"}
    BY <1>2, <1>3, <2>0, <2>3 DEF ObjectKinds
  <2>4. CASE k \in {"datawriter", "datareader"}
    BY <1>2, <1>3, <2>0, <2>4 DEF ObjectKinds
  <2>5. CASE k \in {"requester", "replier"}
    BY <1>2, <1>3, <2>0, <2>5 DEF ObjectKinds
  <2>6. CASE k \in TodoKinds
    BY <1>2, <1>3, <2>6 DEF TodoKinds
  <2> QED BY <1>1, <2>1, <2>2, <2>3, <2>4, <2>5, <2>6 DEF ObjectKinds
<1> QED BY <1>1, <1>4 DEF k

(* There is no object of a kind that is still to do.                       *)
LEMMA ThereIsMade ==
    ASSUME NEW s, Sound(s), NEW id \in s.objects, id \in Ids
    PROVE  id.kind \in ObjectKinds
<1>1. s.mw[id] \in DOMAIN s.heap /\ s.heap[s.mw[id]].kind = id.kind
  BY DEF Sound, AlmostSound, SoundMaps
<1>2. id.kind \in EntityKinds
  BY <1>1 DEF Sound, AlmostSound, SoundHeap, SoundEntity
<1>3. id.kind \in ObjectKinds \cup TodoKinds
  BY IdsAreIds
<1> QED BY <1>2, <1>3 DEF EntityKinds, TodoKinds

Refusals == {"OK_MATCHED", "ERR_MISMATCH", "ERR_ALREADY_EXISTS"}

(* Either nothing is done, or the object is made, anew if it is there.     *)
LEMMA CreateObjectIs ==
    ASSUME NEW s, NEW id, NEW rep, NEW dds,
           NEW reuse \in BOOLEAN, NEW replace \in BOOLEAN,
           NEW r, r = create_object(s, id, rep, reuse, replace, dds)
    PROVE  \/ r.s = s /\ r.status \in Refusals
           \/ \E t : /\ r = create(t, id, rep, dds)
                     /\ \/ t = s /\ id \notin s.objects
                        \/ t = delete_object_unlock(s, id) /\ id \in s.objects /\ replace
<1> DEFINE m == Matched(s, id, rep)
<1>1. r = LET there == id \in s.objects
          IN  CASE there /\ reuse /\ m              -> Result(s, "OK_MATCHED")
                [] there /\ reuse /\ ~m /\ ~replace -> Result(s, "ERR_MISMATCH")
                [] there /\ ~reuse /\ ~replace      -> Result(s, "ERR_ALREADY_EXISTS")
                [] OTHER -> create(IF there THEN delete_object_unlock(s, id) ELSE s, id, rep, dds)
  BY DEF create_object
<1> HIDE DEF m
<1>2. CASE id \notin s.objects
  <2>1. r = create(s, id, rep, dds)
    BY <1>1, <1>2
  <2> QED BY <1>2, <2>1
<1>3. CASE id \in s.objects /\ reuse /\ m
  BY <1>1, <1>3 DEF Result, Refusals
<1>4. CASE id \in s.objects /\ reuse /\ ~m /\ ~replace
  BY <1>1, <1>4 DEF Result, Refusals
<1>5. CASE id \in s.objects /\ ~reuse /\ ~replace
  BY <1>1, <1>5 DEF Result, Refusals
<1>6. CASE id \in s.objects /\ replace /\ ~(reuse /\ m)
  <2>1. r = create(delete_object_unlock(s, id), id, rep, dds)
    BY <1>1, <1>6
  <2> QED BY <1>6, <2>1
<1> QED BY <1>2, <1>3, <1>4, <1>5, <1>6

(* The creation starts from t, s without the object if that was there.     *)
MadeAnew(s, t, id, rep, replace, dds, r) ==
    /\ Sound(t) /\ t.objects = s.objects \ {id}
    /\ Kept(s, t, s.objects \ {id})
    /\ t = s \/ replace
    /\ Creates(t, id, rep, r)
    /\ Kept(s, r.s, s.objects \ {id})
    /\ dds /\ r.status = "ERR_DDS_ERROR"
         => /\ rep.kind \in TopicEnds /\ ParentOf(rep) \in t.objects
            /\ TopicFor(t, t.mw[ParentOf(rep)], rep) = NoEntity

(* Nothing is done: it is refused, or of a kind that is still to do.       *)
Rests(s, id, r) ==
    /\ r.s = s
    /\ r.status \in Refusals \/ (r.status = "OK" /\ id \notin s.objects)

LEMMA CreateObjectCreates ==
    ASSUME NEW s, Sound(s), NEW id \in Ids, NEW rep \in RepsOf[id.kind],
           NEW dds \in BOOLEAN, NEW reuse \in BOOLEAN, NEW replace \in BOOLEAN,
           NEW r, r = create_object(s, id, rep, reuse, replace, dds)
    PROVE  \/ Rests(s, id, r)
           \/ \E t : MadeAnew(s, t, id, rep, replace, dds, r)
<1>0. rep.kind = id.kind /\ id.kind \in ObjectKinds \cup TodoKinds
  BY RepIsOfKind
<1>1. ASSUME id.kind \in ObjectKinds,
             NEW t, r = create(t, id, rep, dds),
             \/ t = s /\ id \notin s.objects
             \/ t = delete_object_unlock(s, id) /\ id \in s.objects /\ replace
      PROVE  MadeAnew(s, t, id, rep, replace, dds, r)
  <2>1. /\ Sound(t) /\ t.objects = s.objects \ {id}
        /\ Kept(s, t, s.objects \ {id})
        /\ t = s \/ replace
    <3>1. CASE t = s /\ id \notin s.objects
      <4>1. Later(s, s) /\ s.objects \ {id} = s.objects
        BY <3>1 DEF Later, Extends
      <4> QED BY <3>1, <4>1, LaterKeeps
    <3>2. CASE t = delete_object_unlock(s, id) /\ id \in s.objects /\ replace
      BY <3>2, DeleteKeepsOthers
    <3> QED BY <1>1, <3>1, <3>2
  <2>2. rep.kind = id.kind /\ id.kind \in ObjectKinds
    BY <1>0, <1>1
  <2>3. /\ Creates(t, id, rep, r)
        /\ dds /\ r.status = "ERR_DDS_ERROR"
             => /\ rep.kind \in TopicEnds /\ ParentOf(rep) \in t.objects
                /\ TopicFor(t, t.mw[ParentOf(rep)], rep) = NoEntity
    BY <1>1, <2>1, <2>2, CreateCreates
  <2>4. Kept(s, r.s, s.objects \ {id})
    BY <2>1, <2>3, KeptIsTransitive DEF Creates
  <2> QED BY <2>1, <2>3, <2>4 DEF MadeAnew
<1>2. ASSUME id.kind \in TodoKinds,
             NEW t, r = create(t, id, rep, dds),
             \/ t = s /\ id \notin s.objects
             \/ t = delete_object_unlock(s, id) /\ id \in s.objects /\ replace
      PROVE  Rests(s, id, r)
  <2>1. r.s = t /\ r.status = "OK"
    BY <1>0, <1>2 DEF create, Result
  <2>2. id \notin s.objects
    BY <1>2, ThereIsMade DEF ObjectKinds, TodoKinds
  <2> QED BY <1>2, <2>1, <2>2 DEF Rests
<1>3. \/ r.s = s /\ r.status \in Refusals
      \/ \E t : /\ r = create(t, id, rep, dds)
                /\ \/ t = s /\ id \notin s.objects
                   \/ t = delete_object_unlock(s, id) /\ id \in s.objects /\ replace
  BY CreateObjectIs
<1>4. CASE r.s = s /\ r.status \in Refusals
  BY <1>4 DEF Rests
<1> QED BY <1>0, <1>1, <1>2, <1>3, <1>4

-----------------------------------------------------------------------------
(* The invariant                                                           *)

(* What was asked for objects that are kept still describes them.          *)
LEMMA KeptAsAsked ==
    ASSUME NEW s, Sound(s), NEW a, AskedFor(s, a), NEW t, NEW O, Kept(s, t, O)
    PROVE  \A o \in O : Described(t.heap, t.heap[t.mw[o]], a[o])
<1> SUFFICES ASSUME NEW o \in O PROVE Described(t.heap, t.heap[t.mw[o]], a[o])
  OBVIOUS
<1>1. /\ o \in s.objects /\ t.mw[o] = s.mw[o]
      /\ \A v \in {s.mw[o]} \cup s.heap[s.mw[o]].refs : t.heap[v] = s.heap[v]
  BY DEF Kept
<1>2. Described(s.heap, s.heap[s.mw[o]], a[o])
  BY <1>1 DEF AskedFor
<1>3. SoundEntity(s.heap, s.heap[s.mw[o]])
  BY <1>1 DEF Sound, AlmostSound, SoundMaps, SoundHeap
<1>4. Described(t.heap, s.heap[s.mw[o]], a[o])
  BY <1>1, <1>2, <1>3, DescribedIsLocal
<1> QED BY <1>1, <1>4

LEMMA CreateObjectIsConsistent ==
    ASSUME NEW s, NEW a, Consistent(s, a), NEW id \in Ids, NEW rep \in RepsOf[id.kind],
           NEW dds \in BOOLEAN, NEW reuse \in BOOLEAN, NEW replace \in BOOLEAN,
           NEW r, r = create_object(s, id, rep, reuse, replace, dds)
    PROVE  Consistent(r.s, IF r.status = "OK" /\ id \in r.s.objects THEN With(a, id, rep)
                           ELSE Restrict(a, r.s.objects))
<1> DEFINE b == With(a, id, rep)
           c == Restrict(a, r.s.objects)
<1>0. Sound(s) /\ AskedFor(s, a) /\ s.objects \subseteq Ids
  BY DEF Consistent
<1>1. DOMAIN b = s.objects \cup {id} /\ b[id] = rep /\ \A o \in s.objects \ {id} : b[o] = a[o]
  BY <1>0 DEF With, AskedFor
<1>2. DOMAIN c = r.s.objects /\ \A o \in r.s.objects : c[o] = a[o]
  BY DEF Restrict
<1> HIDE DEF b, c
<1>3. CASE Rests(s, id, r)
  <2>1. r.s = s /\ ~(r.status = "OK" /\ id \in r.s.objects)
    BY <1>3 DEF Rests, Refusals
  <2>2. AskedFor(s, c)
    BY <1>0, <1>2, <2>1 DEF AskedFor
  <2>3. Consistent(r.s, c)
    BY <1>0, <2>1, <2>2 DEF Consistent
  <2> QED BY <2>1, <2>3 DEF c
<1>4. ASSUME NEW t, t.objects = s.objects \ {id}, Creates(t, id, rep, r),
             Kept(s, r.s, s.objects \ {id})
      PROVE  Consistent(r.s, IF r.status = "OK" /\ id \in r.s.objects THEN b ELSE c)
  <2>1. \A o \in s.objects \ {id} : Described(r.s.heap, r.s.heap[r.s.mw[o]], a[o])
    BY <1>0, <1>4, KeptAsAsked
  <2>2. CASE r.status = "OK"
    <3>1. r.s.objects = s.objects \cup {id} /\ Described(r.s.heap, r.s.heap[r.s.mw[id]], rep)
      BY <1>4, <2>2 DEF Creates
    <3>2. AskedFor(r.s, b)
      BY <1>1, <2>1, <3>1 DEF AskedFor
    <3> QED BY <1>0, <1>4, <2>2, <3>1, <3>2 DEF Consistent, Creates
  <2>3. CASE r.status # "OK"
    <3>1. r.s.objects = s.objects \ {id}
      BY <1>4, <2>3 DEF Creates
    <3>2. AskedFor(r.s, c)
      BY <1>2, <2>1, <3>1 DEF AskedFor
    <3> QED BY <1>0, <1>4, <2>3, <3>1, <3>2 DEF Consistent, Creates
  <2> QED BY <2>2, <2>3
<1>5. Consistent(r.s, IF r.status = "OK" /\ id \in r.s.objects THEN b ELSE c)
  <2>1. \/ Rests(s, id, r)
        \/ \E t : MadeAnew(s, t, id, rep, replace, dds, r)
    BY <1>0, CreateObjectCreates
  <2>2. CASE Rests(s, id, r)
    BY <1>3, <2>2 DEF b, c
  <2>3. ASSUME NEW t, MadeAnew(s, t, id, rep, replace, dds, r)
        PROVE  Consistent(r.s, IF r.status = "OK" /\ id \in r.s.objects THEN b ELSE c)
    BY <1>4, <2>3 DEF MadeAnew
  <2> QED BY <2>1, <2>2, <2>3
<1> QED BY <1>5 DEF b, c

LEMMA DeleteObjectIsConsistent ==
    ASSUME NEW s, NEW a, Consistent(s, a), NEW id,
           NEW r, r = delete_object(s, id)
    PROVE  Consistent(r.s, Restrict(a, r.s.objects))
<1> DEFINE c == Restrict(a, r.s.objects)
<1>0. Sound(s) /\ AskedFor(s, a) /\ s.objects \subseteq Ids
  BY DEF Consistent
<1>1. DOMAIN c = r.s.objects /\ \A o \in r.s.objects : c[o] = a[o]
  BY DEF Restrict
<1> HIDE DEF c
<1>2. CASE id \in s.objects
  <2>1. r.s = delete_object_unlock(s, id)
    BY <1>2 DEF delete_object, Result
  <2>2. Sound(r.s) /\ r.s.objects = s.objects \ {id} /\ Kept(s, r.s, s.objects \ {id})
    BY <1>0, <2>1, DeleteKeepsOthers
  <2>3. AskedFor(r.s, c)
    BY <1>0, <1>1, <2>2, KeptAsAsked DEF AskedFor
  <2> QED BY <1>0, <2>2, <2>3 DEF Consistent, c
<1>3. CASE id \notin s.objects
  <2>1. r.s = s
    BY <1>3 DEF delete_object, Result
  <2>2. AskedFor(s, c)
    BY <1>0, <1>1, <2>1 DEF AskedFor
  <2> QED BY <1>0, <2>1, <2>2 DEF Consistent, c
<1> QED BY <1>2, <1>3

LEMMA ReleaseIsConsistent ==
    ASSUME NEW s, NEW a, Consistent(s, a)
    PROVE  Consistent(release(s), << >>)
<1>1. Sound(release(s)) /\ release(s).objects = {}
  BY ReleaseEmpties DEF Consistent
<1>2. AskedFor(release(s), << >>)
  BY <1>1 DEF AskedFor
<1> QED BY <1>1, <1>2 DEF Consistent

LEMMA BecomesState ==
    ASSUME NEW s, Sound(s), Becomes(s)
    PROVE  State' = s
<1>1. s = [objects |-> s.objects, mw |-> s.mw, heap |-> s.heap,
           topics |-> s.topics, types |-> s.types]
  BY DEF Sound, AlmostSound, AState
<1>2. State' = [objects |-> s.objects, mw |-> s.mw, heap |-> s.heap,
                topics |-> s.topics, types |-> s.types]
  BY DEF Becomes, State
<1> QED BY <1>1, <1>2, Zenon

LEMMA ModesAre ==
    ASSUME NEW id, NEW mode \in Modes(id)
    PROVE  mode.reuse \in BOOLEAN /\ mode.replace \in BOOLEAN
<1>1. CASE id \in objects
  BY <1>1 DEF Modes
<1>2. CASE id \notin objects
  <2>1. mode = [reuse |-> FALSE, replace |-> FALSE]
    BY <1>2 DEF Modes
  <2> QED BY <2>1
<1> QED BY <1>1, <1>2

LEMMA ObjectsIInvInit == ObjectsInit => ObjectsIInv
<1> SUFFICES ASSUME ObjectsInit PROVE Consistent(State, asked)
  BY DEF ObjectsIInv
<1> DEFINE s == State
<1>1. /\ s.objects = {} /\ s.mw = << >> /\ s.heap = << >>
      /\ s.topics = << >> /\ s.types = << >> /\ asked = << >> /\ AState(s)
  BY DEF ObjectsInit, State, AState
<1>2. DOMAIN << >> = {}
  OBVIOUS
<1> HIDE DEF s
<1>3. SoundMaps(s)
  BY <1>1, <1>2 DEF SoundMaps
<1>4. SoundHeap(s.heap)
  BY <1>1, <1>2, FS_EmptySet DEF SoundHeap
<1>5. /\ SoundTopics(s.heap, s.topics) /\ SoundTypes(s.heap, s.types)
      /\ TopicsRegistered(s.heap, s.topics)
  BY <1>1, <1>2 DEF SoundTopics, SoundTypes, TopicsRegistered
<1>6. AskedFor(s, asked)
  BY <1>1, <1>2 DEF AskedFor
<1>7. Consistent(s, asked)
  BY <1>1, <1>3, <1>4, <1>5, <1>6 DEF Consistent, Sound, AlmostSound
<1> QED BY <1>7 DEF s

LEMMA ObjectsIInvNext == ObjectsIInv /\ [ObjectsNext]_objects_vars => ObjectsIInv'
<1> SUFFICES ASSUME Consistent(State, asked), [ObjectsNext]_objects_vars
             PROVE  Consistent(State', asked')
  BY DEF ObjectsIInv
<1> DEFINE s == State
<1>1. ASSUME NEW id \in Usable, NEW rep \in RepsOf[id.kind], NEW mode \in Modes(id),
             NEW dds \in Willing(id), CreateObject(id, rep, mode, dds)
      PROVE  Consistent(State', asked')
  <2>1. id \in Ids /\ mode.reuse \in BOOLEAN /\ mode.replace \in BOOLEAN /\ dds \in BOOLEAN
    BY ModesAre DEF Usable, Willing
  <2>2. PICK r : /\ r = create_object(s, id, rep, mode.reuse, mode.replace, dds)
                 /\ Becomes(r.s)
                 /\ asked' = IF r.status = "OK" /\ id \in r.s.objects THEN With(asked, id, rep)
                             ELSE Restrict(asked, r.s.objects)
    BY <1>1 DEF CreateObject
  <2> HIDE DEF s
  <2>3. Consistent(r.s, asked')
    BY <2>1, <2>2, CreateObjectIsConsistent DEF s
  <2>4. State' = r.s
    BY <2>2, <2>3, BecomesState DEF Consistent
  <2> QED BY <2>3, <2>4
<1>2. ASSUME NEW id \in Ids, DeleteObject(id)
      PROVE  Consistent(State', asked')
  <2> DEFINE r == delete_object(s, id)
  <2>1. Becomes(r.s) /\ asked' = Restrict(asked, r.s.objects)
    BY <1>2 DEF DeleteObject
  <2>2. Consistent(r.s, asked')
    BY <2>1, DeleteObjectIsConsistent
  <2> HIDE DEF r, s
  <2>3. State' = r.s
    BY <2>1, <2>2, BecomesState DEF Consistent
  <2> QED BY <2>2, <2>3
<1>3. ASSUME Release PROVE Consistent(State', asked')
  <2> DEFINE r == release(s)
  <2>1. Becomes(r) /\ asked' = << >>
    BY <1>3 DEF Release
  <2>2. Consistent(r, asked')
    BY <2>1, ReleaseIsConsistent
  <2> HIDE DEF r, s
  <2>3. State' = r
    BY <2>1, <2>2, BecomesState DEF Consistent
  <2> QED BY <2>2, <2>3
<1>4. ASSUME UNCHANGED objects_vars PROVE Consistent(State', asked')
  <2>1. State' = State /\ asked' = asked
    BY <1>4 DEF objects_vars, State
  <2> QED BY <2>1
<1> QED BY <1>1, <1>2, <1>3, <1>4 DEF ObjectsNext

-----------------------------------------------------------------------------
(* The properties                                                          *)

LEMMA StateIs ==
    /\ State.objects = objects /\ State.mw = mw /\ State.heap = heap
    /\ State.topics = topic_register /\ State.types = type_register
  BY DEF State

LEMMA HaveEntities == ObjectsIInv => ObjectsHaveEntities
<1> SUFFICES ASSUME ObjectsIInv PROVE ObjectsHaveEntities
  OBVIOUS
<1>1. SoundMaps(State) /\ SoundHeap(State.heap)
  BY DEF ObjectsIInv, Consistent, Sound, AlmostSound
<1>2. \A u \in DOMAIN heap : heap[u].refs \subseteq DOMAIN heap
  BY <1>1, StateIs DEF SoundHeap, SoundEntity
<1> QED BY <1>1, <1>2, StateIs DEF SoundMaps, ObjectsHaveEntities

LEMMA OneTopic == ObjectsIInv => OneTopicPerName
<1> SUFFICES ASSUME ObjectsIInv,
                    NEW u \in DOMAIN heap, NEW v \in DOMAIN heap,
                    heap[u].kind = "topic", heap[v].kind = "topic", heap[u].name = heap[v].name,
                    ParticipantOf(heap, u) = ParticipantOf(heap, v)
             PROVE  u = v
  BY DEF OneTopicPerName
<1>1. SoundHeap(heap) /\ TopicsRegistered(heap, topic_register)
  BY StateIs DEF ObjectsIInv, Consistent, Sound, AlmostSound
<1> DEFINE p == ParticipantOf(heap, u)
<1>2. p \in heap[u].refs /\ heap[p].kind = "participant" /\ p \in heap[v].refs
  BY <1>1, OneParticipant DEF Owned
<1> HIDE DEF p
<1>3. topic_register[<<p, heap[u].name>>] = u /\ topic_register[<<p, heap[v].name>>] = v
  BY <1>1, <1>2 DEF TopicsRegistered
<1> QED BY <1>3

(* A topic that is there is found after the object was deleted.            *)
LEMMA TopicIsFound ==
    ASSUME NEW s, Sound(s), NEW t, Sound(t), NEW O, Kept(s, t, O), t.objects = O,
           NEW rep, rep.kind \in TopicEnds, ParentOf(rep) \in O,
           NEW i \in O, i \in Ids, i.kind = "topic",
           ParticipantOf(s.heap, s.mw[i]) = ParticipantOf(s.heap, s.mw[ParentOf(rep)]),
           IF rep.fmt = "bin" THEN i.num = rep.topic ELSE s.heap[s.mw[i]].name = rep.name
    PROVE  TopicFor(t, t.mw[ParentOf(rep)], rep) # NoEntity
<1> DEFINE g == s.mw[ParentOf(rep)]
           u == s.mw[i]
           p == ParticipantOf(s.heap, u)
<1>0. /\ SoundHeap(t.heap) /\ SoundMaps(t) /\ TopicsRegistered(t.heap, t.topics)
      /\ SoundHeap(s.heap) /\ SoundMaps(s) /\ SoundTopics(t.heap, t.topics)
  BY DEF Sound, AlmostSound
<1>1. /\ g = t.mw[ParentOf(rep)] /\ u = t.mw[i] /\ ParentOf(rep) \in s.objects /\ i \in s.objects
      /\ \A v \in {g} \cup s.heap[g].refs : v \in DOMAIN t.heap /\ t.heap[v] = s.heap[v]
      /\ \A v \in {u} \cup s.heap[u].refs : v \in DOMAIN t.heap /\ t.heap[v] = s.heap[v]
  BY DEF Kept
<1>2. CASE rep.fmt = "bin"
  <2> DEFINE j == [kind |-> "topic", num |-> rep.topic]
  <2>1. i = j
    BY <1>2, IdsAreIds
  <2>2. j \in DOMAIN t.mw
    BY <1>0, <2>1 DEF SoundMaps
  <2>3. TopicFor(t, t.mw[ParentOf(rep)], rep) = t.mw[i]
    BY <1>2, <2>1, <2>2 DEF TopicFor
  <2>4. t.mw[i] \in DOMAIN t.heap
    BY <1>1
  <2> QED BY <1>0, <2>3, <2>4, AliveIsSome
<1>3. CASE rep.fmt # "bin"
  <2>1. g \in DOMAIN s.heap /\ s.heap[g].kind \in Owned
    BY <1>1, ParentIs DEF TopicEnds, ObjectKinds
  <2>2. u \in DOMAIN s.heap /\ s.heap[u].kind = "topic" /\ s.heap[u].name = rep.name
    BY <1>0, <1>1, <1>3 DEF SoundMaps
  <2> HIDE DEF g, u
  <2>3. p \in s.heap[u].refs /\ s.heap[p].kind = "participant"
    BY <1>0, <2>2, OneParticipant DEF Owned
  <2>4. p = ParticipantOf(s.heap, g)
    BY DEF g, u
  <2>5. p \in s.heap[g].refs
    BY <1>0, <2>1, <2>4, OneParticipant
  <2> HIDE DEF p
  <2>6. /\ g \in DOMAIN t.heap /\ t.heap[g] = s.heap[g]
        /\ u \in DOMAIN t.heap /\ t.heap[u] = s.heap[u]
        /\ t.heap[p] = s.heap[p]
    BY <1>1, <2>3
  <2>7. p = ParticipantOf(t.heap, g)
    BY <1>0, <2>1, <2>3, <2>5, <2>6, OneParticipant
  <2>8. <<p, rep.name>> \in DOMAIN t.topics /\ t.topics[<<p, rep.name>>] = u
    BY <1>0, <2>2, <2>3, <2>6 DEF TopicsRegistered
  <2>9. TopicFor(t, g, rep) = u
    BY <1>3, <2>6, <2>7, <2>8 DEF TopicFor, Lookup
  <2> QED BY <1>0, <1>1, <2>6, <2>9, AliveIsSome
<1> QED BY <1>2, <1>3

LEMMA FailedCreateKeeps == ObjectsIInv => FailedCreateKeepsObjects
<1> DEFINE s == State
<1> SUFFICES ASSUME ObjectsIInv,
                    NEW id \in Usable, NEW rep \in RepsOf[id.kind], NEW mode \in Modes(id),
                    NEW dds \in Willing(id),
                    NEW r, r = create_object(s, id, rep, mode.reuse, mode.replace, dds),
                    r.status \notin {"OK", "OK_MATCHED"}
             PROVE  /\ objects \ {id} = r.s.objects \ {id}
                    /\ \A o \in objects \ {id} : r.s.mw[o] = mw[o] /\ r.s.heap[mw[o]] = heap[mw[o]]
                    /\ ~mode.replace => r.s.objects = objects /\ r.s.mw = mw
                    /\ dds /\ r.status = "ERR_DDS_ERROR"
                          => rep.kind \in {"datawriter", "datareader"} /\ ~TopicIsThere(rep)
  BY DEF FailedCreateKeepsObjects
<1>1. id \in Ids /\ mode.reuse \in BOOLEAN /\ mode.replace \in BOOLEAN /\ dds \in BOOLEAN
  BY ModesAre DEF Usable, Willing
<1>2. Sound(s) /\ s.objects \subseteq Ids
  BY DEF ObjectsIInv, Consistent
<1>3. s.objects = objects /\ s.mw = mw /\ s.heap = heap
  BY StateIs
<1> HIDE DEF s
<1>4. \/ Rests(s, id, r)
      \/ \E t : MadeAnew(s, t, id, rep, mode.replace, dds, r)
  BY <1>1, <1>2, CreateObjectCreates
<1>5. CASE Rests(s, id, r)
  BY <1>3, <1>5 DEF Rests, Refusals
<1>6. ASSUME NEW t, MadeAnew(s, t, id, rep, mode.replace, dds, r)
      PROVE  /\ objects \ {id} = r.s.objects \ {id}
             /\ \A o \in objects \ {id} : r.s.mw[o] = mw[o] /\ r.s.heap[mw[o]] = heap[mw[o]]
             /\ ~mode.replace => r.s.objects = objects /\ r.s.mw = mw
             /\ dds /\ r.status = "ERR_DDS_ERROR"
                   => rep.kind \in {"datawriter", "datareader"} /\ ~TopicIsThere(rep)
  <2>1. r.s.objects = t.objects /\ r.s.mw = t.mw /\ t.objects = s.objects \ {id}
    BY <1>6 DEF MadeAnew, Creates
  <2>2. \A o \in objects \ {id} : r.s.mw[o] = mw[o] /\ r.s.heap[mw[o]] = heap[mw[o]]
    BY <1>3, <1>6 DEF MadeAnew, Kept
  <2>3. ~mode.replace => r.s.objects = objects /\ r.s.mw = mw
    <3>1. ~mode.replace => t = s
      BY <1>6 DEF MadeAnew
    <3> QED BY <1>3, <2>1, <3>1
  <2>4. ASSUME dds, r.status = "ERR_DDS_ERROR"
        PROVE  rep.kind \in {"datawriter", "datareader"} /\ ~TopicIsThere(rep)
    <3>1. /\ Sound(t) /\ Kept(s, t, t.objects)
          /\ rep.kind \in TopicEnds /\ ParentOf(rep) \in t.objects
          /\ TopicFor(t, t.mw[ParentOf(rep)], rep) = NoEntity
      BY <1>6, <2>1, <2>4 DEF MadeAnew
    <3>2. SUFFICES ASSUME TopicIsThere(rep) PROVE FALSE
      BY <3>1 DEF TopicEnds
    <3>3. PICK i \in objects :
            /\ i.kind = "topic"
            /\ ParticipantOf(heap, mw[i]) = ParticipantOf(heap, mw[ParentOf(rep)])
            /\ IF rep.fmt = "bin" THEN i.num = rep.topic ELSE heap[mw[i]].name = rep.name
      BY <3>2 DEF TopicIsThere
    <3>4. rep.kind = id.kind
      BY <1>1, RepIsOfKind
    <3>5. i # id
      BY <3>1, <3>3, <3>4 DEF TopicEnds
    <3>6. i \in t.objects /\ i \in Ids
      BY <1>2, <1>3, <2>1, <3>5
    <3>7. TopicFor(t, t.mw[ParentOf(rep)], rep) # NoEntity
      BY <1>2, <1>3, <3>1, <3>3, <3>6, TopicIsFound
    <3> QED BY <3>1, <3>7
  <2> QED BY <1>3, <2>1, <2>2, <2>3, <2>4
<1> QED BY <1>4, <1>5, <1>6

LEMMA SameMatches == ObjectsIInv => SameRepresentationMatchesWhereAsAsked
<1> SUFFICES ASSUME ObjectsIInv, NEW id \in objects, AsAsked(id)
             PROVE  Matched(State, id, asked[id])
  BY DEF SameRepresentationMatchesWhereAsAsked
<1> DEFINE rep == asked[id]
           u == mw[id]
           e == heap[u]
<1>1. Described(heap, e, rep)
  BY StateIs DEF ObjectsIInv, Consistent, AskedFor
<1>2. e.kind \in ObjectKinds
  <2>1. e.kind = id.kind
    BY StateIs DEF ObjectsIInv, Consistent, Sound, AlmostSound, SoundMaps
  <2>2. id \in Ids /\ id \in State.objects /\ Sound(State)
    BY StateIs DEF ObjectsIInv, Consistent
  <2> QED BY <2>1, <2>2, ThereIsMade
<1>3. rep.kind = e.kind
  BY <1>1 DEF Described
<1>4. /\ rep.kind = "participant" => rep.domain # Override
      /\ rep.kind = "topic" => e.type = rep.type /\ e.qos = rep.qos
      /\ rep.kind \in Services => heap[e.request].type = rep.type /\ heap[e.reply].type = rep.type
  BY DEF AsAsked, Services
<1>5. /\ rep.kind = "participant" => rep.qos = e.qos /\ rep.domain = e.domain
      /\ rep.kind = "topic" => rep.name = e.name
      /\ rep.kind \in TopicEnds
           => rep.qos = e.qos /\ (rep.fmt # "bin" => rep.name = heap[e.topic].name)
      /\ rep.kind \in Services
           => rep.request = heap[e.request].name /\ rep.reply = heap[e.reply].name
  BY <1>1, <1>3, <1>4 DEF Described
<1>6. /\ rep.kind = "participant" => matched_participant(heap, u, rep)
      /\ rep.kind = "topic" => matched_topic(heap, u, rep)
      /\ rep.kind = "datawriter" => matched_datawriter(heap, u, rep)
      /\ rep.kind = "datareader" => matched_datareader(heap, u, rep)
  BY <1>4, <1>5 DEF matched_participant, matched_topic, matched_datawriter, matched_datareader,
                    TopicEnds
<1>7. rep.kind \in Services => matched_requester(heap, u, rep)
  BY <1>4, <1>5 DEF matched_requester
<1>8. matched_publisher(heap, u, rep)
  BY DEF matched_publisher
<1> HIDE DEF rep
<1>9. Matched(State, id, rep)
  <2>1. State.mw[id] = u /\ State.heap = heap
    BY StateIs
  <2> HIDE DEF u, e
  <2>2. CASE rep.kind = "participant"
    BY <1>6, <2>1, <2>2 DEF Matched
  <2>3. CASE rep.kind = "topic"
    BY <1>6, <2>1, <2>3 DEF Matched
  <2>4. CASE rep.kind = "datawriter"
    BY <1>6, <2>1, <2>4 DEF Matched
  <2>5. CASE rep.kind = "datareader"
    BY <1>6, <2>1, <2>5 DEF Matched
  <2>6. CASE rep.kind = "requester"
    BY <1>7, <2>1, <2>6 DEF Matched, Services
  <2>7. CASE rep.kind = "replier"
    BY <1>7, <2>1, <2>7 DEF Matched, Services, matched_replier
  <2>8. CASE rep.kind \in {"publisher", "subscriber"}
    BY <1>8, <2>1, <2>8 DEF Matched
  <2> QED BY <1>2, <1>3, <2>2, <2>3, <2>4, <2>5, <2>6, <2>7, <2>8 DEF ObjectKinds
<1> QED BY <1>9 DEF rep

(* Objects, entities and registers stay consistent through every sequence  *)
(* of creations, replacements and deletions, for any ids, names, types and *)
(* formats, and whatever DDS refuses: objects_ and the middleware's maps   *)
(* hold the same ids, no participant has two topics of one name, a         *)
(* creation that fails harms nothing else and has a reason, and the same   *)
(* representation is matched where the entity is as it was asked for       *)
(* (ProxyClient::create_object, FastDDSMiddleware, FastDDSParticipant).    *)
THEOREM ObjectsStayConsistent == ObjectsSpec => []ObjectsInv
<1>1. ObjectsInit => ObjectsIInv
  BY ObjectsIInvInit
<1>2. ObjectsIInv /\ [ObjectsNext]_objects_vars => ObjectsIInv'
  BY ObjectsIInvNext
<1>3. ObjectsIInv => ObjectsInv
  BY HaveEntities, OneTopic, FailedCreateKeeps, SameMatches DEF ObjectsInv
<1> QED BY <1>1, <1>2, <1>3, PTL DEF ObjectsSpec
==============================================================================
