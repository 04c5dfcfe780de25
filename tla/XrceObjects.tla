------------------------------ MODULE XrceObjects ------------------------------
(***************************************************************************)
(* The objects a client has in the Agent: ProxyClient::objects_, the maps  *)
(* of the Fast DDS middleware, and the entities these maps hold.           *)
(*                                                                         *)
(* An entity is kept by shared pointers: a topic keeps its type and its    *)
(* participant, a writer its publisher and its topic.  refs is everything  *)
(* an entity keeps, directly or not; it never changes, so what the maps    *)
(* do not reach is destroyed.  The participants' registers of topics and   *)
(* types by name hold weak pointers, and the destructors erase the names.  *)
(*                                                                         *)
(* ProxyClient::mtx_ is held through a creation and a deletion, so each is *)
(* one step.  Whether DDS makes an entity it is asked for is chosen        *)
(* freely; it always makes a topic, which the code takes for granted.      *)
(* What a representation says is kept, its text is not: a name, a type, a  *)
(* domain, a quality of service.                                           *)
(***************************************************************************)
EXTENDS Naturals, FiniteSets, Functions

CONSTANTS
    Uses,          \* sets of object ids, [kind, num], that a client may use
    Formats,       \* the formats tried of each kind: by reference, XML, binary
    Names, Types,  \* of topics
    Qos,           \* qualities of service of participants and endpoints
    TopicQos,      \* of topics
    DefaultTopicQos,  \* that of a topic nothing is said of: in binary, of services
    Domains,       \* domain ids, the override among them
    Override,      \* UXR_CLIENT_DOMAIN_ID_TO_OVERRIDE_WITH_ENV
    AgentDomain,   \* agent_domain_id_, from the environment
    ProfileDomain, \* the domain of the profile a reference names
    MaxEntities    \* bound on the entities alive at once, orphans included

ObjectKinds == {"participant", "topic", "publisher", "subscriber",
                "datawriter", "datareader", "requester", "replier"}

(* The kinds of objects that are still to do.                              *)
TodoKinds == {"application", "qosprofile", "datatype"}

ASSUME UsesAssumption == Uses \subseteq SUBSET [kind : ObjectKinds \union TodoKinds, num : Nat]
ASSUME DomainAssumption == AgentDomain # Override /\ MaxEntities \in Nat

VARIABLES
    objects,       \* the keys of objects_
    mw,            \* the middleware's maps: the entity of an id
    heap,          \* the entities that exist
    topic_register, type_register,   \* <<participant, name>> -> entity
    asked          \* the representation each object was created from

objects_vars == <<objects, mw, heap, topic_register, type_register, asked>>

(* The value that a call works on.                                         *)
State == [objects |-> objects, mw |-> mw, heap |-> heap,
          topics |-> topic_register, types |-> type_register]

Ids == UNION Uses
Kinds == {i.kind : i \in Ids}
NumsOf(kind) == {i.num : i \in {j \in Ids : j.kind = kind}}

(***************************************************************************)
(* Representations.                                                        *)
(***************************************************************************)
ParentKind ==
    [topic |-> "participant", publisher |-> "participant", subscriber |-> "participant",
     requester |-> "participant", replier |-> "participant",
     datawriter |-> "publisher", datareader |-> "subscriber"]

RepsOf ==
    [k \in Kinds |->
       IF k = "participant" THEN [kind : {k}, fmt : Formats[k], domain : Domains, qos : Qos]
       ELSE IF k \in TodoKinds THEN [kind : {k}]
       ELSE LET parents == NumsOf(ParentKind[k])
            IN  CASE k = "topic" ->
                       [kind : {k}, fmt : Formats[k] \ {"bin"}, parent : parents,
                        name : Names, type : Types, qos : TopicQos]
                       \union [kind : {k}, fmt : Formats[k] \intersect {"bin"}, parent : parents,
                               name : Names, type : Types, qos : {DefaultTopicQos}]
                  [] k \in {"publisher", "subscriber"} ->
                       [kind : {k}, fmt : Formats[k] \ {"ref"}, parent : parents]
                  [] k \in {"datawriter", "datareader"} ->
                       [kind : {k}, fmt : Formats[k] \ {"bin"}, parent : parents,
                        name : Names, qos : Qos]
                       \union [kind : {k}, fmt : Formats[k] \intersect {"bin"}, parent : parents,
                               topic : NumsOf("topic"), qos : Qos]
                  [] OTHER -> [kind : {k}, fmt : Formats[k], parent : parents,
                               request : Names, reply : Names, type : Types]]

ParentOf(rep) == [kind |-> ParentKind[rep.kind], num |-> rep.parent]

(***************************************************************************)
(* Entities.                                                               *)
(***************************************************************************)
With(f, k, v) == [x \in DOMAIN f \union {k} |-> IF x = k THEN v ELSE f[x]]

(* Entities are known by their kind and a number.                          *)
FreshUid(h, kind) ==
    LET used == {u[2] : u \in {v \in DOMAIN h : v[1] = kind}}
    IN  <<kind, CHOOSE n \in 1 .. Cardinality(used) + 1 : n \notin used>>

NoEntity == <<"none", 0>>

NewEntity(s, e) == [s EXCEPT !.heap = With(@, FreshUid(@, e.kind), e)]

Keeps(h, us) == UNION {{u} \union h[u].refs : u \in us}

(* find_local_topic and find_local_type: a name whose weak pointer has     *)
(* expired is as good as absent.                                           *)
Lookup(h, register, p, name) ==
    IF <<p, name>> \in DOMAIN register /\ register[<<p, name>>] \in DOMAIN h
    THEN register[<<p, name>>] ELSE NoEntity

(* The destructors: what no map reaches goes, with its name.               *)
Collect(s) ==
    LET live == Keeps(s.heap, Range(s.mw))
        Named(reg) == Restrict(reg, {k \in DOMAIN reg : reg[k] \in live})
    IN  [s EXCEPT !.heap = Restrict(@, live), !.topics = Named(@), !.types = Named(@)]

FastDDSParticipant(domain, qos) ==
    [kind |-> "participant", refs |-> {}, domain |-> domain, qos |-> qos]
FastDDSType(p, type) == [kind |-> "type", refs |-> {p}, name |-> type]
FastDDSTopic(p, t, name, type, qos) ==
    [kind |-> "topic", refs |-> {p, t}, name |-> name, type |-> type, qos |-> qos]
FastDDSPublisher(p) == [kind |-> "publisher", refs |-> {p}]
FastDDSSubscriber(p) == [kind |-> "subscriber", refs |-> {p}]
FastDDSDataWriter(h, publisher, t, rep) ==
    [kind |-> "datawriter", refs |-> Keeps(h, {publisher, t}), topic |-> t, qos |-> rep.qos]
FastDDSDataReader(h, subscriber, t, rep) ==
    [kind |-> "datareader", refs |-> Keeps(h, {subscriber, t}), topic |-> t, qos |-> rep.qos]
FastDDSRequester(h, q, r) ==
    [kind |-> "requester", refs |-> Keeps(h, {q, r}), request |-> q, reply |-> r]
FastDDSReplier(h, q, r) ==
    [kind |-> "replier", refs |-> Keeps(h, {q, r}), request |-> q, reply |-> r]

ParticipantOf(h, u) == CHOOSE p \in Keeps(h, {u}) : h[p].kind = "participant"

(***************************************************************************)
(* The middleware.  Each operator returns a state and an entity, NoEntity  *)
(* if it was not made.                                                     *)
(***************************************************************************)
Made(s, e) == [s |-> NewEntity(s, e), u |-> FreshUid(s.heap, e.kind)]
NotMade(s) == [s |-> s, u |-> NoEntity]

create_participant_by(s, rep, dds) ==
    LET domain == IF rep.domain = Override THEN AgentDomain ELSE rep.domain
    IN  IF dds THEN Made(s, FastDDSParticipant(domain, rep.qos)) ELSE NotMade(s)

register_local_type(s, p, type) ==
    LET m == Made(s, FastDDSType(p, type))
    IN  IF <<p, type>> \in DOMAIN s.types THEN NotMade(s)
        ELSE [m EXCEPT !.s.types = With(@, <<p, type>>, m.u)]

find_type(s, p, type) ==
    LET u == Lookup(s.heap, s.types, p, type)
    IN  IF u # NoEntity THEN [s |-> s, u |-> u] ELSE register_local_type(s, p, type)

(* A plausible bug: topics are made without a look at the register.        *)
make_topic_unshared(s, p, name, type, qos) ==
    LET t == find_type(s, p, type)
        m == Made(t.s, FastDDSTopic(p, t.u, name, type, qos))
    IN  [m EXCEPT !.s.topics = With(@, <<p, name>>, m.u)]

(* A topic of that name is shared, whatever its type and quality of        *)
(* service; the first to ask decides them.                                 *)
make_topic(s, p, name, type, qos) ==
    LET u == Lookup(s.heap, s.topics, p, name)
        t == find_type(s, p, type)
        m == Made(t.s, FastDDSTopic(p, t.u, name, type, qos))
    IN  CASE u # NoEntity -> [s |-> s, u |-> u]
          [] u = NoEntity /\ (t.u = NoEntity \/ <<p, name>> \in DOMAIN s.topics) -> NotMade(s)
          [] OTHER -> [m EXCEPT !.s.topics = With(@, <<p, name>>, m.u)]

create_topic_by(s, p, rep) == make_topic(s, p, rep.name, rep.type, rep.qos)

create_publisher_by(s, p, rep, dds) ==
    IF dds THEN Made(s, FastDDSPublisher(p)) ELSE NotMade(s)

create_subscriber_by(s, p, rep, dds) ==
    IF dds THEN Made(s, FastDDSSubscriber(p)) ELSE NotMade(s)

(* By reference and XML the topic is the participant's of that name, in    *)
(* binary the client's topic of that id.                                   *)
TopicFor(s, group, rep) ==
    IF rep.fmt = "bin"
    THEN LET i == [kind |-> "topic", num |-> rep.topic]
         IN  IF i \in DOMAIN s.mw THEN s.mw[i] ELSE NoEntity
    ELSE Lookup(s.heap, s.topics, ParticipantOf(s.heap, group), rep.name)

create_datawriter_by(s, publisher, rep, dds) ==
    LET t == TopicFor(s, publisher, rep)
    IN  IF t # NoEntity /\ dds THEN Made(s, FastDDSDataWriter(s.heap, publisher, t, rep))
        ELSE NotMade(s)

create_datareader_by(s, subscriber, rep, dds) ==
    LET t == TopicFor(s, subscriber, rep)
    IN  IF t # NoEntity /\ dds THEN Made(s, FastDDSDataReader(s.heap, subscriber, t, rep))
        ELSE NotMade(s)

(* The topics of requests and of replies, one after the other.             *)
make_topics(s, p, rep) ==
    LET q == make_topic(s, p, rep.request, rep.type, DefaultTopicQos)
        r == make_topic(q.s, p, rep.reply, rep.type, DefaultTopicQos)
    IN  [s |-> r.s, q |-> q.u, r |-> r.u]

create_requester_by(s, p, rep, dds) ==
    LET t == make_topics(s, p, rep)
    IN  IF NoEntity \in {t.q, t.r} \/ ~dds THEN NotMade(s)
        ELSE Made(t.s, FastDDSRequester(t.s.heap, t.q, t.r))

create_replier_by(s, p, rep, dds) ==
    LET t == make_topics(s, p, rep)
    IN  IF NoEntity \in {t.q, t.r} \/ ~dds THEN NotMade(s)
        ELSE Made(t.s, FastDDSReplier(t.s.heap, t.q, t.r))

(***************************************************************************)
(* matched: whether an object is what a representation describes.          *)
(***************************************************************************)
(* The domain is compared as it was given, not as it was used; by          *)
(* reference the same number stands for the profile's domain.  Of a        *)
(* participant's quality of service the name is compared.                  *)
matched_participant(h, u, rep) ==
    /\ rep.qos = h[u].qos
    /\ h[u].domain = IF rep.fmt = "ref" /\ rep.domain = Override THEN ProfileDomain ELSE rep.domain

matched_topic(h, u, rep) ==
    rep.qos = h[u].qos /\ rep.name = h[u].name /\ rep.type = h[u].type

matched_publisher(h, u, rep) == TRUE

(* The topic counts by reference and in XML, in binary it does not.        *)
matched_datawriter(h, u, rep) ==
    rep.qos = h[u].qos /\ (rep.fmt # "bin" => rep.name = h[h[u].topic].name)

matched_datareader(h, u, rep) ==
    rep.qos = h[u].qos /\ (rep.fmt # "bin" => rep.name = h[h[u].topic].name)

matched_requester(h, u, rep) ==
    /\ <<rep.request, rep.type>> = <<h[h[u].request].name, h[h[u].request].type>>
    /\ <<rep.reply, rep.type>> = <<h[h[u].reply].name, h[h[u].reply].type>>

matched_replier(h, u, rep) == matched_requester(h, u, rep)

Matched(s, id, rep) ==
    LET u == s.mw[id]
    IN  CASE rep.kind = "participant" -> matched_participant(s.heap, u, rep)
          [] rep.kind = "topic"       -> matched_topic(s.heap, u, rep)
          [] rep.kind = "datawriter"  -> matched_datawriter(s.heap, u, rep)
          [] rep.kind = "datareader"  -> matched_datareader(s.heap, u, rep)
          [] rep.kind = "requester"   -> matched_requester(s.heap, u, rep)
          [] rep.kind = "replier"     -> matched_replier(s.heap, u, rep)
          [] OTHER                    -> matched_publisher(s.heap, u, rep)

(***************************************************************************)
(* ProxyClient.  An operator returns the state and the result's status.    *)
(***************************************************************************)
Result(s, status) == [s |-> s, status |-> status]

(* The entity is put in the middleware's map, the object in objects_.      *)
Emplace(id, m) ==
    IF m.u = NoEntity THEN Result(Collect(m.s), "ERR_DDS_ERROR")
    ELSE Result([m.s EXCEPT !.mw = With(@, id, m.u), !.objects = @ \union {id}], "OK")

create_participant(s, rep, dds) == create_participant_by(s, rep, dds)
create_topic(s, rep, dds) == create_topic_by(s, s.mw[ParentOf(rep)], rep)
create_publisher(s, rep, dds) == create_publisher_by(s, s.mw[ParentOf(rep)], rep, dds)
create_subscriber(s, rep, dds) == create_subscriber_by(s, s.mw[ParentOf(rep)], rep, dds)
create_datawriter(s, rep, dds) == create_datawriter_by(s, s.mw[ParentOf(rep)], rep, dds)
create_datareader(s, rep, dds) == create_datareader_by(s, s.mw[ParentOf(rep)], rep, dds)
create_requester(s, rep, dds) == create_requester_by(s, s.mw[ParentOf(rep)], rep, dds)
create_replier(s, rep, dds) == create_replier_by(s, s.mw[ParentOf(rep)], rep, dds)

(* An object is made on its parent, which must be there.  Of the kinds     *)
(* still to do none is made, and the answer is that all went well.         *)
create(s, id, rep, dds) ==
    IF rep.kind \in TodoKinds THEN Result(s, "OK")
    ELSE IF rep.kind # "participant" /\ ParentOf(rep) \notin s.objects
    THEN Result(s, "ERR_UNKNOWN_REFERENCE")
    ELSE Emplace(id, CASE rep.kind = "participant" -> create_participant(s, rep, dds)
                       [] rep.kind = "topic"       -> create_topic(s, rep, dds)
                       [] rep.kind = "publisher"   -> create_publisher(s, rep, dds)
                       [] rep.kind = "subscriber"  -> create_subscriber(s, rep, dds)
                       [] rep.kind = "datawriter"  -> create_datawriter(s, rep, dds)
                       [] rep.kind = "datareader"  -> create_datareader(s, rep, dds)
                       [] rep.kind = "requester"   -> create_requester(s, rep, dds)
                       [] rep.kind = "replier"     -> create_replier(s, rep, dds))

(* Erasing an object runs its destructor, which erases its entity from the *)
(* middleware's map; the entity lives on while others keep it.  Objects    *)
(* that were created on it stay.                                           *)
delete_object_unlock(s, id) ==
    Collect([s EXCEPT !.objects = @ \ {id}, !.mw = Restrict(@, DOMAIN @ \ {id})])

(* An object that is there is matched first if reuse is set; replace       *)
(* deletes it and creates it anew.                                         *)
create_object(s, id, rep, reuse, replace, dds) ==
    LET there == id \in s.objects
    IN  CASE there /\ reuse /\ Matched(s, id, rep)              -> Result(s, "OK_MATCHED")
          [] there /\ reuse /\ ~Matched(s, id, rep) /\ ~replace -> Result(s, "ERR_MISMATCH")
          [] there /\ ~reuse /\ ~replace                        -> Result(s, "ERR_ALREADY_EXISTS")
          [] OTHER -> create(IF there THEN delete_object_unlock(s, id) ELSE s, id, rep, dds)

delete_object(s, id) ==
    IF id \in s.objects THEN Result(delete_object_unlock(s, id), "OK")
    ELSE Result(s, "ERR_UNKNOWN_REFERENCE")

release(s) == Collect([s EXCEPT !.objects = {}, !.mw = << >>])

(***************************************************************************)
(* The client's calls.                                                     *)
(***************************************************************************)
ObjectsInit ==
    /\ objects = {}
    /\ mw = << >>
    /\ heap = << >>
    /\ topic_register = << >>
    /\ type_register = << >>
    /\ asked = << >>

Becomes(s) ==
    /\ objects' = s.objects
    /\ mw' = s.mw
    /\ heap' = s.heap
    /\ topic_register' = s.topics
    /\ type_register' = s.types

CreateObject(id, rep, mode, dds) ==
    \E r \in {create_object(State, id, rep, mode.reuse, mode.replace, dds)} :
        /\ Cardinality(DOMAIN r.s.heap) <= MaxEntities
        /\ Becomes(r.s)
        /\ asked' = IF r.status = "OK" /\ id \in r.s.objects THEN With(asked, id, rep)
                    ELSE Restrict(asked, r.s.objects)

DeleteObject(id) ==
    LET r == delete_object(State, id)
    IN  Becomes(r.s) /\ asked' = Restrict(asked, r.s.objects)

Release == Becomes(release(State)) /\ asked' = << >>

(* The creation mode counts only for an object that is there.              *)
Modes(id) == IF id \in objects THEN [reuse : BOOLEAN, replace : BOOLEAN]
             ELSE {[reuse |-> FALSE, replace |-> FALSE]}

(* Nothing is chosen where DDS makes what it is asked for.                 *)
Willing(id) == IF id.kind = "topic" THEN {TRUE} ELSE BOOLEAN

(* A client has the objects of one of the sets of Uses.                    *)
Usable == {id \in Ids : \E use \in Uses : objects \union {id} \subseteq use}

ObjectsNext ==
    \/ \E id \in Usable : \E rep \in RepsOf[id.kind], mode \in Modes(id), dds \in Willing(id) :
          CreateObject(id, rep, mode, dds)
    \/ \E id \in Ids : DeleteObject(id)
    \/ Release

ObjectsSpec == ObjectsInit /\ [][ObjectsNext]_objects_vars

--------------------------------------------------------------------------------
(***************************************************************************)
(* Properties.  Those of the calls hold of every call that could be made   *)
(* in the states reached.                                                  *)
(***************************************************************************)
(* objects_ and the middleware's maps, which creations, replacements and   *)
(* destructors change one after the other, hold the same ids, and the      *)
(* entity of an object is alive and of its kind (ProxyClient, the          *)
(* destructors of the objects, FastDDSMiddleware).                         *)
ObjectsHaveEntities ==
    /\ objects = DOMAIN mw
    /\ \A id \in objects : mw[id] \in DOMAIN heap /\ heap[mw[id]].kind = id.kind
    /\ \A u \in DOMAIN heap : heap[u].refs \subseteq DOMAIN heap

(* A participant never has two topics of one name, however topics are      *)
(* shared, deleted while writers keep them, and created again              *)
(* (create_topic, FastDDSTopic::~FastDDSTopic).                            *)
OneTopicPerName ==
    \A u, v \in DOMAIN heap :
        (heap[u].kind = "topic" /\ heap[v].kind = "topic" /\ heap[u].name = heap[v].name
            /\ ParticipantOf(heap, u) = ParticipantOf(heap, v)) => u = v

(* The topic of the representation is an object of the client on the       *)
(* participant of its publisher or subscriber.                             *)
TopicIsThere(rep) ==
    LET p == ParticipantOf(heap, mw[ParentOf(rep)])
    IN  \E id \in objects :
          /\ id.kind = "topic"
          /\ ParticipantOf(heap, mw[id]) = p
          /\ IF rep.fmt = "bin" THEN id.num = rep.topic ELSE heap[mw[id]].name = rep.name

(* A creation that fails has a reason, and harms nothing else.  With DDS   *)
(* willing, the parent there and the id free, only an endpoint without a   *)
(* topic fails: no earlier sequence of creations and deletions makes a     *)
(* name unusable (create_topic, the registers of FastDDSParticipant).      *)
(* Every other object stays as it was, and without replace the object      *)
(* itself too (ProxyClient::create_object).                                *)
FailedCreateKeepsObjects ==
    \A id \in Usable : \A rep \in RepsOf[id.kind], mode \in Modes(id), dds \in Willing(id) :
        \A r \in {create_object(State, id, rep, mode.reuse, mode.replace, dds)} :
            r.status \notin {"OK", "OK_MATCHED"} =>
              /\ objects \ {id} = r.s.objects \ {id}
              /\ \A o \in objects \ {id} : r.s.mw[o] = mw[o] /\ r.s.heap[mw[o]] = heap[mw[o]]
              /\ ~mode.replace => r.s.objects = objects /\ r.s.mw = mw
              /\ dds /\ r.status = "ERR_DDS_ERROR"
                    => rep.kind \in {"datawriter", "datareader"} /\ ~TopicIsThere(rep)

(* An entity is as it was asked for: a domain that is not overridden, and  *)
(* topics that have the type, and a topic the quality of service, given    *)
(* for them.  One that was found under its name may have others.           *)
AsAsked(id) ==
    LET rep == asked[id]  e == heap[mw[id]]
    IN  CASE rep.kind = "participant" -> rep.domain # Override
          [] rep.kind = "topic" -> e.type = rep.type /\ e.qos = rep.qos
          [] rep.kind \in {"requester", "replier"} ->
                heap[e.request].type = rep.type /\ heap[e.reply].type = rep.type
          [] OTHER -> TRUE

(* The same representation again is matched wherever the entity is as it   *)
(* was asked for: topics that were deleted and made anew, or parents that  *)
(* were replaced, change nothing (matched of the objects, match_from of    *)
(* the entities).                                                          *)
SameRepresentationMatchesWhereAsAsked ==
    \A id \in objects : AsAsked(id) => Matched(State, id, asked[id])

(* Objects, entities and registers are consistent after every sequence of  *)
(* creations, replacements and deletions, and so are the answers to the    *)
(* next one.                                                               *)
ObjectsInv ==
    /\ ObjectsHaveEntities /\ OneTopicPerName /\ FailedCreateKeepsObjects
    /\ SameRepresentationMatchesWhereAsAsked
================================================================================
