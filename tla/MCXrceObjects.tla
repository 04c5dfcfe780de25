----------------------------- MODULE MCXrceObjects -----------------------------
(* Instances of XrceObjects: a client that publishes, one that subscribes, *)
(* one with two topics, which may share an entity, ones with services, and *)
(* one that asks for an object of a kind that is still to do.              *)
EXTENDS XrceObjects, TLC

Id(k, n) == [kind |-> k, num |-> n]

Participant == Id("participant", 1)
Publishes == {Participant, Id("topic", 1), Id("publisher", 1), Id("datawriter", 1)}
Subscribes == {Participant, Id("topic", 1), Id("subscriber", 1), Id("datareader", 1)}
Shares == {Participant, Id("topic", 1), Id("topic", 2)}
Requests == {Participant, Id("topic", 1), Id("requester", 1)}
Replies == {Participant, Id("replier", 1)}

AsksForMore == {Id("application", 1)}

AllUses == {Shares, Requests, Replies, Publishes, Subscribes, AsksForMore}

NamesAndTypes == Permutations(Names) \union Permutations(Types)

(* One format for each kind: writers name their topic as XML does, readers *)
(* as the binary form does.                                                *)
SomeFormats ==
    [k \in {"participant", "topic", "publisher", "subscriber", "datawriter", "datareader",
            "requester", "replier"} |->
        CASE k = "participant" -> {"ref"}
          [] k \in {"topic", "publisher", "subscriber"} -> {"xml"}
          [] k = "datawriter" -> {"xml"}
          [] OTHER -> {"bin"}]
================================================================================
