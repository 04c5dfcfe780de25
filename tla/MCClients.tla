----------------------------- MODULE MCClients -----------------------------
(***************************************************************************)
(* ClientLifecycle in three settings, each of which admits the packets of  *)
(* some keys, sessions and endpoints only: two clients that meet at two    *)
(* endpoints, one that is watched for its liveliness, and two that the     *)
(* heartbeat thread visits in turn.  Silence is told apart for clients     *)
(* with hard liveliness only: the heartbeat thread does nothing about that *)
(* of others.                                                              *)
(***************************************************************************)
EXTENDS ClientLifecycle

VARIABLE setting

OneEndpoint == {CHOOSE e \in Endpoints : TRUE}

Settings ==
    [sessions   |-> [keys |-> {1, 2}, sessions |-> {129, 130}, endpoints |-> Endpoints, tries |-> {0}],
     liveliness |-> [keys |-> {3}, sessions |-> {1, 129}, endpoints |-> OneEndpoint, tries |-> {2, 255}],
     rounds     |-> [keys |-> {2, 3}, sessions |-> {1}, endpoints |-> OneEndpoint, tries |-> {2}]]

\* What the setting admits.
Admitted ==
    LET s == Settings[setting]
    IN /\ proc.key \in s.keys \cup {None}
       /\ proc.source \in s.endpoints \cup {None}
       /\ proc.session \in s.sessions \cup {0}
       /\ \A p \in DOMAIN proxies : proxies[p].stale => proxies[p].hard

\* Two proxies of one client differ in their tries: the setting fixes what new
\* ones begin with.
TriesAdmitted ==
    \A p \in DOMAIN proxies' \ DOMAIN proxies : proxies'[p].tries \in Settings[setting].tries

MCClientsInit == setting \in DOMAIN Settings /\ ClientsInit

MCClientsNext == ClientsNext /\ UNCHANGED setting /\ Admitted' /\ TriesAdmitted

mc_vars == <<setting, clients_vars>>

\* Both threads go on, as in ClientsFairSpec.
MCClientsSpec ==
    /\ MCClientsInit /\ [][MCClientsNext]_mc_vars
    /\ WF_clients_vars(Proceed) /\ WF_clients_vars(Heartbeat)
=============================================================================
