-------------------------------- MODULE EndToEnd --------------------------------
(***************************************************************************)
(* From the cluster to the page: HandlerDeployments together with the map  *)
(* in the browser of each subscriber.  What a handler sends arrives in     *)
(* order, and is reduced into the map as it arrives; a stream that starts  *)
(* over clears the map.                                                    *)
(***************************************************************************)
EXTENDS HandlerDeployments, DeploymentsMap

VARIABLES
    map,         \* deploymentsMap of the client of each subscription
    toldDeleted  \* history: the deployments it was sent a DELETED event of, on this stream

pageVars == <<vars, map, toldDeleted>>

Tell(s, e) ==
    toldDeleted' = [toldDeleted EXCEPT ![s] =
                        IF e.type = "DELETED" THEN @ \cup {e.dep} ELSE @]

\* MUTANT: the entry of a deleted deployment stays in the map.
ReceiveAll(s, e) ==
    /\ map' = [map EXCEPT ![s] = Reduce(@, Change("MODIFIED", e.dep))]
    /\ Tell(s, e)

Receive(s, e) ==
    /\ map' = [map EXCEPT ![s] = Reduce(@, e)]
    /\ Tell(s, e)

-----------------------------------------------------------------------------
PageInit ==
    /\ Init
    /\ map = [s \in Subs |-> <<>>]
    /\ toldDeleted = [s \in Subs |-> {}]

Open(s) ==
    /\ Subscribe(s)
    /\ map' = [map EXCEPT ![s] = <<>>]
    /\ toldDeleted' = [toldDeleted EXCEPT ![s] = {}]

ReceiveInitial(s) ==
    /\ SendInitial(s)
    /\ \E d \in snapshot[s] \ snapshot'[s] : Receive(s, Change("ADDED", d))

ReceiveChange(s) == SendUpdate(s) /\ Receive(s, Head(chan[s]))

Unseen ==
    /\ \/ Cluster
       \/ Watcher
       \/ Streamer
       \/ \E s \in Subs :
            \/ SendInitialFails(s)
            \/ ReceiveUpdate(s)
            \/ SendUpdateFails(s)
            \/ RequestContextDone(s)
            \/ ChannelDrained(s)
            \/ ClientLeaves(s)
            \/ RemoveChannel(s)
    /\ UNCHANGED <<map, toldDeleted>>

PageNext ==
    \/ \E s \in Subs : Open(s) \/ ReceiveInitial(s) \/ ReceiveChange(s)
    \/ Unseen

PageSpec == PageInit /\ [][PageNext]_pageVars

-----------------------------------------------------------------------------
\* Everything that was sent to subscription s has arrived, and nothing is left.
Drained(s) == hpc[s] = "open" /\ snapshot[s] = {} /\ chan[s] = <<>>

\* When nothing is under way any more, every deployment of the cluster is in
\* the map in its latest version, unless its event found the channel full; and
\* the page of that name shows it.  The page may show an older deployment of
\* the same name instead, but only one of whose deletion this stream never
\* told: the event was lost with a watch connection, or was in the cache
\* before the client came and was sent as ADDED, or found the channel full.
PageIsCurrent ==
    Settled =>
        \A s \in Subs : \A k \in Existing :
            LET found == FindByName(map[s], k) IN
            Drained(s) /\ k \notin missed[s] =>
                /\ objects[k] \in ToSet(map[s])
                /\ \/ found = objects[k]
                   \/ /\ found.uid < objects[k].uid
                      /\ \A d \in toldDeleted[s] : d.uid # found.uid
=============================================================================
