--------------------------- MODULE HandlerDeployments ---------------------------
(***************************************************************************)
(* The deployment stream of the backend: the API server (K8sWatch), the    *)
(* watcher goroutine (DeploymentWatcher), the streamer goroutine and its   *)
(* subscribers (DeploymentWatcherModule), and the HTTP handlers that       *)
(* subscribe, HandlerDeployments.WatchDeployments of                       *)
(* backend/internal/handler_deployments.go.  A handler sends what was      *)
(* cached when it subscribed as ADDED events, in the map's random order,   *)
(* and then every event of its channel, until its client has gone, a       *)
(* write fails or the channel is closed and drained.                       *)
(***************************************************************************)
EXTENDS DeploymentWatcherModule

VARIABLES
    hpc,       \* the handler of each slot: "idle", "open" or "returned"
    snapshot,  \* the cached deployments it has still to send
    shown,     \* the last event its client was sent, for each key
    gone       \* the slots whose client has left (the request context)

handlerVars == <<hpc, snapshot, shown, gone>>

vars == <<k8sVars, watcherVars, moduleVars, handlerVars>>

NothingShown == [k \in Keys |-> NoEvent]

-----------------------------------------------------------------------------
HandlerInit ==
    /\ hpc = [s \in Subs |-> "idle"]
    /\ snapshot = [s \in Subs |-> {}]
    /\ shown = [s \in Subs |-> NothingShown]
    /\ gone = {}

\* MUTANT: the handler only streams what changes from now on.
SubscribeWithoutSnapshot(s) ==
    /\ hpc[s] = "idle"
    /\ Register(s)
    /\ hpc' = [hpc EXCEPT ![s] = "open"]
    /\ UNCHANGED <<snapshot, shown, gone>>

\* A request arrives and the handler calls Watch.
Subscribe(s) ==
    /\ hpc[s] = "idle"
    /\ Register(s)
    /\ hpc' = [hpc EXCEPT ![s] = "open"]
    /\ snapshot' = [snapshot EXCEPT ![s] = CloneDeployments]
    /\ UNCHANGED <<shown, gone>>

Show(s, e) == shown' = [shown EXCEPT ![s][e.dep.key] = e]

Return(s) ==
    /\ hpc' = [hpc EXCEPT ![s] = "returned"]
    /\ UNCHANGED <<k8sVars, watcherVars, moduleVars, snapshot, shown, gone>>

\* sendInitialDeployments writes the next cached deployment.
SendInitial(s) ==
    /\ hpc[s] = "open"
    /\ \E d \in snapshot[s] :
        /\ Show(s, Change("ADDED", d))
        /\ snapshot' = [snapshot EXCEPT ![s] = @ \ {d}]
    /\ UNCHANGED <<k8sVars, watcherVars, moduleVars, hpc, gone>>

\* A write fails, at the latest after the server's write timeout.
SendInitialFails(s) ==
    /\ hpc[s] = "open"
    /\ snapshot[s] # {}
    /\ Return(s)

\* MUTANT: updates are written while the snapshot is still being sent.
StreamingAtOnce(s) == hpc[s] = "open" /\ s \notin taken

\* streamDeploymentUpdates is at its select.
Streaming(s) == hpc[s] = "open" /\ snapshot[s] = {} /\ s \notin taken

\* The select receives the next event of the channel.
ReceiveUpdate(s) ==
    /\ Streaming(s)
    /\ chan[s] # <<>>
    /\ taken' = taken \cup {s}
    /\ UNCHANGED <<k8sVars, watcherVars, spc, current, deployments, channels, chan,
                   closed, missed, handlerVars>>

\* It is writing the event it has received.
Writing(s) == hpc[s] = "open" /\ s \in taken

\* The write succeeds.
SendUpdate(s) ==
    /\ Writing(s)
    /\ Show(s, Head(chan[s]))
    /\ chan' = [chan EXCEPT ![s] = Tail(@)]
    /\ taken' = taken \ {s}
    /\ UNCHANGED <<k8sVars, watcherVars, spc, current, deployments, channels,
                   closed, missed, hpc, snapshot, gone>>

\* MUTANT: a failed write is skipped and the stream goes on.
SendUpdateSkipped(s) ==
    /\ Writing(s)
    /\ chan' = [chan EXCEPT ![s] = Tail(@)]
    /\ taken' = taken \ {s}
    /\ UNCHANGED <<k8sVars, watcherVars, spc, current, deployments, channels,
                   closed, missed, handlerVars>>

\* The write fails and the event goes with the handler.
SendUpdateFails(s) ==
    /\ Writing(s)
    /\ Return(s)

\* MUTANT: the select waits for the channel alone.
RequestContextIgnored(s) == FALSE

\* The select sees the request's cancelled context.
RequestContextDone(s) ==
    /\ Streaming(s)
    /\ s \in gone
    /\ Return(s)

\* The channel is closed and everything buffered in it was sent.
ChannelDrained(s) ==
    /\ Streaming(s)
    /\ s \in closed
    /\ chan[s] = <<>>
    /\ Return(s)

\* The client leaves: nothing the handler does at that moment changes.
ClientLeaves(s) ==
    /\ hpc[s] = "open"
    /\ s \notin gone
    /\ gone' = gone \cup {s}
    /\ UNCHANGED <<k8sVars, watcherVars, moduleVars, hpc, snapshot, shown>>

\* The stop channel, closed when the handler returned, wakes the goroutine
\* that deregisters the subscription.
RemoveChannel(s) ==
    /\ hpc[s] = "returned"
    /\ Deregister(s)
    /\ hpc' = [hpc EXCEPT ![s] = "idle"]
    /\ snapshot' = [snapshot EXCEPT ![s] = {}]
    /\ shown' = [shown EXCEPT ![s] = NothingShown]
    /\ gone' = gone \ {s}

HandlerStep(s) ==
    \/ SendInitial(s)
    \/ SendInitialFails(s)
    \/ ReceiveUpdate(s)
    \/ SendUpdate(s)
    \/ SendUpdateFails(s)
    \/ RequestContextDone(s)
    \/ ChannelDrained(s)

-----------------------------------------------------------------------------
Init == K8sInit /\ WatcherInit /\ ModuleInit /\ HandlerInit

Cluster  == K8sStep /\ UNCHANGED <<watcherVars, moduleVars, handlerVars>>
Watcher  == WatcherStep /\ UNCHANGED <<moduleVars, handlerVars>>
Streamer == StreamerStep /\ UNCHANGED handlerVars

Next ==
    \/ Cluster
    \/ Watcher
    \/ Streamer
    \/ \E s \in Subs :
        \/ Subscribe(s)
        \/ HandlerStep(s)
        \/ ClientLeaves(s)
        \/ RemoveChannel(s)

Spec == Init /\ [][Next]_vars

\* The Go scheduler runs every goroutine that can go on.  A handler blocked
\* in a write is released by the write timeout, whoever its client is.
\* Nothing makes the cluster change, a client come or leave, a connection end
\* or the application stop.
Fairness ==
    /\ WF_vars(Watcher)
    /\ WF_vars(Streamer)
    /\ \A s \in Subs : WF_vars(HandlerStep(s)) /\ WF_vars(RemoveChannel(s))

FairSpec == Spec /\ Fairness

-----------------------------------------------------------------------------
TypeOK ==
    /\ K8sTypeOK
    /\ WatcherTypeOK
    /\ ModuleTypeOK
    /\ hpc \in [Subs -> {"idle", "open", "returned"}]
    /\ snapshot \in [Subs -> SUBSET Dep]
    /\ shown \in [Subs -> [Keys -> Event \cup {NoEvent}]]
    /\ gone \subseteq Subs

-----------------------------------------------------------------------------
(* Safety *)

\* No channel that the streamer may still send to or close is closed already:
\* applyEvent's send and closeChannels' close would panic, and take the
\* process down.
NoClosedRegistered == channels \cap closed = {}

\* Everything the connection has delivered has reached the cache.
Settled ==
    /\ conn = "open"
    /\ watchQ = <<>>
    /\ pending = NoEvent
    /\ current = NoEvent

\* Once the pipeline of an open connection is empty, every deployment that
\* exists is cached in its latest version - however many connections ended
\* before, and whatever was lost with them.
CacheIsCurrent == Settled => \A k \in Existing : GetDeployment(k) = objects[k]

\* Event e is a change of key k.
Carries(e, k) == e.dep # NoDep /\ e.dep.key = k

Mentions(q, k) == \E i \in 1..Len(q) : Carries(q[i], k)

\* The last change of key k in queue q brings deployment d.
EndsWith(q, k, d) ==
    \E i \in 1..Len(q) :
        /\ q[i].dep = d
        /\ \A j \in (i + 1)..Len(q) : Carries(q[j], k) => q[j].dep = d

\* The last state of key k that subscription s is going to send, or has sent,
\* is deployment d.
Reaches(s, k, d) ==
    IF Mentions(chan[s], k) THEN EndsWith(chan[s], k, d)
    ELSE IF \E x \in snapshot[s] : x.key = k THEN d \in snapshot[s]
    ELSE shown[s][k].dep = d

\* The only way for a client to fall behind the cache is a full channel: what
\* is cached and was not dropped there is on its way or was sent.  In
\* particular nothing falls between the snapshot and the first event of the
\* channel, though the snapshot is sent long after the lock is released.
NoSilentGap ==
    \A s \in channels : \A k \in Keys \ missed[s] :
        hpc[s] = "open" /\ deployments[k] # NoDep => Reaches(s, k, deployments[k])

\* A client is never sent an older state of a deployment after a newer one,
\* and the cache never steps back, across reconnections of the watch and
\* between the snapshot and the updates: the stream implements VersionedFeed.
RvOf(d) == IF d = NoDep THEN 0 ELSE d.rv

Feed == INSTANCE VersionedFeed WITH
    Observers <- Subs,
    latest <- rev,
    cached <- [k \in Keys |-> RvOf(deployments[k])],
    seen   <- [s \in Subs |-> [k \in Keys |-> RvOf(shown[s][k].dep)]]

ImplementsFeed == Feed!Spec

-----------------------------------------------------------------------------
(* Liveness *)

\* Every version of a deployment reaches the cache, or is overtaken there by a
\* later one, unless the deployment is deleted or the application stops: a
\* connection that ends is always replaced.
EveryVersionIsCached ==
    \A k \in Keys : \A r \in 1..MaxRev :
        RvOf(objects[k]) = r
            ~> ctxDone \/ objects[k] = NoDep \/ RvOf(deployments[k]) >= r

\* What the streamer put into the cache while a client was reading along is
\* shown to the client in the end, even if later events are dropped.
CachedVersionsAreShown ==
    \A s \in Subs : \A k \in Keys : \A r \in 1..MaxRev :
        hpc[s] = "open" /\ k \notin missed[s] /\ RvOf(deployments[k]) = r
            ~> hpc[s] # "open" \/ RvOf(shown[s][k].dep) >= r

\* The subscription of a client that has left is deregistered in the end, so
\* that neither the channel nor its two goroutines are leaked.
LeftClientsAreRemoved == \A s \in Subs : s \in gone ~> s \notin channels \cup gone

\* Shutdown ends every stream that was open before the streamer closed the
\* channels, with no help from its client.
ShutdownEndsStreams ==
    \A s \in Subs :
        ctxDone /\ spc # "returned" /\ hpc[s] = "open" ~> hpc[s] # "open"

-----------------------------------------------------------------------------
(* What the repository says of the code and the code does not do *)

\* processEvents: "reads events from a K8s watcher until the channel closes
\* or the context is cancelled".  It does not return while it is sending.
CancelledWatcherReturns == ctxDone ~> wpc = "returned"

\* useDeploymentStream.ts: the server sends "fresh ADDED events for all
\* current deployments" - so what it announces as ADDED exists, or a deletion
\* is on its way.
InitialEventsAreCurrent ==
    Settled =>
        \A s \in channels : \A k \in Keys \ missed[s] :
            chan[s] = <<>> /\ shown[s][k].type = "ADDED" => objects[k] # NoDep
=============================================================================
