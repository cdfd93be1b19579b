------------------------ MODULE DeploymentWatcherModule ------------------------
(***************************************************************************)
(* The module that owns the cache and the subscribers,                     *)
(* backend/internal/module_deployment_watcher.go: the streamer goroutine   *)
(* (streamEvents) takes events from the watcher, stores each in the cache  *)
(* and forwards it to every registered channel without ever blocking; a    *)
(* subscriber registers with Watch and is deregistered by a goroutine of   *)
(* its own that waits for its stop channel.                                *)
(*                                                                         *)
(* Every access to the cache and to the channels holds m.lck from its      *)
(* first to its last statement and never blocks inside, so each critical   *)
(* section is one action.                                                  *)
(***************************************************************************)
EXTENDS DeploymentWatcher

CONSTANTS
    Subs,      \* subscriptions that can exist at the same time
    Capacity   \* the buffer of a subscriber's channel, 16 in the code

ASSUME CapacityAssumption == Capacity \in Nat \ {0}

VARIABLES
    spc,         \* the streamer's place: "select", "apply", "closing", "returned"
    current,     \* the event it has received and not yet applied, or NoEvent
    deployments, \* the cache
    channels,    \* the subscriptions that are registered
    chan,        \* each subscription's events: the one its handler has received and
                 \* is still writing, if it is in taken, and then the channel's buffer
    taken,       \* the subscriptions whose handler is writing an event
    closed,      \* the subscriptions whose channel is closed
    missed       \* history: the keys whose latest event found the channel full

moduleVars == <<spc, current, deployments, channels, chan, taken, closed, missed>>

-----------------------------------------------------------------------------
ModuleInit ==
    /\ spc = "select"
    /\ current = NoEvent
    /\ deployments = [k \in Keys |-> NoDep]
    /\ channels = {}
    /\ chan = [s \in Subs |-> <<>>]
    /\ taken = {}
    /\ closed = {}
    /\ missed = [s \in Subs |-> {}]

\* GetDeployment: the cached deployment of a key, NoDep when there is none.
GetDeployment(k) == deployments[k]

\* cloneDeployments: the deployments a subscriber starts from.
CloneDeployments == {GetDeployment(k) : k \in Keys} \ {NoDep}

\* The receive side of the unbuffered channel: the streamer's select meets
\* the watcher's send and both go on.
ReceiveEvent ==
    /\ spc = "select"
    /\ wpc = "send"
    /\ spc' = "apply"
    /\ current' = pending
    /\ wpc' = "receive"
    /\ pending' = NoEvent
    /\ UNCHANGED <<k8sVars, deployments, channels, chan, taken, closed, missed>>

\* The events in the buffer of a channel.
Buffered(s) == Len(chan[s]) - (IF s \in taken THEN 1 ELSE 0)

\* MUTANT: one event too many.
HasRoomForOneMore(s) == Buffered(s) =< Capacity

HasRoom(s) == Buffered(s) < Capacity

\* applyEvent stores the deployment, whatever the type of the event, and
\* offers the event to every channel; a full channel is skipped.
ApplyEvent ==
    LET d == current.dep IN
    /\ spc = "apply"
    /\ spc' = "select"
    /\ current' = NoEvent
    /\ deployments' = [deployments EXCEPT ![d.key] = d]
    /\ chan' = [s \in Subs |-> IF s \in channels /\ HasRoom(s)
                               THEN Append(chan[s], current) ELSE chan[s]]
    /\ missed' = [s \in Subs |->
                    IF s \notin channels THEN missed[s]
                    ELSE IF HasRoom(s) THEN missed[s] \ {d.key}
                    ELSE missed[s] \cup {d.key}]
    /\ UNCHANGED <<k8sVars, watcherVars, channels, taken, closed>>

\* The streamer's select sees the cancelled context ...
StreamContextDone ==
    /\ spc = "select"
    /\ ctxDone
    /\ spc' = "closing"
    /\ UNCHANGED <<k8sVars, watcherVars, current, deployments, channels, chan,
                   taken, closed, missed>>

\* MUTANT: the channels are closed and stay in the map.
CloseChannelsOnly ==
    /\ spc = "closing"
    /\ spc' = "returned"
    /\ closed' = closed \cup channels
    /\ UNCHANGED <<k8sVars, watcherVars, current, deployments, channels, chan,
                   taken, missed>>

\* MUTANT: the channels are deleted from the map and not closed.
CloseChannelsDropped ==
    /\ spc = "closing"
    /\ spc' = "returned"
    /\ channels' = {}
    /\ UNCHANGED <<k8sVars, watcherVars, current, deployments, chan, taken, closed,
                   missed>>

\* ... and the deferred closeChannels closes and forgets every channel.
CloseChannels ==
    /\ spc = "closing"
    /\ spc' = "returned"
    /\ closed' = closed \cup channels
    /\ channels' = {}
    /\ UNCHANGED <<k8sVars, watcherVars, current, deployments, chan, taken, missed>>

\* Watch registers a fresh channel (its uuid is new: a subscription's slot is
\* only used again once RemoveChannel has freed it).
Register(s) ==
    /\ channels' = channels \cup {s}
    /\ chan' = [chan EXCEPT ![s] = <<>>]
    /\ taken' = taken \ {s}
    /\ UNCHANGED <<k8sVars, watcherVars, spc, current, deployments, closed, missed>>

\* The goroutine that waits for the stop channel deletes the registration;
\* with it the slot's channel is gone.
Deregister(s) ==
    /\ channels' = channels \ {s}
    /\ chan' = [chan EXCEPT ![s] = <<>>]
    /\ taken' = taken \ {s}
    /\ closed' = closed \ {s}
    /\ missed' = [missed EXCEPT ![s] = {}]
    /\ UNCHANGED <<k8sVars, watcherVars, spc, current, deployments>>

StreamerStep ==
    \/ ReceiveEvent
    \/ ApplyEvent
    \/ StreamContextDone
    \/ CloseChannels

ModuleTypeOK ==
    /\ spc \in {"select", "apply", "closing", "returned"}
    /\ current \in Event \cup {NoEvent}
    /\ current # NoEvent <=> spc = "apply"
    /\ deployments \in [Keys -> Dep \cup {NoDep}]
    /\ \A k \in Keys : deployments[k] # NoDep => deployments[k].key = k
    /\ channels \subseteq Subs
    /\ chan \in [Subs -> Seq(Event)]
    /\ taken \subseteq Subs
    /\ \A s \in Subs : Buffered(s) \in 0..Capacity
    /\ closed \subseteq Subs
    /\ missed \in [Subs -> SUBSET Keys]
=============================================================================
