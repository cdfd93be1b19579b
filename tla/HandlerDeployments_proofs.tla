------------------------ MODULE HandlerDeployments_proofs ------------------------
(***************************************************************************)
(* Proofs about the deployment stream, for any finite set of keys, any set *)
(* of subscriptions, any channel capacity and any bounds.                  *)
(***************************************************************************)
EXTENDS HandlerDeployments, FiniteSetTheorems, SequenceTheorems, TLAPS

Queued == Event \cup {ErrorEvent}

\* The events a fresh connection lists are a queue of changes.
LEMMA ListingsType ==
    ASSUME objects \in [Keys -> Dep \cup {NoDep}]
    PROVE  Listings \subseteq Seq(Event)
<1>1. Existing \in SUBSET Keys
  BY DEF Existing
<1>2. IsFiniteSet(Existing)
  BY <1>1, FS_Subset, KeysAssumption
<1>3. Cardinality(Existing) \in Nat
  BY <1>2, FS_CardinalityType
<1>4. {Change("ADDED", objects[k]) : k \in Existing} \subseteq Event
  BY DEF Existing, Change, Event
<1>5. SUFFICES ASSUME NEW q \in Listings PROVE q \in Seq(Event)
  OBVIOUS
<1>6. q \in [1..Cardinality(Existing) -> Event]
  BY <1>4 DEF Listings
<1>7. QED
  BY <1>3, <1>6

\* What is left of a queue, and a queue with one more event, are queues.
LEMMA PrefixType ==
    ASSUME NEW S, NEW q \in Seq(S), NEW n \in 0..Len(q)
    PROVE  /\ SubSeq(q, 1, n) \in Seq(S)
           /\ Len(SubSeq(q, 1, n)) = n
           /\ \A i \in 1..n : SubSeq(q, 1, n)[i] = q[i]
<1>1. \A i \in 1..n : q[i] \in S
  OBVIOUS
<1>2. QED
  BY <1>1, SubSeqProperties

LEMMA ConstantsDistinct ==
    /\ NoDep \notin Dep
    /\ NoEvent \notin Event
    /\ ErrorEvent \notin Event
    /\ NoEvent # ErrorEvent
BY NoDepAssumption DEF NoEvent, ErrorEvent, Event

LEMMA InitType == Init => TypeOK
<1> SUFFICES ASSUME Init PROVE TypeOK
  OBVIOUS
<1> USE DEF Init
<1>1. K8sTypeOK
  <2>1. objects \in [Keys -> Dep \cup {NoDep}]
    BY DEF K8sInit
  <2>2. watchQ \in Seq(Event \cup {ErrorEvent})
    BY DEF K8sInit
  <2>3. QED
    BY <2>1, <2>2 DEF K8sInit, K8sTypeOK
<1>2. WatcherTypeOK
  BY DEF WatcherInit, WatcherTypeOK
<1>3. ModuleTypeOK
  <2>1. chan \in [Subs -> Seq(Event)] /\ \A s \in Subs : Buffered(s) \in 0..Capacity
    BY CapacityAssumption DEF ModuleInit, Buffered
  <2>2. missed \in [Subs -> SUBSET Keys]
    BY DEF ModuleInit
  <2>3. QED
    BY <2>1, <2>2 DEF ModuleInit, ModuleTypeOK
<1>4. QED
  BY <1>1, <1>2, <1>3 DEF HandlerInit, NothingShown, TypeOK

\* A change of the cluster keeps the cluster's part of the state typed.
LEMMA CommitType ==
    ASSUME K8sTypeOK, NEW k \in Keys, NEW d \in Dep \cup {NoDep}, NEW e \in Event,
           Commit(k, d, e)
    PROVE  K8sTypeOK'
<1>1. Append(watchQ, e) \in Seq(Queued)
  BY AppendProperties DEF K8sTypeOK, Queued
<1>2. QED
  BY <1>1 DEF K8sTypeOK, Commit, Queued

LEMMA ClusterType == TypeOK /\ Cluster => TypeOK'
<1> SUFFICES ASSUME TypeOK, Cluster PROVE TypeOK'
  OBVIOUS
<1> USE DEF TypeOK, Cluster
<1>1. K8sTypeOK'
  <2>1. ASSUME NEW k \in Keys, Create(k) PROVE K8sTypeOK'
    <3> DEFINE d == [key |-> k, uid |-> rev + 1, rv |-> rev + 1]
    <3>1. d \in Dep /\ Change("ADDED", d) \in Event
      BY DEF K8sTypeOK, Dep, Event, Change
    <3>2. QED
      BY <2>1, <3>1, CommitType DEF Create
  <2>2. ASSUME NEW k \in Keys, Update(k) PROVE K8sTypeOK'
    <3> DEFINE d == [objects[k] EXCEPT !.rv = rev + 1]
    <3>1. d \in Dep /\ Change("MODIFIED", d) \in Event
      BY <2>2 DEF K8sTypeOK, Dep, Event, Change, Update
    <3>2. QED
      BY <2>2, <3>1, CommitType DEF Update
  <2>3. ASSUME NEW k \in Keys, Delete(k) PROVE K8sTypeOK'
    <3> DEFINE d == [objects[k] EXCEPT !.rv = rev + 1]
    <3>1. d \in Dep /\ Change("DELETED", d) \in Event
      BY <2>3 DEF K8sTypeOK, Dep, Event, Change, Delete
    <3>2. QED
      BY <2>3, <3>1, CommitType DEF Delete
  <2>4. CASE EndConnection
    BY <2>4, PrefixType DEF EndConnection, K8sTypeOK
  <2>5. CASE BreakConnection
    <3>1. PICK n \in 0..Len(watchQ) :
            watchQ' = Append(SubSeq(watchQ, 1, n), ErrorEvent)
      BY <2>5 DEF BreakConnection
    <3>2. watchQ' \in Seq(Queued)
      BY <3>1, PrefixType, AppendProperties DEF K8sTypeOK, Queued
    <3>3. QED
      BY <2>5, <3>2 DEF BreakConnection, K8sTypeOK, Queued
  <2>6. CASE Shutdown
    BY <2>6 DEF Shutdown, K8sTypeOK
  <2>7. QED
    BY <2>1, <2>2, <2>3, <2>4, <2>5, <2>6 DEF K8sStep
<1>2. QED
  BY <1>1 DEF watcherVars, moduleVars, handlerVars, WatcherTypeOK, ModuleTypeOK, Buffered

LEMMA WatcherType == TypeOK /\ Watcher => TypeOK'
<1> SUFFICES ASSUME TypeOK, Watcher PROVE TypeOK'
  OBVIOUS
<1> USE DEF TypeOK, Watcher
<1>1. K8sTypeOK' /\ WatcherTypeOK'
  <2> USE ConstantsDistinct DEF K8sTypeOK, WatcherTypeOK
  <2>1. CASE WatchDeployments
    <3>1. watchQ' \in Seq(Queued)
      BY <2>1, ListingsType, SeqMonotonic DEF WatchDeployments, OpenConnection, Queued
    <3>2. QED
      BY <2>1, <3>1 DEF WatchDeployments, OpenConnection, Queued
  <2>2. CASE WatchRequestFails
    BY <2>2 DEF WatchRequestFails, ReturnError
  <2>3. CASE NextEvent
    <3>1. Head(watchQ) \in Event /\ Tail(watchQ) \in Seq(Queued)
      BY <2>3, HeadTailProperties DEF NextEvent, FromUnstructured, Queued
    <3>2. QED
      BY <2>3, <3>1 DEF NextEvent, Queued
  <2>4. CASE ConversionFails
    BY <2>4 DEF ConversionFails, Stop, ReturnError
  <2>5. CASE ChannelClosed
    BY <2>5 DEF ChannelClosed, Stop
  <2>6. CASE ContextDone
    BY <2>6 DEF ContextDone, Stop, ReturnError
  <2>7. QED
    BY <2>1, <2>2, <2>3, <2>4, <2>5, <2>6 DEF WatcherStep
<1>2. QED
  BY <1>1 DEF moduleVars, handlerVars, ModuleTypeOK, Buffered

\* An event more in a channel that has room keeps the channel within its buffer.
LEMMA OfferType ==
    ASSUME ModuleTypeOK, current \in Event, NEW s \in Subs
    PROVE  LET q == IF s \in channels /\ HasRoom(s)
                    THEN Append(chan[s], current) ELSE chan[s]
           IN  /\ q \in Seq(Event)
               /\ Len(q) - (IF s \in taken THEN 1 ELSE 0) \in 0..Capacity
<1>1. /\ Append(chan[s], current) \in Seq(Event)
      /\ Len(Append(chan[s], current)) = Len(chan[s]) + 1
  BY AppendProperties DEF ModuleTypeOK
<1>2. chan[s] \in Seq(Event) /\ Len(chan[s]) \in Nat
  BY LenProperties DEF ModuleTypeOK
<1>3. QED
  BY <1>1, <1>2, CapacityAssumption DEF ModuleTypeOK, HasRoom, Buffered

LEMMA StreamerType == TypeOK /\ Streamer => TypeOK'
<1> SUFFICES ASSUME TypeOK, Streamer PROVE TypeOK'
  OBVIOUS
<1> USE DEF TypeOK, Streamer, k8sVars, watcherVars
<1>1. WatcherTypeOK' /\ ModuleTypeOK'
  <2>1. CASE ReceiveEvent
    BY <2>1, ConstantsDistinct DEF ReceiveEvent, WatcherTypeOK, ModuleTypeOK, Buffered
  <2>2. CASE ApplyEvent
    <3> DEFINE d == current.dep
    <3> USE DEF ApplyEvent
    <3>1. current \in Event /\ d \in Dep /\ d.key \in Keys
      BY <2>2 DEF ModuleTypeOK, Event, Dep
    <3>2. /\ chan' \in [Subs -> Seq(Event)]
          /\ \A s \in Subs : Buffered(s)' \in 0..Capacity
      BY <2>2, <3>1, OfferType DEF Buffered
    <3>3. /\ deployments' \in [Keys -> Dep \cup {NoDep}]
          /\ \A k \in Keys : deployments'[k] # NoDep => deployments'[k].key = k
      BY <2>2, <3>1 DEF ModuleTypeOK
    <3>4. missed' \in [Subs -> SUBSET Keys]
      BY <2>2, <3>1 DEF ModuleTypeOK
    <3>5. QED
      BY <2>2, <3>2, <3>3, <3>4 DEF ModuleTypeOK, WatcherTypeOK
  <2>3. CASE StreamContextDone
    BY <2>3 DEF StreamContextDone, WatcherTypeOK, ModuleTypeOK, Buffered
  <2>4. CASE CloseChannels
    BY <2>4 DEF CloseChannels, WatcherTypeOK, ModuleTypeOK, Buffered
  <2>5. QED
    BY <2>1, <2>2, <2>3, <2>4 DEF StreamerStep
<1>2. UNCHANGED <<k8sVars, handlerVars>>
  BY DEF StreamerStep, ReceiveEvent, ApplyEvent, StreamContextDone, CloseChannels
<1>3. QED
  BY <1>1, <1>2 DEF handlerVars, K8sTypeOK

\* The steps of the handlers leave the API server and the watcher alone.
Slot(s) == Subscribe(s) \/ HandlerStep(s) \/ ClientLeaves(s) \/ RemoveChannel(s)

LEMMA SlotType == \A s \in Subs : TypeOK /\ Slot(s) => TypeOK'
<1> SUFFICES ASSUME TypeOK, NEW s \in Subs, Slot(s) PROVE TypeOK'
  OBVIOUS
<1> USE DEF TypeOK, k8sVars, watcherVars, moduleVars
<1>1. CASE Subscribe(s)
  <2>1. CloneDeployments \subseteq Dep
    BY DEF CloneDeployments, GetDeployment, ModuleTypeOK
  <2>2. chan' \in [Subs -> Seq(Event)] /\ \A t \in Subs : Buffered(t)' \in 0..Capacity
    BY <1>1, CapacityAssumption DEF Subscribe, Register, ModuleTypeOK, Buffered
  <2>3. ModuleTypeOK'
    BY <1>1, <2>2 DEF Subscribe, Register, ModuleTypeOK
  <2>4. QED
    BY <1>1, <2>1, <2>3 DEF Subscribe, Register, K8sTypeOK, WatcherTypeOK
<1>2. CASE SendInitial(s)
  <2>1. PICK d \in snapshot[s] : Show(s, Change("ADDED", d))
    BY <1>2 DEF SendInitial
  <2>2. d \in Dep
    OBVIOUS
  <2>3. Change("ADDED", d) \in Event
    BY <2>2 DEF Change, Event
  <2>4. shown' \in [Subs -> [Keys -> Event \cup {NoEvent}]]
    BY <2>1, <2>2, <2>3 DEF Show
  <2>5. QED
    BY <1>2, <2>4 DEF SendInitial, K8sTypeOK, WatcherTypeOK, ModuleTypeOK, Buffered
<1>3. CASE SendUpdate(s)
  <2>1. chan[s] \in Seq(Event) /\ chan[s] # <<>> /\ Len(chan[s]) - 1 \in 0..Capacity
    BY <1>3 DEF SendUpdate, Writing, ModuleTypeOK, Buffered
  <2>2. /\ Head(chan[s]) \in Event
        /\ Tail(chan[s]) \in Seq(Event)
        /\ Len(Tail(chan[s])) = Len(chan[s]) - 1
    BY <2>1, HeadTailProperties, LenProperties
  <2>3. ASSUME NEW t \in Subs
        PROVE  chan'[t] \in Seq(Event) /\ Buffered(t)' \in 0..Capacity
    <3>1. CASE t = s
      BY <1>3, <2>1, <2>2, <3>1 DEF SendUpdate, ModuleTypeOK, Buffered
    <3>2. CASE t # s
      <4>1. chan'[t] = chan[t] /\ (t \in taken' <=> t \in taken)
        BY <1>3, <3>2 DEF SendUpdate, ModuleTypeOK
      <4>2. QED
        BY <4>1 DEF ModuleTypeOK, Buffered
    <3>3. QED
      BY <3>1, <3>2
  <2>4. chan' \in [Subs -> Seq(Event)]
    BY <1>3, <2>3 DEF SendUpdate, ModuleTypeOK
  <2>5. ModuleTypeOK'
    BY <1>3, <2>3, <2>4 DEF SendUpdate, ModuleTypeOK
  <2>6. shown' \in [Subs -> [Keys -> Event \cup {NoEvent}]]
    BY <1>3, <2>2 DEF SendUpdate, Show
  <2>7. QED
    BY <1>3, <2>5, <2>6 DEF SendUpdate, K8sTypeOK, WatcherTypeOK
<1>4. CASE RemoveChannel(s)
  <2>1. chan' \in [Subs -> Seq(Event)] /\ \A t \in Subs : Buffered(t)' \in 0..Capacity
    BY <1>4, CapacityAssumption DEF RemoveChannel, Deregister, ModuleTypeOK, Buffered
  <2>2. ModuleTypeOK'
    BY <1>4, <2>1 DEF RemoveChannel, Deregister, ModuleTypeOK
  <2>3. QED
    BY <1>4, <2>2 DEF RemoveChannel, Deregister, K8sTypeOK, WatcherTypeOK, NothingShown
<1>5. CASE ClientLeaves(s)
  BY <1>5 DEF ClientLeaves, K8sTypeOK, WatcherTypeOK, ModuleTypeOK, Buffered
<1>6. CASE Return(s)
  BY <1>6 DEF Return, K8sTypeOK, WatcherTypeOK, ModuleTypeOK, Buffered
<1>7. CASE ReceiveUpdate(s)
  <2>1. chan[s] \in Seq(Event) /\ Len(chan[s]) \in 1..Capacity
    <3>1. chan[s] \in Seq(Event) /\ chan[s] # <<>> /\ s \notin taken
      BY <1>7 DEF ReceiveUpdate, Streaming, ModuleTypeOK
    <3>2. Len(chan[s]) \in 0..Capacity
      BY <3>1 DEF ModuleTypeOK, Buffered
    <3>3. Len(chan[s]) # 0
      BY <3>1
    <3>4. QED
      BY <3>1, <3>2, <3>3
  <2>2. ASSUME NEW t \in Subs PROVE Buffered(t)' \in 0..Capacity
    <3>1. chan' = chan /\ (t \in taken' <=> t \in taken \/ t = s)
      BY <1>7 DEF ReceiveUpdate
    <3>2. CASE t = s
      BY <2>1, <3>1, <3>2, CapacityAssumption DEF Buffered
    <3>3. CASE t # s
      BY <3>1, <3>3 DEF Buffered, ModuleTypeOK
    <3>4. QED
      BY <3>2, <3>3
  <2>3. QED
    BY <1>7, <2>2 DEF ReceiveUpdate, handlerVars, K8sTypeOK, WatcherTypeOK, ModuleTypeOK
<1>8. QED
  BY <1>1, <1>2, <1>3, <1>4, <1>5, <1>6, <1>7
     DEF Slot, HandlerStep, SendInitialFails, SendUpdateFails, RequestContextDone,
         ChannelDrained

LEMMA StutterType == TypeOK /\ UNCHANGED vars => TypeOK'
BY DEF TypeOK, vars, k8sVars, watcherVars, moduleVars, handlerVars, K8sTypeOK,
       WatcherTypeOK, ModuleTypeOK, Buffered

\* The state of the four components is typed: in particular the watcher holds an
\* event exactly while it sends, the streamer exactly while it applies, and no
\* channel exceeds its buffer.
THEOREM TypeCorrect == Spec => []TypeOK
<1>1. TypeOK /\ [Next]_vars => TypeOK'
  BY ClusterType, WatcherType, StreamerType, SlotType, StutterType DEF Next, Slot
<1>2. QED
  BY InitType, <1>1, PTL DEF Spec

-----------------------------------------------------------------------------
(* Channels are closed once, and never used by the streamer afterwards *)

\* NoClosedRegistered is not inductive alone: a slot that is registered again
\* must not still have a closed channel.  A free slot has no channel at all.
FreeSlots == \A s \in Subs : hpc[s] = "idle" => s \notin channels \cup closed

ChannelInv == NoClosedRegistered /\ FreeSlots

LEMMA StreamerChannels == TypeOK /\ ChannelInv /\ Streamer => ChannelInv'
<1> SUFFICES ASSUME TypeOK, ChannelInv, Streamer PROVE ChannelInv'
  OBVIOUS
<1> USE DEF ChannelInv, NoClosedRegistered, FreeSlots, Streamer, handlerVars
<1>1. CASE ReceiveEvent
  BY <1>1 DEF ReceiveEvent
<1>2. CASE ApplyEvent
  BY <1>2 DEF ApplyEvent
<1>3. CASE StreamContextDone
  BY <1>3 DEF StreamContextDone
<1>4. CASE CloseChannels
  BY <1>4 DEF CloseChannels
<1>5. QED
  BY <1>1, <1>2, <1>3, <1>4 DEF StreamerStep

LEMMA SlotChannels == \A s \in Subs : TypeOK /\ ChannelInv /\ Slot(s) => ChannelInv'
<1> SUFFICES ASSUME TypeOK, ChannelInv, NEW s \in Subs, Slot(s) PROVE ChannelInv'
  OBVIOUS
<1> USE DEF TypeOK, ChannelInv, NoClosedRegistered, FreeSlots, moduleVars
<1>1. CASE Subscribe(s)
  BY <1>1 DEF Subscribe, Register
<1>2. CASE SendInitial(s)
  BY <1>2 DEF SendInitial
<1>3. CASE SendUpdate(s)
  BY <1>3 DEF SendUpdate
<1>4. CASE ClientLeaves(s)
  BY <1>4 DEF ClientLeaves
<1>5. CASE RemoveChannel(s)
  BY <1>5 DEF RemoveChannel, Deregister
<1>6. CASE Return(s)
  BY <1>6 DEF Return
<1>7. CASE ReceiveUpdate(s)
  BY <1>7 DEF ReceiveUpdate, handlerVars
<1>8. QED
  BY <1>1, <1>2, <1>3, <1>4, <1>5, <1>6, <1>7
     DEF Slot, HandlerStep, SendInitialFails, SendUpdateFails, RequestContextDone,
         ChannelDrained

\* The streamer never sends on a channel that is closed and never closes one a
\* second time, whatever subscriptions come and go: it cannot panic.
THEOREM ChannelsClosedOnce == Spec => []NoClosedRegistered
<1>1. Init => ChannelInv
  BY DEF Init, ModuleInit, HandlerInit, ChannelInv, NoClosedRegistered, FreeSlots
<1>2. TypeOK /\ ChannelInv /\ [Next]_vars => ChannelInv'
  <2> SUFFICES ASSUME TypeOK, ChannelInv, [Next]_vars PROVE ChannelInv'
    OBVIOUS
  <2>1. CASE Cluster \/ Watcher \/ UNCHANGED vars
    BY <2>1 DEF Cluster, Watcher, vars, moduleVars, handlerVars, ChannelInv,
                NoClosedRegistered, FreeSlots
  <2>2. CASE Streamer
    BY <2>2, StreamerChannels
  <2>3. ASSUME NEW s \in Subs, Slot(s) PROVE ChannelInv'
    BY <2>3, SlotChannels
  <2>4. QED
    BY <2>1, <2>2, <2>3 DEF Next, Slot
<1>3. ChannelInv => NoClosedRegistered
  BY DEF ChannelInv
<1>4. QED
  BY <1>1, <1>2, <1>3, TypeCorrect, PTL DEF Spec

-----------------------------------------------------------------------------
(***************************************************************************)
(* Order and completeness: no state of a deployment is overtaken by an     *)
(* older one anywhere between the API server and a client (the stream      *)
(* implements VersionedFeed), the cache catches up with the cluster        *)
(* whatever connections were lost, and a client is left behind only by a   *)
(* full channel.                                                           *)
(***************************************************************************)

(* The order of the states of one deployment *)

\* State d is e, or an earlier state; before NoDep there is nothing.
Before(d, e) == d = NoDep \/ d = e \/ d.rv < e.rv

Ordered(q) ==
    \A i, j \in 1..Len(q) :
        i < j /\ q[i].dep # NoDep /\ Carries(q[j], q[i].dep.key)
            => Before(q[i].dep, q[j].dep)

\* Every change of key k in queue q comes after state d, or before it.
From(d, q, k) == \A i \in 1..Len(q) : Carries(q[i], k) => Before(d, q[i].dep)
UpTo(q, k, d) == \A i \in 1..Len(q) : Carries(q[i], k) => Before(q[i].dep, d)

\* What flows from the API server to the cache, oldest last: the objects, the
\* connection's queue, the watcher's event, the streamer's event, the cache.
Upstream(k) ==
    /\ objects[k] # NoDep =>
        /\ objects[k].key = k
        /\ UpTo(watchQ, k, objects[k])
        /\ Carries(pending, k) => Before(pending.dep, objects[k])
        /\ Carries(current, k) => Before(current.dep, objects[k])
        /\ Before(deployments[k], objects[k])
    /\ Carries(pending, k) => From(pending.dep, watchQ, k)
    /\ Carries(current, k) => From(current.dep, watchQ, k)
    /\ Carries(current, k) /\ Carries(pending, k) => Before(current.dep, pending.dep)
    /\ From(deployments[k], watchQ, k)
    /\ Carries(pending, k) => Before(deployments[k], pending.dep)
    /\ Carries(current, k) => Before(deployments[k], current.dep)

\* Every state known to anyone has a revision the cluster has reached.
Reached(d, r) == d # NoDep => d.rv =< r

Revisions ==
    /\ \A k \in Keys : Reached(objects[k], rev) /\ Reached(deployments[k], rev)
    /\ \A i \in 1..Len(watchQ) : Reached(watchQ[i].dep, rev)
    /\ Reached(pending.dep, rev)
    /\ Reached(current.dep, rev)

\* A connection that is open has told, or is about to tell, of every object.
NothingLost(k) ==
    conn = "open" /\ objects[k] # NoDep =>
        \/ \E i \in 1..Len(watchQ) : watchQ[i].dep = objects[k]
        \/ pending.dep = objects[k]
        \/ current.dep = objects[k]
        \/ deployments[k] = objects[k]

PipelineInv ==
    /\ Ordered(watchQ)
    /\ Revisions
    /\ \A k \in Keys : Upstream(k) /\ NothingLost(k)

\* What flows from the cache to the client of slot s.
Downstream(s, k) ==
    /\ UpTo(chan[s], k, deployments[k])
    /\ Mentions(chan[s], k) => deployments[k] # NoDep
    /\ \A d \in snapshot[s] : d.key = k =>
        /\ deployments[k] # NoDep
        /\ Before(d, deployments[k])
        /\ From(d, chan[s], k)
        /\ Before(shown[s][k].dep, d)
        /\ \A e \in snapshot[s] : e.key = k => e = d
    /\ shown[s][k].dep # NoDep => deployments[k] # NoDep
    /\ Before(shown[s][k].dep, deployments[k])
    /\ From(shown[s][k].dep, chan[s], k)

Delivery(s, k) ==
    hpc[s] = "open" /\ k \notin missed[s] /\ deployments[k] # NoDep =>
        \/ \E i \in 1..Len(chan[s]) : chan[s][i].dep = deployments[k]
        \/ deployments[k] \in snapshot[s]
        \/ shown[s][k].dep = deployments[k]

\* An update is only received when the snapshot has been sent.
SnapshotFirst(s) == s \in taken => snapshot[s] = {}

\* An open handler gets every event that is still applied.
OpenRegistered(s) == hpc[s] = "open" /\ s \notin channels => spc = "returned"

StreamInv ==
    /\ \A s \in Subs : Ordered(chan[s]) /\ SnapshotFirst(s) /\ OpenRegistered(s)
    /\ \A s \in Subs, k \in Keys : Downstream(s, k) /\ Delivery(s, k)

-----------------------------------------------------------------------------
(* Queues *)

Known == Event \cup {ErrorEvent, NoEvent}

LEMMA EventDep ==
    /\ \A e \in Known : e.dep \in Dep \cup {NoDep}
    /\ \A e \in Known : e.dep # NoDep <=> e \in Event
    /\ \A d \in Dep : d.key \in Keys /\ d.uid \in Nat /\ d.rv \in Nat
BY ConstantsDistinct DEF Known, Event, ErrorEvent, NoEvent, Dep

LEMMA BeforeTransitive ==
    ASSUME NEW d \in Dep \cup {NoDep}, NEW e \in Dep, NEW f \in Dep,
           Before(d, e), Before(e, f)
    PROVE  Before(d, f)
BY ConstantsDistinct DEF Before, Dep

LEMMA BeforeAntisymmetric ==
    ASSUME NEW d \in Dep, NEW e \in Dep, Before(d, e), Before(e, d)
    PROVE  d = e
BY ConstantsDistinct DEF Before, Dep

\* r is a stretch of q: what is left of it after its end or its head is lost.
Part(r, q) ==
    \E m \in Nat : Len(r) + m =< Len(q) /\ \A i \in 1..Len(r) : r[i] = q[i + m]

LEMMA PartOfQueue ==
    ASSUME NEW S, NEW q \in Seq(S)
    PROVE  /\ Part(<<>>, q)
           /\ q # <<>> => Part(Tail(q), q)
           /\ \A n \in 0..Len(q) : Part(SubSeq(q, 1, n), q)
<1>1. Part(<<>>, q)
  <2>1. Len(<<>>) + 0 =< Len(q) /\ \A i \in 1..Len(<<>>) : <<>>[i] = q[i + 0]
    BY EmptySeq, LenProperties
  <2>2. QED
    BY <2>1 DEF Part
<1>2. ASSUME q # <<>> PROVE Part(Tail(q), q)
  <2>1. Len(Tail(q)) + 1 =< Len(q) /\ \A i \in 1..Len(Tail(q)) : Tail(q)[i] = q[i + 1]
    BY <1>2, HeadTailProperties, LenProperties
  <2>2. QED
    BY <2>1 DEF Part
<1>3. ASSUME NEW n \in 0..Len(q) PROVE Part(SubSeq(q, 1, n), q)
  <2> DEFINE r == SubSeq(q, 1, n)
  <2>1. Len(r) = n /\ \A i \in 1..n : r[i] = q[i]
    BY PrefixType
  <2> HIDE DEF r
  <2>2. Len(r) + 0 =< Len(q) /\ \A i \in 1..Len(r) : r[i] = q[i + 0]
    BY <2>1, LenProperties
  <2>3. QED
    BY <2>2 DEF Part, r
<1>4. QED
  BY <1>1, <1>2, <1>3

LEMMA PartKeeps ==
    ASSUME NEW S, NEW q \in Seq(S), NEW r \in Seq(S), Part(r, q)
    PROVE  /\ Ordered(q) => Ordered(r)
           /\ \A d, k : From(d, q, k) => From(d, r, k)
           /\ \A d, k : UpTo(q, k, d) => UpTo(r, k, d)
           /\ \A k : Mentions(r, k) => Mentions(q, k)
<1>1. Len(q) \in Nat /\ Len(r) \in Nat
  BY LenProperties
<1>2. PICK m \in Nat : Len(r) + m =< Len(q) /\ \A i \in 1..Len(r) : r[i] = q[i + m]
  BY DEF Part
<1>3. \A i \in 1..Len(r) : i + m \in 1..Len(q)
  BY <1>1, <1>2
<1>4. \A i, j \in 1..Len(r) : i < j => i + m < j + m
  BY <1>1
<1>5. Ordered(q) => Ordered(r)
  BY <1>2, <1>3, <1>4 DEF Ordered
<1>6. QED
  BY <1>2, <1>3, <1>5 DEF From, UpTo, Mentions

LEMMA AppendKeeps ==
    ASSUME NEW S, NEW q \in Seq(S), NEW e \in S
    PROVE  LET r == Append(q, e) IN
           /\ Ordered(q) /\ (\A k : Carries(e, k) => UpTo(q, k, e.dep)) => Ordered(r)
           /\ \A d, k : From(d, q, k) /\ (Carries(e, k) => Before(d, e.dep)) => From(d, r, k)
           /\ \A d, k : UpTo(q, k, d) /\ (Carries(e, k) => Before(e.dep, d)) => UpTo(r, k, d)
           /\ \A k : Mentions(r, k) => Mentions(q, k) \/ Carries(e, k)
<1> DEFINE r == Append(q, e)
<1>1. Len(q) \in Nat /\ Len(r) = Len(q) + 1
  BY AppendProperties, LenProperties
<1>2. \A i \in 1..Len(r) : (i \in 1..Len(q) /\ r[i] = q[i]) \/ (i = Len(r) /\ r[i] = e)
  BY <1>1, AppendProperties
<1> HIDE DEF r
<1>3. ASSUME Ordered(q), \A k : Carries(e, k) => UpTo(q, k, e.dep)
      PROVE  Ordered(r)
  <2> SUFFICES ASSUME NEW i \in 1..Len(r), NEW j \in 1..Len(r), i < j,
                      r[i].dep # NoDep, Carries(r[j], r[i].dep.key)
               PROVE  Before(r[i].dep, r[j].dep)
    BY DEF Ordered
  <2>1. i \in 1..Len(q) /\ r[i] = q[i]
    BY <1>1, <1>2
  <2>2. CASE j \in 1..Len(q) /\ r[j] = q[j]
    BY <2>1, <2>2, <1>3 DEF Ordered
  <2>3. CASE r[j] = e
    BY <2>1, <2>3, <1>3 DEF UpTo, Carries
  <2>4. QED
    BY <1>2, <2>2, <2>3
<1>4. \A d, k : From(d, q, k) /\ (Carries(e, k) => Before(d, e.dep)) => From(d, r, k)
  BY <1>2 DEF From
<1>5. \A d, k : UpTo(q, k, d) /\ (Carries(e, k) => Before(e.dep, d)) => UpTo(r, k, d)
  BY <1>2 DEF UpTo
<1>6. \A k : Mentions(r, k) => Mentions(q, k) \/ Carries(e, k)
  BY <1>2 DEF Mentions
<1>7. QED
  BY <1>3, <1>4, <1>5, <1>6 DEF r

-----------------------------------------------------------------------------
(* From the API server to the cache *)

\* What the type invariant says of the pipeline.
LEMMA PipelineTypes ==
    ASSUME TypeOK
    PROVE  /\ watchQ \in Seq(Queued) /\ Queued \subseteq Known
           /\ \A i \in 1..Len(watchQ) : watchQ[i].dep \in Dep \cup {NoDep}
           /\ pending \in Known /\ pending.dep \in Dep \cup {NoDep}
           /\ current \in Known /\ current.dep \in Dep \cup {NoDep}
           /\ \A k \in Keys : objects[k] \in Dep \cup {NoDep}
           /\ \A k \in Keys : deployments[k] \in Dep \cup {NoDep}
           /\ NoDep \notin Dep /\ \A d \in Dep : d.rv \in Nat
           /\ rev \in Nat
<1>1. watchQ \in Seq(Queued) /\ Queued \subseteq Known
  BY DEF TypeOK, K8sTypeOK, Queued, Known
<1>2. \A i \in 1..Len(watchQ) : watchQ[i] \in Known
  BY <1>1, ElementOfSeq
<1>3. pending \in Known /\ current \in Known
  BY DEF TypeOK, WatcherTypeOK, ModuleTypeOK, Known
<1>4. QED
  BY <1>1, <1>2, <1>3, EventDep, ConstantsDistinct
     DEF TypeOK, K8sTypeOK, ModuleTypeOK

\* A change of the cluster: its revision is new, so that it comes after every
\* state of its deployment that anyone has seen.
LEMMA CommitPipeline ==
    ASSUME TypeOK, PipelineInv, NEW k \in Keys, NEW d \in Dep \cup {NoDep},
           NEW e \in Event, Commit(k, d, e), UNCHANGED <<watcherVars, moduleVars>>,
           e.dep.key = k, e.dep.rv = rev + 1, d # NoDep => d = e.dep
    PROVE  PipelineInv'
<1> USE PipelineTypes
<1>1. /\ UNCHANGED <<conn, pending, current, deployments>>
      /\ rev' = rev + 1
      /\ objects' = [objects EXCEPT ![k] = d]
      /\ objects \in [Keys -> Dep \cup {NoDep}]
  BY DEF Commit, watcherVars, moduleVars, TypeOK, K8sTypeOK
<1>2. e \in Queued /\ e.dep \in Dep /\ Carries(e, k) /\ \A l : Carries(e, l) => l = k
  BY EventDep DEF Queued, Known, Carries
<1>3. \A x \in Dep : x.rv =< rev => Before(x, e.dep)
  BY <1>2 DEF Before
<1>4. /\ Reached(pending.dep, rev) /\ Reached(current.dep, rev)
      /\ \A l \in Keys : Reached(objects[l], rev) /\ Reached(deployments[l], rev)
      /\ \A i \in 1..Len(watchQ) : Reached(watchQ[i].dep, rev)
  BY DEF PipelineInv, Revisions
<1>5. \A l : UpTo(watchQ, l, e.dep)
  BY <1>3, <1>4 DEF UpTo, Carries, Reached
<1>6. Ordered(watchQ')
  BY <1>2, <1>5, AppendKeeps DEF Commit, PipelineInv
<1>7. \A i \in 1..Len(watchQ') : watchQ'[i] = e \/ \E j \in 1..Len(watchQ) : watchQ'[i] = watchQ[j]
  BY <1>2, AppendProperties, LenProperties DEF Commit
<1>8. Revisions'
  <2>1. \A x \in Dep \cup {NoDep} : Reached(x, rev) => Reached(x, rev')
    BY <1>1 DEF Reached
  <2>2. Reached(e.dep, rev')
    BY <1>1, <1>2 DEF Reached
  <2>3. \A i \in 1..Len(watchQ') : Reached(watchQ'[i].dep, rev')
    BY <1>4, <1>7, <2>1, <2>2
  <2>4. \A l \in Keys : Reached(objects'[l], rev') /\ Reached(deployments'[l], rev')
    <3>1. d \in {NoDep, e.dep}
      OBVIOUS
    <3>2. Reached(d, rev')
      BY <2>2, <3>1 DEF Reached
    <3>3. QED
      BY <1>1, <1>4, <2>1, <3>2
  <2>5. QED
    BY <1>1, <1>4, <2>1, <2>3, <2>4 DEF Revisions
<1>9. ASSUME NEW l \in Keys PROVE Upstream(l)' /\ NothingLost(l)'
  <2>1. Upstream(l) /\ NothingLost(l)
    BY DEF PipelineInv
  <2>2. From(deployments[l], watchQ', l)
    <3>1. Carries(e, l) => Before(deployments[l], e.dep)
      BY <1>2, <1>3, <1>4 DEF Reached, Before
    <3>2. QED
      BY <1>2, <2>1, <3>1, AppendKeeps DEF Commit, Upstream
  <2>3. Carries(pending, l) => From(pending.dep, watchQ', l)
    BY <1>2, <1>3, <1>4, <2>1, AppendKeeps DEF Commit, Upstream, Carries, Reached
  <2>4. Carries(current, l) => From(current.dep, watchQ', l)
    BY <1>2, <1>3, <1>4, <2>1, AppendKeeps DEF Commit, Upstream, Carries, Reached
  <2>5. objects'[l] # NoDep =>
           /\ objects'[l].key = l
           /\ UpTo(watchQ', l, objects'[l])
           /\ Carries(pending, l) => Before(pending.dep, objects'[l])
           /\ Carries(current, l) => Before(current.dep, objects'[l])
           /\ Before(deployments[l], objects'[l])
    <3>1. CASE l = k /\ d # NoDep
      <4>1. objects'[l] = e.dep
        BY <1>1, <3>1
      <4>2. UpTo(watchQ', l, e.dep)
        BY <1>2, <1>5, AppendKeeps DEF Commit, Before
      <4>3. Before(deployments[l], e.dep)
        BY <1>3, <1>4 DEF Reached, Before
      <4>4. QED
        BY <1>3, <1>4, <3>1, <4>1, <4>2, <4>3 DEF Reached, Carries
    <3>2. CASE l = k /\ d = NoDep
      BY <1>1, <3>2
    <3>3. CASE l # k
      <4>1. objects'[l] = objects[l] /\ ~Carries(e, l)
        BY <1>1, <1>2, <3>3
      <4>2. UpTo(watchQ, l, objects[l]) => UpTo(watchQ', l, objects[l])
        BY <1>2, <4>1, AppendKeeps DEF Commit
      <4>3. QED
        BY <2>1, <4>1, <4>2 DEF Upstream
    <3>4. QED
      BY <3>1, <3>2, <3>3
  <2>6. Upstream(l)'
    BY <1>1, <2>1, <2>2, <2>3, <2>4, <2>5 DEF Upstream, Carries
  <2>7. NothingLost(l)'
    <3> SUFFICES ASSUME conn = "open", objects'[l] # NoDep
                 PROVE  \/ \E i \in 1..Len(watchQ') : watchQ'[i].dep = objects'[l]
                        \/ pending.dep = objects'[l]
                        \/ current.dep = objects'[l]
                        \/ deployments[l] = objects'[l]
      BY <1>1 DEF NothingLost
    <3>1. /\ Len(watchQ') = Len(watchQ) + 1
          /\ Len(watchQ) \in Nat
          /\ watchQ'[Len(watchQ')] = e
          /\ \A i \in 1..Len(watchQ) : watchQ'[i] = watchQ[i]
      BY <1>2, AppendProperties, LenProperties DEF Commit
    <3>2. CASE l = k
      BY <1>1, <3>1, <3>2
    <3>3. CASE l # k
      BY <1>1, <2>1, <3>1, <3>3 DEF NothingLost
    <3>4. QED
      BY <3>2, <3>3
  <2>8. QED
    BY <2>6, <2>7
<1>10. QED
  BY <1>6, <1>8, <1>9 DEF PipelineInv

\* The connection loses the rest of its queue, or all of it.
LEMMA ShrinkPipeline ==
    ASSUME TypeOK, TypeOK', PipelineInv, Part(watchQ', watchQ), conn' # "open",
           UNCHANGED <<rev, objects, pending, current, deployments>>
    PROVE  PipelineInv'
<1> USE PipelineTypes
<1>1. watchQ' \in Seq(Queued)
  BY DEF TypeOK, K8sTypeOK, Queued
<1>2. Ordered(watchQ')
  BY <1>1, PartKeeps DEF PipelineInv
<1>3. Revisions'
  <2>1. \A i \in 1..Len(watchQ') : \E j \in 1..Len(watchQ) : watchQ'[i] = watchQ[j]
    <3>1. PICK m \in Nat :
            Len(watchQ') + m =< Len(watchQ) /\ \A i \in 1..Len(watchQ') : watchQ'[i] = watchQ[i + m]
      BY DEF Part
    <3>2. \A i \in 1..Len(watchQ') : i + m \in 1..Len(watchQ)
      BY <1>1, <3>1, LenProperties
    <3>3. QED
      BY <3>1, <3>2
  <2>2. QED
    BY <2>1 DEF PipelineInv, Revisions
<1>4. ASSUME NEW k \in Keys PROVE Upstream(k)' /\ NothingLost(k)'
  <2>1. \A d : /\ From(d, watchQ, k) => From(d, watchQ', k)
               /\ UpTo(watchQ, k, d) => UpTo(watchQ', k, d)
    BY <1>1, PartKeeps
  <2>2. QED
    BY <2>1 DEF PipelineInv, Upstream, NothingLost
<1>5. QED
  BY <1>2, <1>3, <1>4 DEF PipelineInv

LEMMA BreakPipeline ==
    ASSUME TypeOK, PipelineInv, BreakConnection, UNCHANGED <<watcherVars, moduleVars>>
    PROVE  PipelineInv'
<1> USE PipelineTypes
<1>1. PICK n \in 0..Len(watchQ) : watchQ' = Append(SubSeq(watchQ, 1, n), ErrorEvent)
  BY DEF BreakConnection
<1> DEFINE q == SubSeq(watchQ, 1, n)
<1>2. q \in Seq(Queued) /\ Part(q, watchQ)
  BY PrefixType, PartOfQueue
<1>3. Len(q) = n /\ \A i \in 1..n : q[i] = watchQ[i]
  BY PrefixType
<1> HIDE DEF q
<1>4. ErrorEvent \in Queued /\ ErrorEvent.dep = NoDep /\ \A k : ~Carries(ErrorEvent, k)
  BY DEF Queued, ErrorEvent, Carries
<1>5. UNCHANGED <<rev, objects, pending, current, deployments>> /\ conn' # "open"
  BY DEF BreakConnection, watcherVars, moduleVars
<1>6. Ordered(watchQ')
  BY <1>1, <1>2, <1>4, AppendKeeps, PartKeeps DEF PipelineInv, q
<1>7. Revisions'
  <2>1. \A i \in 1..Len(watchQ') :
           watchQ'[i] = ErrorEvent \/ \E j \in 1..Len(watchQ) : watchQ'[i] = watchQ[j]
    <3>1. watchQ' = Append(q, ErrorEvent)
      BY <1>1 DEF q
    <3>2. Len(watchQ') = n + 1 /\ watchQ'[n + 1] = ErrorEvent
          /\ \A i \in 1..n : watchQ'[i] = q[i]
      BY <1>2, <1>3, <1>4, <3>1, AppendProperties
    <3>3. QED
      BY <1>3, <3>2, LenProperties
  <2>2. QED
    BY <1>4, <1>5, <2>1 DEF PipelineInv, Revisions, Reached
<1>8. ASSUME NEW k \in Keys PROVE Upstream(k)' /\ NothingLost(k)'
  <2>1. \A d : /\ From(d, watchQ, k) => From(d, watchQ', k)
               /\ UpTo(watchQ, k, d) => UpTo(watchQ', k, d)
    BY <1>1, <1>2, <1>4, PartKeeps, AppendKeeps DEF q
  <2>2. QED
    BY <1>5, <2>1 DEF PipelineInv, Upstream, NothingLost
<1>9. QED
  BY <1>6, <1>7, <1>8 DEF PipelineInv

LEMMA ClusterPipeline == TypeOK /\ TypeOK' /\ PipelineInv /\ Cluster => PipelineInv'
<1> SUFFICES ASSUME TypeOK, TypeOK', PipelineInv, Cluster PROVE PipelineInv'
  OBVIOUS
<1>1. UNCHANGED <<watcherVars, moduleVars>>
  BY DEF Cluster
<1>2. ASSUME NEW k \in Keys, Create(k) PROVE PipelineInv'
  <2> DEFINE d == [key |-> k, uid |-> rev + 1, rv |-> rev + 1]
  <2>1. d \in Dep /\ Change("ADDED", d) \in Event
    BY DEF TypeOK, K8sTypeOK, Dep, Event, Change
  <2>2. QED
    BY <1>1, <1>2, <2>1, CommitPipeline DEF Create, Change
<1>3. ASSUME NEW k \in Keys, Update(k) \/ Delete(k) PROVE PipelineInv'
  <2> DEFINE d == [objects[k] EXCEPT !.rv = rev + 1]
  <2>1. objects[k] \in Dep /\ objects[k].key = k
    BY <1>3 DEF Update, Delete, TypeOK, K8sTypeOK, PipelineInv, Upstream
  <2>2. d \in Dep /\ d.key = k /\ d.rv = rev + 1
    <3>1. rev + 1 \in Nat
      BY DEF TypeOK, K8sTypeOK
    <3>2. QED
      BY <2>1, <3>1 DEF Dep
  <2>3. Change("MODIFIED", d) \in Event /\ Change("DELETED", d) \in Event
    BY <2>2 DEF Event, Change
  <2>4. CASE Update(k)
    BY <1>1, <2>2, <2>3, <2>4, CommitPipeline DEF Update, Change
  <2>5. CASE Delete(k)
    BY <1>1, <2>2, <2>3, <2>5, CommitPipeline DEF Delete, Change
  <2>6. QED
    BY <1>3, <2>4, <2>5
<1>4. CASE EndConnection
  <2>1. Part(watchQ', watchQ)
    BY <1>4, PipelineTypes, PartOfQueue DEF EndConnection
  <2>2. QED
    BY <1>1, <1>4, <2>1, ShrinkPipeline DEF EndConnection, watcherVars, moduleVars
<1>5. CASE BreakConnection
  BY <1>1, <1>5, BreakPipeline
<1>6. CASE Shutdown
  BY <1>1, <1>6
     DEF Shutdown, PipelineInv, Revisions, Upstream, NothingLost, watcherVars, moduleVars
<1>7. QED
  BY <1>2, <1>3, <1>4, <1>5, <1>6 DEF Cluster, K8sStep

\* A fresh connection lists the objects as they are.
LEMMA ListingPipeline ==
    ASSUME TypeOK, PipelineInv, WatchDeployments, UNCHANGED moduleVars
    PROVE  PipelineInv'
<1> USE PipelineTypes
<1>1. /\ UNCHANGED <<rev, objects, pending, current, deployments>>
      /\ watchQ' \in Listings
      /\ pending = NoEvent
  BY DEF WatchDeployments, OpenConnection, moduleVars, TypeOK, WatcherTypeOK
<1>2. \A k \in Keys : objects[k] # NoDep => objects[k].key = k
  BY DEF PipelineInv, Upstream
<1>3. /\ \A i \in 1..Len(watchQ') : \E k \in Existing : watchQ'[i] = Change("ADDED", objects[k])
      /\ \A k \in Existing : \E i \in 1..Len(watchQ') : watchQ'[i] = Change("ADDED", objects[k])
  <2>1. DOMAIN watchQ' = 1..Len(watchQ')
    BY <1>1, ListingsType, LenProperties DEF TypeOK, K8sTypeOK
  <2>2. DOMAIN watchQ' = 1..Cardinality(Existing)
    BY <1>1 DEF Listings
  <2>3. \A i \in 1..Cardinality(Existing) :
           watchQ'[i] \in {Change("ADDED", objects[k]) : k \in Existing}
    BY <1>1 DEF Listings
  <2>4. \A k \in Existing : \E i \in DOMAIN watchQ' : watchQ'[i] = Change("ADDED", objects[k])
    BY <1>1 DEF Listings
  <2>5. QED
    BY <2>1, <2>2, <2>3, <2>4
<1>4. /\ \A i \in 1..Len(watchQ') : \E k \in Existing : watchQ'[i].dep = objects[k]
      /\ \A k \in Existing : \E i \in 1..Len(watchQ') : watchQ'[i].dep = objects[k]
  <2>1. \A k \in Existing : Change("ADDED", objects[k]).dep = objects[k]
    BY DEF Change
  <2>2. QED
    BY <1>3, <2>1
<1>5. \A k \in Existing : k \in Keys /\ objects[k] # NoDep /\ objects[k].key = k
  BY <1>2 DEF Existing
<1>6. ASSUME NEW i \in 1..Len(watchQ'), NEW k \in Keys, Carries(watchQ'[i], k)
      PROVE  watchQ'[i].dep = objects[k] /\ objects[k] # NoDep
  BY <1>6, <1>4, <1>5 DEF Carries
<1>7. \A i \in 1..Len(watchQ') : watchQ'[i].dep # NoDep /\ watchQ'[i].dep.key \in Keys
  BY <1>4, <1>5
<1>8. Ordered(watchQ')
  <2> SUFFICES ASSUME NEW i \in 1..Len(watchQ'), NEW j \in 1..Len(watchQ'),
                      Carries(watchQ'[j], watchQ'[i].dep.key)
               PROVE  watchQ'[i].dep = watchQ'[j].dep
    BY DEF Ordered, Before
  <2>1. watchQ'[i].dep.key \in Keys /\ Carries(watchQ'[i], watchQ'[i].dep.key)
    BY <1>7 DEF Carries
  <2>2. QED
    BY <1>6, <2>1
<1>9. Revisions'
  <2>1. \A k \in Existing : Reached(objects[k], rev)
    BY <1>5 DEF PipelineInv, Revisions
  <2>2. \A i \in 1..Len(watchQ') : Reached(watchQ'[i].dep, rev)
    BY <1>4, <2>1
  <2>3. QED
    BY <1>1, <2>2 DEF PipelineInv, Revisions
<1>10. ASSUME NEW k \in Keys PROVE Upstream(k)' /\ NothingLost(k)'
  <2>1. Upstream(k)
    BY DEF PipelineInv
  <2>2. /\ ~Carries(pending, k)
        /\ UpTo(watchQ', k, objects[k])
        /\ \A d : (objects[k] # NoDep => Before(d, objects[k])) => From(d, watchQ', k)
    BY <1>1, <1>6 DEF Carries, UpTo, From, Before, NoEvent
  <2>3. From(deployments[k], watchQ', k)
    BY <2>1, <2>2 DEF Upstream
  <2>4. Carries(current, k) => From(current.dep, watchQ', k)
    BY <2>1, <2>2 DEF Upstream
  <2>5. Upstream(k)'
    BY <1>1, <2>1, <2>2, <2>3, <2>4 DEF Upstream
  <2>6. NothingLost(k)'
    <3>1. objects[k] # NoDep => k \in Existing
      BY DEF Existing
    <3>2. QED
      BY <1>1, <1>4, <3>1 DEF NothingLost
  <2>7. QED
    BY <2>5, <2>6
<1>11. QED
  BY <1>8, <1>9, <1>10 DEF PipelineInv

LEMMA WatcherPipeline == TypeOK /\ TypeOK' /\ PipelineInv /\ Watcher => PipelineInv'
<1> SUFFICES ASSUME TypeOK, TypeOK', PipelineInv, Watcher PROVE PipelineInv'
  OBVIOUS
<1> USE PipelineTypes
<1>1. UNCHANGED moduleVars
  BY DEF Watcher
<1>2. CASE WatchDeployments
  BY <1>1, <1>2, ListingPipeline
<1>3. CASE WatchRequestFails
  BY <1>1, <1>3
     DEF WatchRequestFails, ReturnError, moduleVars, PipelineInv, Revisions, Upstream,
         NothingLost
<1>4. CASE NextEvent
  <2>1. /\ UNCHANGED <<rev, objects, conn, current, deployments>>
        /\ pending = NoEvent /\ pending' = Head(watchQ) /\ watchQ' = Tail(watchQ)
        /\ watchQ # <<>>
    BY <1>1, <1>4 DEF NextEvent, moduleVars, TypeOK, WatcherTypeOK
  <2>2. watchQ' \in Seq(Queued) /\ Part(watchQ', watchQ)
    BY <2>1, HeadTailProperties, PartOfQueue
  <2>3. /\ Len(watchQ) \in Nat \ {0}
        /\ Len(watchQ') = Len(watchQ) - 1
        /\ \A i \in 1..Len(watchQ') : watchQ'[i] = watchQ[i + 1]
        /\ pending' = watchQ[1]
    BY <2>1, HeadTailProperties, EmptySeq
  <2>4. Ordered(watchQ')
    BY <2>2, PartKeeps DEF PipelineInv
  <2>5. Revisions'
    BY <2>1, <2>3 DEF PipelineInv, Revisions
  <2>6. ASSUME NEW k \in Keys PROVE Upstream(k)' /\ NothingLost(k)'
    <3>1. Upstream(k) /\ NothingLost(k)
      BY DEF PipelineInv
    <3>2. \A d : /\ From(d, watchQ, k) => From(d, watchQ', k)
                 /\ UpTo(watchQ, k, d) => UpTo(watchQ', k, d)
      BY <2>2, PartKeeps
    <3>3. Carries(pending', k) => From(pending'.dep, watchQ', k)
      <4>1. \A i \in 1..Len(watchQ') : i + 1 \in 1..Len(watchQ) /\ 1 < i + 1
        BY <2>3
      <4>2. Ordered(watchQ) /\ 1 \in 1..Len(watchQ)
        BY <2>3 DEF PipelineInv
      <4>3. QED
        BY <2>3, <4>1, <4>2 DEF Ordered, From, Carries
    <3>4. \A d : From(d, watchQ, k) => (Carries(pending', k) => Before(d, pending'.dep))
      BY <2>3 DEF From
    <3>5. \A d : UpTo(watchQ, k, d) => (Carries(pending', k) => Before(pending'.dep, d))
      BY <2>3 DEF UpTo
    <3>6. Upstream(k)'
      BY <2>1, <3>1, <3>2, <3>3, <3>4, <3>5 DEF Upstream
    <3>7. NothingLost(k)'
      <4>1. \A i \in 1..Len(watchQ) : i = 1 \/ (i - 1 \in 1..Len(watchQ') /\ watchQ[i] = watchQ'[i - 1])
        BY <2>3
      <4>2. pending.dep = NoDep
        BY <2>1 DEF NoEvent
      <4>3. QED
        BY <2>1, <2>3, <3>1, <4>1, <4>2 DEF NothingLost
    <3>8. QED
      BY <3>6, <3>7
  <2>7. QED
    BY <2>4, <2>5, <2>6 DEF PipelineInv
<1>5. CASE ConversionFails \/ ChannelClosed \/ ContextDone
  <2>1. Part(watchQ', watchQ)
    BY <1>5, PartOfQueue DEF ConversionFails, ChannelClosed, ContextDone, Stop
  <2>2. QED
    BY <1>1, <1>5, <2>1, ShrinkPipeline
       DEF ConversionFails, ChannelClosed, ContextDone, Stop, ReturnError, moduleVars
<1>6. QED
  BY <1>2, <1>3, <1>4, <1>5 DEF Watcher, WatcherStep

\* The streamer moves its event into the cache.
LEMMA StreamerPipeline == TypeOK /\ TypeOK' /\ PipelineInv /\ Streamer => PipelineInv'
<1> SUFFICES ASSUME TypeOK, TypeOK', PipelineInv, Streamer PROVE PipelineInv'
  OBVIOUS
<1> USE PipelineTypes DEF k8sVars
<1>1. CASE ReceiveEvent
  <2>1. /\ UNCHANGED <<rev, objects, conn, watchQ, deployments>>
        /\ current = NoEvent /\ current' = pending /\ pending' = NoEvent
        /\ NoEvent.dep = NoDep
    BY <1>1 DEF ReceiveEvent, TypeOK, ModuleTypeOK, NoEvent
  <2>2. \A k : ~Carries(pending', k)
    BY <2>1 DEF Carries
  <2>3. Revisions'
    BY <2>1 DEF PipelineInv, Revisions, Reached
  <2>4. ASSUME NEW k \in Keys PROVE Upstream(k)' /\ NothingLost(k)'
    BY <2>1, <2>2 DEF PipelineInv, Upstream, NothingLost
  <2>5. QED
    BY <2>1, <2>3, <2>4 DEF PipelineInv
<1>2. CASE ApplyEvent
  <2> DEFINE d == current.dep
  <2>1. /\ UNCHANGED <<rev, objects, conn, watchQ, pending>>
        /\ current' = NoEvent /\ NoEvent.dep = NoDep
        /\ deployments' = [deployments EXCEPT ![d.key] = d]
    BY <1>2 DEF ApplyEvent, watcherVars, NoEvent
  <2>2. d \in Dep /\ d.key \in Keys /\ Carries(current, d.key)
    BY <1>2, EventDep DEF ApplyEvent, TypeOK, ModuleTypeOK, Known, Carries
  <2>3. deployments' \in [Keys -> Dep \cup {NoDep}]
    BY DEF TypeOK, ModuleTypeOK
  <2>4. deployments \in [Keys -> Dep \cup {NoDep}]
    BY DEF TypeOK, ModuleTypeOK
  <2>5. \A k : ~Carries(current', k)
    BY <2>1 DEF Carries
  <2>6. Revisions'
    BY <2>1, <2>2, <2>4 DEF PipelineInv, Revisions, Reached
  <2>7. ASSUME NEW k \in Keys PROVE Upstream(k)' /\ NothingLost(k)'
    <3>1. Upstream(k) /\ NothingLost(k)
      BY DEF PipelineInv
    <3>2. CASE k = d.key
      <4>1. deployments'[k] = d /\ Carries(current, k)
        BY <2>1, <2>2, <2>4, <3>2
      <4>2. Upstream(k)'
        BY <2>1, <2>5, <3>1, <4>1 DEF Upstream
      <4>3. objects[k] # NoDep /\ deployments[k] = objects[k] => d = objects[k]
        <5>1. SUFFICES ASSUME objects[k] # NoDep, deployments[k] = objects[k]
                       PROVE  d = objects[k]
          OBVIOUS
        <5>2. Before(objects[k], d) /\ Before(d, objects[k])
          BY <3>1, <4>1, <5>1 DEF Upstream
        <5>3. QED
          BY <2>2, <5>1, <5>2, BeforeAntisymmetric
      <4>4. NothingLost(k)'
        BY <2>1, <3>1, <4>1, <4>3 DEF NothingLost
      <4>5. QED
        BY <4>2, <4>4
    <3>3. CASE k # d.key
      <4>1. deployments'[k] = deployments[k] /\ ~Carries(current, k)
        BY <2>1, <2>4, <3>3 DEF Carries
      <4>2. Upstream(k)'
        BY <2>1, <2>5, <3>1, <4>1 DEF Upstream
      <4>3. current.dep = objects[k] => objects[k] = NoDep
        BY <2>2, <3>1, <3>3 DEF Upstream
      <4>4. NothingLost(k)'
        BY <2>1, <3>1, <4>1, <4>3 DEF NothingLost
      <4>5. QED
        BY <4>2, <4>4
    <3>4. QED
      BY <3>2, <3>3
  <2>8. QED
    BY <2>1, <2>6, <2>7 DEF PipelineInv
<1>3. CASE StreamContextDone \/ CloseChannels
  BY <1>3 DEF StreamContextDone, CloseChannels, watcherVars, PipelineInv, Revisions,
              Upstream, NothingLost
<1>4. QED
  BY <1>1, <1>2, <1>3 DEF Streamer, StreamerStep

LEMMA PipelineUntouched ==
    PipelineInv /\ UNCHANGED <<k8sVars, watcherVars, current, deployments>> => PipelineInv'
BY DEF PipelineInv, Revisions, Upstream, NothingLost, k8sVars, watcherVars

LEMMA SlotUpstream ==
    \A s \in Subs : Slot(s) => UNCHANGED <<k8sVars, watcherVars, current, deployments>>
BY DEF Slot, Subscribe, Register, HandlerStep, SendInitial, SendInitialFails,
       ReceiveUpdate, SendUpdate, SendUpdateFails, RequestContextDone, ChannelDrained,
       Return, ClientLeaves, RemoveChannel,
       Deregister, moduleVars

LEMMA InitPipeline == Init => PipelineInv
<1> SUFFICES ASSUME Init PROVE PipelineInv
  OBVIOUS
<1>1. /\ watchQ = <<>> /\ Len(watchQ) = 0
      /\ objects = [k \in Keys |-> NoDep] /\ deployments = [k \in Keys |-> NoDep]
      /\ pending.dep = NoDep /\ current.dep = NoDep
  BY EmptySeq DEF Init, K8sInit, WatcherInit, ModuleInit, NoEvent
<1>2. Ordered(watchQ) /\ Revisions
  BY <1>1 DEF Ordered, Revisions, Reached
<1>3. ASSUME NEW k \in Keys PROVE Upstream(k) /\ NothingLost(k)
  BY <1>1 DEF Upstream, NothingLost, Carries, From, UpTo, Before
<1>4. QED
  BY <1>2, <1>3 DEF PipelineInv

LEMMA PipelineCorrect == Spec => []PipelineInv
<1>1. TypeOK /\ TypeOK' /\ PipelineInv /\ [Next]_vars => PipelineInv'
  <2> SUFFICES ASSUME TypeOK, TypeOK', PipelineInv, [Next]_vars PROVE PipelineInv'
    OBVIOUS
  <2>1. CASE Cluster
    BY <2>1, ClusterPipeline
  <2>2. CASE Watcher
    BY <2>2, WatcherPipeline
  <2>3. CASE Streamer
    BY <2>3, StreamerPipeline
  <2>4. ASSUME NEW s \in Subs, Slot(s) PROVE PipelineInv'
    BY <2>4, SlotUpstream, PipelineUntouched
  <2>5. CASE UNCHANGED vars
    BY <2>5, PipelineUntouched DEF vars, moduleVars
  <2>6. QED
    BY <2>1, <2>2, <2>3, <2>4, <2>5 DEF Next, Slot
<1>2. QED
  BY InitPipeline, <1>1, TypeCorrect, PTL DEF Spec

\* The cache converges: whenever the pipeline of an open connection is empty, the
\* cache holds the latest version of every deployment that exists, for any number
\* of lost connections and any moment at which they were lost.
THEOREM CacheCatchesUp == Spec => []CacheIsCurrent
<1>1. TypeOK /\ PipelineInv => CacheIsCurrent
  <2> SUFFICES ASSUME TypeOK, PipelineInv, Settled, NEW k \in Existing
               PROVE  GetDeployment(k) = objects[k]
    BY DEF CacheIsCurrent
  <2>1. k \in Keys /\ objects[k] # NoDep /\ NothingLost(k)
    BY DEF PipelineInv, Existing
  <2>2. Len(watchQ) = 0 /\ pending.dep = NoDep /\ current.dep = NoDep
    BY EmptySeq DEF Settled, NoEvent
  <2>3. QED
    BY <2>1, <2>2 DEF NothingLost, Settled, GetDeployment
<1>2. QED
  BY <1>1, TypeCorrect, PipelineCorrect, PTL

-----------------------------------------------------------------------------
(* From the cache to the clients *)

LEMMA StreamTypes ==
    ASSUME TypeOK, NEW s \in Subs
    PROVE  /\ chan[s] \in Seq(Event) /\ Len(chan[s]) \in Nat
           /\ \A i \in 1..Len(chan[s]) : chan[s][i] \in Event /\ chan[s][i].dep \in Dep
           /\ snapshot[s] \subseteq Dep
           /\ \A k \in Keys : shown[s][k].dep \in Dep \cup {NoDep}
           /\ \A k \in Keys : deployments[k] \in Dep \cup {NoDep}
           /\ \A k \in Keys : deployments[k] # NoDep => deployments[k].key = k
           /\ NoDep \notin Dep
<1>1. chan[s] \in Seq(Event) /\ Len(chan[s]) \in Nat
  BY LenProperties DEF TypeOK, ModuleTypeOK
<1>2. \A i \in 1..Len(chan[s]) : chan[s][i] \in Event
  BY <1>1, ElementOfSeq
<1>3. \A e \in Event : e.dep \in Dep
  BY DEF Event
<1>4. \A k \in Keys : shown[s][k] \in Known
  BY DEF TypeOK, Known
<1>5. QED
  BY <1>1, <1>2, <1>3, <1>4, EventDep, ConstantsDistinct DEF TypeOK, ModuleTypeOK

LEMMA ApplyStream ==
    ASSUME TypeOK, TypeOK', PipelineInv, StreamInv, ApplyEvent, UNCHANGED handlerVars
    PROVE  StreamInv'
<1> DEFINE d == current.dep
<1>1. current \in Event /\ d \in Dep /\ d.key \in Keys /\ Carries(current, d.key)
  BY EventDep DEF ApplyEvent, TypeOK, ModuleTypeOK, Known, Carries
<1>2. \A k : Carries(current, k) => k = d.key
  BY DEF Carries
<1>3. /\ deployments' = [deployments EXCEPT ![d.key] = d]
      /\ deployments \in [Keys -> Dep \cup {NoDep}]
      /\ UNCHANGED <<channels, hpc, snapshot, shown>>
  BY DEF ApplyEvent, TypeOK, ModuleTypeOK, handlerVars
<1>4. Before(deployments[d.key], d)
  BY <1>1 DEF PipelineInv, Upstream
<1> HIDE DEF d
<1>5. \A x \in Dep : deployments[d.key] # NoDep /\ Before(x, deployments[d.key]) => Before(x, d)
  BY <1>1, <1>3, <1>4, BeforeTransitive
<1>6. \A k \in Keys : deployments[k] # NoDep => deployments'[k] # NoDep
  BY <1>1, <1>3, ConstantsDistinct
<1>7. \A x \in Dep, k \in Keys :
         deployments[k] # NoDep /\ Before(x, deployments[k]) => Before(x, deployments'[k])
  BY <1>3, <1>5
<1>8. ASSUME NEW s \in Subs
      PROVE  Ordered(chan[s])' /\ \A k \in Keys : Downstream(s, k)' /\ Delivery(s, k)'
  <2> USE StreamTypes
  <2>1. Ordered(chan[s]) /\ \A k \in Keys : Downstream(s, k) /\ Delivery(s, k)
    BY DEF StreamInv
  <2>2. \/ chan'[s] = chan[s] /\ (s \in channels => missed'[s] = missed[s] \cup {d.key})
        \/ chan'[s] = Append(chan[s], current) /\ missed'[s] = missed[s] \ {d.key}
    BY DEF ApplyEvent, d
  <2>3. chan'[s] = Append(chan[s], current) =>
           /\ Len(chan'[s]) = Len(chan[s]) + 1
           /\ chan'[s][Len(chan[s]) + 1] = current
           /\ \A i \in 1..Len(chan[s]) : chan'[s][i] = chan[s][i]
    BY <1>1, AppendProperties
  <2>4. \A i \in 1..Len(chan'[s]) :
           (i \in 1..Len(chan[s]) /\ chan'[s][i] = chan[s][i]) \/ chan'[s][i] = current
    BY <2>2, <2>3
  <2>5. UpTo(chan[s], d.key, d)
    BY <1>1, <1>5, <2>1 DEF Downstream, UpTo, Mentions
  <2>6. Ordered(chan[s])'
    <3>1. CASE chan'[s] = chan[s]
      BY <2>1, <3>1 DEF Ordered
    <3>2. CASE chan'[s] = Append(chan[s], current)
      <4>1. \A k : Carries(current, k) => UpTo(chan[s], k, current.dep)
        BY <1>2, <2>5 DEF d
      <4>2. Ordered(chan'[s])
        BY <1>1, <2>1, <3>2, <4>1, AppendKeeps
      <4>3. QED
        BY <4>2
    <3>3. QED
      BY <2>2, <3>1, <3>2
  <2>7. ASSUME NEW k \in Keys PROVE Downstream(s, k)' /\ Delivery(s, k)'
    <3>1. UpTo(chan'[s], k, deployments'[k])
      <4>1. \A i \in 1..Len(chan[s]) :
               Carries(chan[s][i], k) => Before(chan[s][i].dep, deployments'[k])
        BY <1>7, <2>1 DEF Downstream, UpTo, Mentions
      <4>2. Carries(current, k) => deployments'[k] = current.dep
        BY <1>1, <1>2, <1>3 DEF d
      <4>3. QED
        BY <2>4, <4>1, <4>2 DEF UpTo, Before
    <3>2. Mentions(chan'[s], k) => deployments'[k] # NoDep
      <4>1. Carries(current, k) => deployments'[k] # NoDep
        BY <1>1, <1>2, <1>3, ConstantsDistinct
      <4>2. QED
        BY <1>6, <2>1, <2>4, <4>1 DEF Downstream, Mentions
    <3>3. \A x \in Dep \cup {NoDep} :
             (x # NoDep => deployments[k] # NoDep /\ Before(x, deployments[k])) /\ From(x, chan[s], k)
                => From(x, chan'[s], k)
      <4>1. ASSUME NEW x \in Dep \cup {NoDep}, Carries(current, k),
                   x # NoDep => deployments[k] # NoDep /\ Before(x, deployments[k])
            PROVE  Before(x, current.dep)
        BY <1>2, <1>5, <4>1 DEF Before, d
      <4>2. QED
        BY <2>4, <4>1 DEF From
    <3>4. \A x \in snapshot[s] : x.key = k =>
             /\ deployments'[k] # NoDep
             /\ Before(x, deployments'[k])
             /\ From(x, chan'[s], k)
             /\ Before(shown[s][k].dep, x)
             /\ \A e \in snapshot[s] : e.key = k => e = x
      BY <1>6, <1>7, <2>1, <3>3 DEF Downstream
    <3>5. /\ shown[s][k].dep # NoDep => deployments'[k] # NoDep
          /\ Before(shown[s][k].dep, deployments'[k])
          /\ From(shown[s][k].dep, chan'[s], k)
      <4>1. shown[s][k].dep # NoDep => Before(shown[s][k].dep, deployments'[k])
        BY <1>7, <2>1 DEF Downstream
      <4>2. From(shown[s][k].dep, chan'[s], k)
        BY <2>1, <3>3 DEF Downstream
      <4>3. QED
        BY <1>6, <2>1, <4>1, <4>2 DEF Downstream, Before
    <3>6. Downstream(s, k)'
      BY <1>3, <3>1, <3>2, <3>4, <3>5 DEF Downstream
    <3>7. Delivery(s, k)'
      <4> SUFFICES ASSUME hpc[s] = "open", k \notin missed'[s], deployments'[k] # NoDep
                   PROVE  \/ \E i \in 1..Len(chan'[s]) : chan'[s][i].dep = deployments'[k]
                          \/ deployments'[k] \in snapshot[s]
                          \/ shown[s][k].dep = deployments'[k]
        BY <1>3 DEF Delivery
      <4>0. s \in channels
        BY DEF StreamInv, OpenRegistered, ApplyEvent
      <4>1. CASE k = d.key
        <5>1. chan'[s] = Append(chan[s], current)
          BY <2>2, <4>0, <4>1
        <5>2. Len(chan[s]) + 1 \in 1..Len(chan'[s]) /\ deployments'[k] = current.dep
          BY <1>1, <1>3, <2>3, <4>1, <5>1 DEF d
        <5>3. QED
          BY <2>3, <5>1, <5>2
      <4>2. CASE k # d.key
        <5>1. deployments'[k] = deployments[k] /\ k \notin missed[s]
          BY <1>3, <2>2, <4>0, <4>2
        <5>2. \A i \in 1..Len(chan[s]) : i \in 1..Len(chan'[s]) /\ chan'[s][i] = chan[s][i]
          BY <2>2, <2>3
        <5>3. QED
          BY <2>1, <5>1, <5>2 DEF Delivery
      <4>3. QED
        BY <4>1, <4>2
    <3>8. QED
      BY <3>6, <3>7
  <2>8. QED
    BY <2>6, <2>7
<1>9. \A s \in Subs : SnapshotFirst(s)' /\ OpenRegistered(s)'
  BY <1>3 DEF StreamInv, SnapshotFirst, OpenRegistered, ApplyEvent
<1>10. QED
  BY <1>8, <1>9 DEF StreamInv

\* A slot's step disturbs that slot only.
LEMMA OtherSlots ==
    ASSUME TypeOK, StreamInv, NEW s \in Subs, Slot(s), NEW t \in Subs, t # s
    PROVE  Ordered(chan[t])' /\ \A k \in Keys : Downstream(t, k)' /\ Delivery(t, k)'
<1>1. UNCHANGED deployments
  BY SlotUpstream
<1>2. /\ chan'[t] = chan[t] /\ snapshot'[t] = snapshot[t] /\ shown'[t] = shown[t]
      /\ hpc'[t] = hpc[t] /\ missed'[t] = missed[t]
      /\ t \in channels' <=> t \in channels
  <2> USE DEF moduleVars, handlerVars, TypeOK, ModuleTypeOK
  <2>1. CASE Subscribe(s)
    BY <2>1 DEF Subscribe, Register
  <2>2. CASE SendInitial(s)
    BY <2>2 DEF SendInitial, Show
  <2>3. CASE ReceiveUpdate(s)
    BY <2>3 DEF ReceiveUpdate
  <2>4. CASE SendUpdate(s)
    BY <2>4 DEF SendUpdate, Show
  <2>5. CASE ClientLeaves(s) \/ Return(s)
    BY <2>5 DEF ClientLeaves, Return
  <2>6. CASE RemoveChannel(s)
    BY <2>6 DEF RemoveChannel, Deregister
  <2>7. QED
    BY <2>1, <2>2, <2>3, <2>4, <2>5, <2>6
       DEF Slot, HandlerStep, SendInitialFails, SendUpdateFails, RequestContextDone,
           ChannelDrained
<1>3. Ordered(chan[t])'
  BY <1>2 DEF StreamInv, Ordered
<1>4. ASSUME NEW k \in Keys PROVE Downstream(t, k)' /\ Delivery(t, k)'
  <2>1. Downstream(t, k) /\ Delivery(t, k)
    BY DEF StreamInv
  <2>2. Downstream(t, k)'
    BY <1>1, <1>2, <2>1 DEF Downstream, UpTo, From, Mentions
  <2>3. Delivery(t, k)'
    BY <1>1, <1>2, <2>1 DEF Delivery
  <2>4. QED
    BY <2>2, <2>3
<1>5. QED
  BY <1>3, <1>4

\* An empty queue is in any order.
LEMMA EmptyQueue ==
    /\ Ordered(<<>>)
    /\ \A k : ~Mentions(<<>>, k)
    /\ \A d, k : From(d, <<>>, k) /\ UpTo(<<>>, k, d)
BY EmptySeq DEF Ordered, Mentions, From, UpTo

\* A new subscription starts from the cache as it is at that moment.
LEMMA SubscribeStream ==
    ASSUME TypeOK, StreamInv, NEW s \in Subs, Subscribe(s)
    PROVE  Ordered(chan[s])' /\ \A k \in Keys : Downstream(s, k)' /\ Delivery(s, k)'
<1> USE StreamTypes, EmptyQueue
<1>1. /\ chan'[s] = <<>> /\ snapshot'[s] = CloneDeployments
      /\ UNCHANGED <<shown, deployments>>
  BY DEF Subscribe, Register, TypeOK, ModuleTypeOK
<1>2. \A k \in Keys : \A d \in CloneDeployments : d.key = k => d = deployments[k] /\ d # NoDep
  BY DEF CloneDeployments, GetDeployment
<1>3. \A k \in Keys : deployments[k] # NoDep => deployments[k] \in CloneDeployments
  BY DEF CloneDeployments, GetDeployment
<1>4. ASSUME NEW k \in Keys PROVE Downstream(s, k)' /\ Delivery(s, k)'
  <2>1. /\ shown[s][k].dep # NoDep => deployments[k] # NoDep
        /\ Before(shown[s][k].dep, deployments[k])
    BY DEF StreamInv, Downstream
  <2>2. Downstream(s, k)'
    BY <1>1, <1>2, <2>1 DEF Downstream, Before
  <2>3. Delivery(s, k)'
    BY <1>1, <1>3 DEF Delivery
  <2>4. QED
    BY <2>2, <2>3
<1>5. Ordered(chan[s])'
  BY <1>1
<1>6. QED
  BY <1>4, <1>5

\* The handler writes a deployment of its snapshot: the channel, which it has not
\* touched yet, can only bring later states.
LEMMA SendInitialStream ==
    ASSUME TypeOK, StreamInv, NEW s \in Subs, SendInitial(s)
    PROVE  Ordered(chan[s])' /\ \A k \in Keys : Downstream(s, k)' /\ Delivery(s, k)'
<1> USE StreamTypes
<1>1. PICK d \in snapshot[s] :
        /\ Show(s, Change("ADDED", d))
        /\ snapshot' = [snapshot EXCEPT ![s] = @ \ {d}]
  BY DEF SendInitial
<1>2. d \in Dep /\ d.key \in Keys /\ d # NoDep
  BY EventDep
<1>3. /\ UNCHANGED <<chan, deployments, channels, missed, hpc>>
      /\ snapshot'[s] = snapshot[s] \ {d}
      /\ shown'[s] = [shown[s] EXCEPT ![d.key] = Change("ADDED", d)]
      /\ Change("ADDED", d).dep = d
  BY <1>1 DEF SendInitial, Show, Change, moduleVars, TypeOK
<1>4. \A k \in Keys : shown'[s][k].dep = IF k = d.key THEN d ELSE shown[s][k].dep
  BY <1>3 DEF TypeOK
<1>5. ASSUME NEW k \in Keys PROVE Downstream(s, k)' /\ Delivery(s, k)'
  <2>1. Downstream(s, k) /\ Delivery(s, k)
    BY DEF StreamInv
  <2>2. CASE k = d.key
    <3>1. /\ shown'[s][k].dep = d
          /\ deployments[k] # NoDep /\ Before(d, deployments[k])
          /\ From(d, chan[s], k) /\ Before(shown[s][k].dep, d)
          /\ \A e \in snapshot'[s] : e.key # k
      BY <1>3, <1>4, <2>1, <2>2 DEF Downstream
    <3>2. Downstream(s, k)'
      BY <1>3, <2>1, <3>1 DEF Downstream
    <3>3. shown[s][k].dep = deployments[k] => d = deployments[k]
      BY <1>2, <3>1, BeforeAntisymmetric
    <3>4. Delivery(s, k)'
      BY <1>3, <2>1, <3>1, <3>3 DEF Delivery
    <3>5. QED
      BY <3>2, <3>4
  <2>3. CASE k # d.key
    <3>1. /\ shown'[s][k].dep = shown[s][k].dep
          /\ \A e \in Dep : e.key = k => (e \in snapshot'[s] <=> e \in snapshot[s])
          /\ snapshot'[s] \subseteq snapshot[s]
      BY <1>3, <1>4, <2>3
    <3>2. Downstream(s, k)'
      BY <1>3, <2>1, <3>1 DEF Downstream
    <3>3. Delivery(s, k)'
      BY <1>3, <2>1, <3>1 DEF Delivery
    <3>4. QED
      BY <3>2, <3>3
  <2>4. QED
    BY <2>2, <2>3
<1>6. Ordered(chan[s])'
  BY <1>3 DEF StreamInv
<1>7. QED
  BY <1>5, <1>6

\* The handler writes the next event of its channel.
LEMMA SendUpdateStream ==
    ASSUME TypeOK, StreamInv, NEW s \in Subs, SendUpdate(s)
    PROVE  Ordered(chan[s])' /\ \A k \in Keys : Downstream(s, k)' /\ Delivery(s, k)'
<1> USE StreamTypes
<1> DEFINE e == Head(chan[s])
<1>1. /\ chan[s] # <<>> /\ chan'[s] = Tail(chan[s])
      /\ UNCHANGED <<deployments, channels, missed, hpc, snapshot>>
      /\ snapshot[s] = {}
      /\ shown'[s] = [shown[s] EXCEPT ![e.dep.key] = e]
  BY DEF SendUpdate, Writing, Show, TypeOK, ModuleTypeOK, Buffered, StreamInv, SnapshotFirst
<1>2. /\ e \in Event /\ e = chan[s][1] /\ 1 \in 1..Len(chan[s])
      /\ chan'[s] \in Seq(Event)
      /\ Len(chan'[s]) = Len(chan[s]) - 1
      /\ \A i \in 1..Len(chan'[s]) : chan'[s][i] = chan[s][i + 1]
  BY <1>1, HeadTailProperties, EmptySeq
<1> HIDE DEF e
<1>3. e.dep \in Dep /\ e.dep.key \in Keys /\ e.dep # NoDep
  BY <1>2, EventDep
<1>4. \A k \in Keys : shown'[s][k].dep = IF k = e.dep.key THEN e.dep ELSE shown[s][k].dep
  BY <1>1, <1>3 DEF TypeOK
<1>5. Part(chan'[s], chan[s])
  BY <1>1, PartOfQueue
<1>6. Ordered(chan'[s])
  BY <1>2, <1>5, PartKeeps DEF StreamInv
<1>7. From(e.dep, chan'[s], e.dep.key)
  <2>1. \A i \in 1..Len(chan'[s]) : i + 1 \in 1..Len(chan[s]) /\ 1 < i + 1
    BY <1>2
  <2>2. Ordered(chan[s])
    BY DEF StreamInv
  <2>3. QED
    BY <1>2, <1>3, <2>1, <2>2 DEF Ordered, From, Carries
<1>8. \A i \in 1..Len(chan[s]) :
         i = 1 \/ (i - 1 \in 1..Len(chan'[s]) /\ chan[s][i] = chan'[s][i - 1])
  <2> SUFFICES ASSUME NEW i \in 1..Len(chan[s]), i # 1
               PROVE  i - 1 \in 1..Len(chan'[s]) /\ chan[s][i] = chan'[s][i - 1]
    OBVIOUS
  <2>1. Len(chan[s]) \in Nat
    BY StreamTypes
  <2>2. i - 1 \in 1..Len(chan'[s]) /\ (i - 1) + 1 = i
    BY <1>2, <2>1
  <2>3. QED
    BY <1>2, <2>2
<1>9. ASSUME NEW k \in Keys PROVE Downstream(s, k)' /\ Delivery(s, k)'
  <2>1. Downstream(s, k) /\ Delivery(s, k)
    BY DEF StreamInv
  <2>2. /\ UpTo(chan'[s], k, deployments[k])
        /\ Mentions(chan'[s], k) => deployments[k] # NoDep
        /\ From(shown[s][k].dep, chan'[s], k)
    BY <1>2, <1>5, <2>1, PartKeeps DEF Downstream
  <2>3. CASE k = e.dep.key
    <3>1. Carries(e, k) /\ Mentions(chan[s], k)
      BY <1>2, <1>3, <2>3 DEF Carries, Mentions
    <3>2. /\ deployments[k] # NoDep /\ Before(e.dep, deployments[k])
          /\ Before(shown[s][k].dep, e.dep)
      BY <1>2, <2>1, <3>1 DEF Downstream, UpTo, From
    <3>3. shown'[s][k].dep = e.dep
      BY <1>4, <2>3
    <3>4. Downstream(s, k)'
      BY <1>1, <1>7, <2>2, <2>3, <3>2, <3>3 DEF Downstream
    <3>5. shown[s][k].dep = deployments[k] => e.dep = deployments[k]
      BY <1>3, <3>2, BeforeAntisymmetric
    <3>6. Delivery(s, k)'
      <4> SUFFICES ASSUME hpc[s] = "open", k \notin missed[s], deployments[k] # NoDep
                   PROVE  \/ \E i \in 1..Len(chan'[s]) : chan'[s][i].dep = deployments[k]
                          \/ e.dep = deployments[k]
        BY <1>1, <3>3 DEF Delivery
      <4>1. CASE shown[s][k].dep = deployments[k]
        BY <3>5, <4>1
      <4>2. CASE \E i \in 1..Len(chan[s]) : chan[s][i].dep = deployments[k]
        BY <1>2, <1>8, <4>2
      <4>3. QED
        BY <1>1, <2>1, <4>1, <4>2 DEF Delivery
    <3>7. QED
      BY <3>4, <3>6
  <2>4. CASE k # e.dep.key
    <3>1. shown'[s][k].dep = shown[s][k].dep
      BY <1>4, <2>4
    <3>2. Downstream(s, k)'
      BY <1>1, <2>1, <2>2, <3>1 DEF Downstream
    <3>3. deployments[k] # NoDep => e.dep # deployments[k]
      BY <2>4
    <3>4. Delivery(s, k)'
      BY <1>1, <1>2, <1>8, <2>1, <3>1, <3>3 DEF Delivery
    <3>5. QED
      BY <3>2, <3>4
  <2>5. QED
    BY <2>3, <2>4
<1>10. QED
  BY <1>6, <1>9

\* The slot is free again and nothing of the subscription is left.
LEMMA RemoveStream ==
    ASSUME TypeOK, StreamInv, NEW s \in Subs, RemoveChannel(s)
    PROVE  Ordered(chan[s])' /\ \A k \in Keys : Downstream(s, k)' /\ Delivery(s, k)'
<1> USE StreamTypes, EmptyQueue
<1>1. /\ chan'[s] = <<>> /\ snapshot'[s] = {} /\ hpc'[s] = "idle"
      /\ \A k \in Keys : shown'[s][k].dep = NoDep
      /\ UNCHANGED deployments
  BY DEF RemoveChannel, Deregister, NothingShown, NoEvent, TypeOK, ModuleTypeOK
<1>2. QED
  BY <1>1 DEF Downstream, Delivery, Before

LEMMA SlotOpen ==
    ASSUME TypeOK, StreamInv, NEW s \in Subs, Slot(s)
    PROVE  \A t \in Subs : SnapshotFirst(t)' /\ OpenRegistered(t)'
<1> SUFFICES ASSUME NEW t \in Subs PROVE SnapshotFirst(t)' /\ OpenRegistered(t)'
  OBVIOUS
<1> USE DEF StreamInv, SnapshotFirst, OpenRegistered, TypeOK, moduleVars, handlerVars
<1>1. CASE Subscribe(s)
  BY <1>1 DEF Subscribe, Register
<1>2. CASE SendInitial(s)
  BY <1>2 DEF SendInitial
<1>3. CASE ReceiveUpdate(s)
  BY <1>3 DEF ReceiveUpdate, Streaming
<1>4. CASE SendUpdate(s)
  BY <1>4 DEF SendUpdate
<1>5. CASE ClientLeaves(s) \/ Return(s)
  BY <1>5 DEF ClientLeaves, Return
<1>6. CASE RemoveChannel(s)
  BY <1>6 DEF RemoveChannel, Deregister
<1>7. QED
  BY <1>1, <1>2, <1>3, <1>4, <1>5, <1>6
     DEF Slot, HandlerStep, SendInitialFails, SendUpdateFails, RequestContextDone,
         ChannelDrained

LEMMA SlotStream ==
    \A s \in Subs : TypeOK /\ StreamInv /\ Slot(s) => StreamInv'
<1> SUFFICES ASSUME NEW s \in Subs, TypeOK, StreamInv, Slot(s) PROVE StreamInv'
  OBVIOUS
<1>1. Ordered(chan[s])' /\ \A k \in Keys : Downstream(s, k)' /\ Delivery(s, k)'
  <2>1. CASE Subscribe(s)
    BY <2>1, SubscribeStream
  <2>2. CASE SendInitial(s)
    BY <2>2, SendInitialStream
  <2>3. CASE SendUpdate(s)
    BY <2>3, SendUpdateStream
  <2>4. CASE RemoveChannel(s)
    BY <2>4, RemoveStream
  <2>5. CASE ClientLeaves(s) \/ Return(s) \/ ReceiveUpdate(s)
    <3>1. /\ UNCHANGED <<chan, deployments, channels, missed, snapshot, shown>>
          /\ hpc'[s] = "open" => hpc[s] = "open"
      BY <2>5 DEF ClientLeaves, Return, ReceiveUpdate, moduleVars, handlerVars, TypeOK
    <3>2. QED
      BY <3>1 DEF StreamInv, Ordered, Downstream, Delivery
  <2>6. QED
    BY <2>1, <2>2, <2>3, <2>4, <2>5
       DEF Slot, HandlerStep, SendInitialFails, SendUpdateFails, RequestContextDone,
           ChannelDrained
<1>2. \A t \in Subs : SnapshotFirst(t)' /\ OpenRegistered(t)'
  BY SlotOpen
<1>3. QED
  BY <1>1, <1>2, OtherSlots DEF StreamInv

LEMMA StreamUntouched ==
    ASSUME StreamInv,
           UNCHANGED <<deployments, channels, chan, taken, missed, handlerVars>>,
           spc = "returned" => spc' = "returned"
    PROVE  StreamInv'
BY DEF StreamInv, Ordered, SnapshotFirst, OpenRegistered, Downstream, Delivery, handlerVars

LEMMA StreamCorrect == Spec => []StreamInv
<1>1. Init => StreamInv
  <2> SUFFICES ASSUME Init, NEW s \in Subs
               PROVE  /\ Ordered(chan[s]) /\ SnapshotFirst(s) /\ OpenRegistered(s)
                      /\ \A k \in Keys : Downstream(s, k) /\ Delivery(s, k)
    BY DEF StreamInv
  <2>1. /\ chan[s] = <<>> /\ snapshot[s] = {} /\ hpc[s] = "idle"
        /\ \A k \in Keys : shown[s][k].dep = NoDep
    BY DEF Init, ModuleInit, HandlerInit, NothingShown, NoEvent
  <2>2. QED
    BY <2>1, EmptyQueue DEF Downstream, Delivery, Before, SnapshotFirst, OpenRegistered
<1>2. TypeOK /\ TypeOK' /\ PipelineInv /\ StreamInv /\ [Next]_vars => StreamInv'
  <2> SUFFICES ASSUME TypeOK, TypeOK', PipelineInv, StreamInv, [Next]_vars
               PROVE  StreamInv'
    OBVIOUS
  <2>1. CASE Cluster \/ Watcher \/ UNCHANGED vars
    <3>1. UNCHANGED <<deployments, channels, chan, taken, missed, handlerVars, spc>>
      BY <2>1 DEF Cluster, Watcher, vars, moduleVars
    <3>2. QED
      BY <3>1, StreamUntouched
  <2>2. CASE Streamer
    <3>1. CASE ApplyEvent
      BY <2>2, <3>1, ApplyStream DEF Streamer
    <3>2. CASE ReceiveEvent \/ StreamContextDone
      <4>1. /\ UNCHANGED <<deployments, channels, chan, taken, missed, handlerVars>>
            /\ spc # "returned"
        BY <2>2, <3>2 DEF Streamer, ReceiveEvent, StreamContextDone
      <4>2. QED
        BY <4>1, StreamUntouched
    <3>3. CASE CloseChannels
      BY <2>2, <3>3 DEF Streamer, CloseChannels, handlerVars, StreamInv, Ordered,
                        SnapshotFirst, OpenRegistered, Downstream, Delivery
    <3>4. QED
      BY <2>2, <3>1, <3>2, <3>3 DEF Streamer, StreamerStep
  <2>3. ASSUME NEW s \in Subs, Slot(s) PROVE StreamInv'
    BY <2>3, SlotStream
  <2>4. QED
    BY <2>1, <2>2, <2>3 DEF Next, Slot
<1>3. QED
  BY <1>1, <1>2, TypeCorrect, PipelineCorrect, PTL DEF Spec

\* A client misses nothing silently: what is cached and was not dropped at a full
\* channel is the last thing its handler is going to send of that deployment, or
\* has sent.
THEOREM NothingSkipped == Spec => []NoSilentGap
<1>1. TypeOK /\ StreamInv => NoSilentGap
  <2> SUFFICES ASSUME TypeOK, StreamInv, NEW s \in channels, NEW k \in Keys \ missed[s],
                      hpc[s] = "open", deployments[k] # NoDep
               PROVE  Reaches(s, k, deployments[k])
    BY DEF NoSilentGap
  <2> DEFINE d == deployments[k]
  <2>1. s \in Subs
    BY DEF TypeOK, ModuleTypeOK
  <2> USE <2>1, StreamTypes
  <2>2. Ordered(chan[s]) /\ Downstream(s, k) /\ Delivery(s, k)
    BY DEF StreamInv
  <2>3. d \in Dep /\ d.key = k
    OBVIOUS
  <2>4. ASSUME NEW i \in 1..Len(chan[s]), Carries(chan[s][i], k), Before(d, chan[s][i].dep)
        PROVE  chan[s][i].dep = d
    BY <2>2, <2>3, <2>4, BeforeAntisymmetric DEF Downstream, UpTo
  <2>5. CASE Mentions(chan[s], k)
    <3>1. EndsWith(chan[s], k, d)
      <4>1. CASE \E i \in 1..Len(chan[s]) : chan[s][i].dep = d
        <5>1. PICK i \in 1..Len(chan[s]) : chan[s][i].dep = d
          BY <4>1
        <5>2. ASSUME NEW j \in (i + 1)..Len(chan[s]), Carries(chan[s][j], k)
              PROVE  chan[s][j].dep = d
          <6>1. j \in 1..Len(chan[s]) /\ i < j
            OBVIOUS
          <6>2. Before(d, chan[s][j].dep)
            BY <2>2, <2>3, <5>1, <5>2, <6>1 DEF Ordered
          <6>3. QED
            BY <2>4, <5>2, <6>1, <6>2
        <5>3. QED
          BY <5>1, <5>2 DEF EndsWith
      <4>2. CASE d \in snapshot[s] \/ shown[s][k].dep = d
        <5>1. From(d, chan[s], k)
          BY <2>2, <2>3, <4>2 DEF Downstream
        <5>2. \A i \in 1..Len(chan[s]) : Carries(chan[s][i], k) => chan[s][i].dep = d
          BY <2>4, <5>1 DEF From
        <5>3. PICK i \in 1..Len(chan[s]) : Carries(chan[s][i], k)
          BY <2>5 DEF Mentions
        <5>4. chan[s][i].dep = d
          BY <5>2, <5>3
        <5>5. \A j \in (i + 1)..Len(chan[s]) : j \in 1..Len(chan[s])
          OBVIOUS
        <5>6. QED
          BY <5>2, <5>4, <5>5 DEF EndsWith
      <4>3. QED
        BY <2>2, <4>1, <4>2 DEF Delivery
    <3>2. QED
      BY <2>5, <3>1 DEF Reaches
  <2>6. CASE ~Mentions(chan[s], k)
    <3>1. \A i \in 1..Len(chan[s]) : chan[s][i].dep # d
      BY <2>3, <2>6 DEF Mentions, Carries
    <3>2. d \in snapshot[s] \/ shown[s][k].dep = d
      BY <2>2, <3>1 DEF Delivery
    <3>3. CASE \E x \in snapshot[s] : x.key = k
      <4>1. PICK x \in snapshot[s] : x.key = k
        BY <3>3
      <4>2. CASE shown[s][k].dep = d
        <5>1. Before(d, x) /\ Before(x, d)
          BY <2>2, <4>1, <4>2 DEF Downstream
        <5>2. QED
          BY <2>3, <2>6, <3>3, <4>1, <5>1, BeforeAntisymmetric DEF Reaches
      <4>3. QED
        BY <2>6, <3>2, <3>3, <4>2 DEF Reaches
    <3>4. CASE ~\E x \in snapshot[s] : x.key = k
      BY <2>3, <2>6, <3>2, <3>4 DEF Reaches
    <3>5. QED
      BY <3>3, <3>4
  <2>7. QED
    BY <2>5, <2>6
<1>2. QED
  BY <1>1, TypeCorrect, StreamCorrect, PTL

-----------------------------------------------------------------------------
(* The stream implements VersionedFeed *)

Cached   == [k \in Keys |-> RvOf(deployments[k])]
Seen     == [s \in Subs |-> [k \in Keys |-> RvOf(shown[s][k].dep)]]
FeedVars == <<rev, Cached, Seen>>

LEMMA BeforeVersion ==
    ASSUME NEW d \in Dep \cup {NoDep}, NEW e \in Dep \cup {NoDep},
           d # NoDep => e # NoDep, Before(d, e)
    PROVE  RvOf(d) =< RvOf(e) /\ RvOf(d) \in Nat /\ RvOf(e) \in Nat
BY ConstantsDistinct DEF Before, RvOf, Dep

LEMMA FeedInit == Init => Feed!Init
<1> SUFFICES ASSUME Init PROVE Feed!Init
  OBVIOUS
<1>1. \A k \in Keys : RvOf(deployments[k]) = 0
  BY DEF Init, ModuleInit, RvOf
<1>2. \A s \in Subs, k \in Keys : RvOf(shown[s][k].dep) = 0
  BY DEF Init, HandlerInit, NothingShown, NoEvent, RvOf
<1>3. QED
  BY <1>1, <1>2 DEF Feed!Init, Feed!Nothing, Init, K8sInit

\* A handler shows its client the version of one more event.
LEMMA ShowFeed ==
    ASSUME TypeOK, StreamInv, StreamInv', TypeOK', NEW s \in Subs, NEW e \in Event, Show(s, e),
           Before(shown[s][e.dep.key].dep, e.dep), UNCHANGED <<rev, deployments>>
    PROVE  Feed!Observe(s, e.dep.key)
<1> DEFINE k == e.dep.key
<1>1. e.dep \in Dep /\ k \in Keys
  BY DEF Event, Dep
<1>2. shown' = [shown EXCEPT ![s][k] = e] /\ shown'[s][k] = e
  BY <1>1 DEF Show, TypeOK
<1> HIDE DEF k
<1>3. Seen' = [Seen EXCEPT ![s][k] = Seen'[s][k]]
  BY <1>1, <1>2 DEF Seen, TypeOK
<1>4. shown[s][k].dep \in Dep \cup {NoDep} /\ deployments[k] \in Dep \cup {NoDep}
  BY <1>1, StreamTypes
<1>5. RvOf(shown[s][k].dep) =< RvOf(e.dep)
  BY <1>1, <1>4, BeforeVersion, ConstantsDistinct DEF k
<1>6. /\ e.dep # NoDep => deployments[k] # NoDep
      /\ Before(e.dep, deployments[k])
  BY <1>1, <1>2 DEF StreamInv, Downstream
<1>7. RvOf(e.dep) =< RvOf(deployments[k])
  BY <1>1, <1>4, <1>6, BeforeVersion
<1>8. Seen[s][k] = RvOf(shown[s][k].dep) /\ Seen'[s][k] = RvOf(e.dep)
      /\ Cached[k] = RvOf(deployments[k])
  BY <1>1, <1>2 DEF Seen, Cached
<1>9. Seen[s][k] =< Seen'[s][k] /\ Seen'[s][k] =< Cached[k]
  BY <1>5, <1>7, <1>8
<1>10. UNCHANGED <<rev, Cached>>
  BY DEF Cached
<1>11. QED
  BY <1>3, <1>9, <1>10 DEF Feed!Observe, Seen, Cached, k

LEMMA SlotFeed ==
    ASSUME TypeOK, TypeOK', StreamInv, StreamInv', NEW s \in Subs, Slot(s)
    PROVE  Feed!Next \/ UNCHANGED FeedVars
<1> USE StreamTypes
<1>1. UNCHANGED <<rev, deployments>>
  BY SlotUpstream DEF k8sVars
<1>2. CASE UNCHANGED shown
  BY <1>1, <1>2 DEF FeedVars, Cached, Seen
<1>3. CASE SendInitial(s)
  <2>1. PICK d \in snapshot[s] : Show(s, Change("ADDED", d))
    BY <1>3 DEF SendInitial
  <2>2. /\ d \in Dep /\ d.key \in Keys
        /\ Change("ADDED", d) \in Event /\ Change("ADDED", d).dep = d
    BY EventDep DEF Change, Event
  <2>3. Before(shown[s][d.key].dep, d)
    BY <2>2 DEF StreamInv, Downstream
  <2>4. Feed!Observe(s, d.key)
    BY <1>1, <2>1, <2>2, <2>3, ShowFeed
  <2>5. QED
    BY <2>2, <2>4 DEF Feed!Next
<1>4. CASE SendUpdate(s)
  <2> DEFINE e == Head(chan[s])
  <2>1. Show(s, e) /\ chan[s] # <<>>
    BY <1>4 DEF SendUpdate, Writing, TypeOK, ModuleTypeOK, Buffered
  <2>2. e \in Event /\ e = chan[s][1] /\ 1 \in 1..Len(chan[s])
    BY <2>1, HeadTailProperties, EmptySeq
  <2> HIDE DEF e
  <2>3. e.dep \in Dep /\ e.dep.key \in Keys /\ Carries(e, e.dep.key)
    BY <2>2, EventDep DEF Carries
  <2>4. Before(shown[s][e.dep.key].dep, e.dep)
    BY <2>2, <2>3 DEF StreamInv, Downstream, From
  <2>5. Feed!Observe(s, e.dep.key)
    BY <1>1, <2>1, <2>2, <2>4, ShowFeed
  <2>6. QED
    BY <2>3, <2>5 DEF Feed!Next
<1>5. CASE RemoveChannel(s)
  <2>1. shown' = [shown EXCEPT ![s] = NothingShown]
    BY <1>5 DEF RemoveChannel
  <2>2. Seen' = [Seen EXCEPT ![s] = [k \in Keys |-> 0]]
    BY <2>1 DEF Seen, NothingShown, NoEvent, RvOf, TypeOK
  <2>3. Feed!Forget(s)
    BY <1>1, <2>2 DEF Feed!Forget, Feed!Nothing, Seen
  <2>4. QED
    BY <2>3 DEF Feed!Next
<1>6. QED
  BY <1>2, <1>3, <1>4, <1>5
     DEF Slot, Subscribe, HandlerStep, SendInitialFails, ReceiveUpdate, SendUpdateFails,
         RequestContextDone, ChannelDrained, Return, ClientLeaves, handlerVars

\* The streamer's only visible step moves one key of the cache forward.
LEMMA ApplyFeed ==
    ASSUME TypeOK, TypeOK', PipelineInv, ApplyEvent, UNCHANGED handlerVars
    PROVE  Feed!Next
<1> DEFINE d == current.dep
<1>1. d \in Dep /\ d.key \in Keys /\ Carries(current, d.key)
  BY EventDep DEF ApplyEvent, TypeOK, ModuleTypeOK, Known, Carries
<1>2. /\ deployments' = [deployments EXCEPT ![d.key] = d]
      /\ deployments \in [Keys -> Dep \cup {NoDep}]
      /\ UNCHANGED <<rev, shown>>
  BY DEF ApplyEvent, TypeOK, ModuleTypeOK, handlerVars, k8sVars
<1>3. Before(deployments[d.key], d) /\ d.rv =< rev
  BY <1>1, ConstantsDistinct DEF PipelineInv, Upstream, Revisions, Reached
<1> HIDE DEF d
<1>4. Cached' = [Cached EXCEPT ![d.key] = Cached'[d.key]]
  BY <1>1, <1>2 DEF Cached
<1>5. /\ Cached[d.key] = RvOf(deployments[d.key])
      /\ Cached'[d.key] = RvOf(d) /\ RvOf(d) = d.rv
  BY <1>1, <1>2, ConstantsDistinct DEF Cached, RvOf
<1>6. RvOf(deployments[d.key]) =< RvOf(d)
  BY <1>1, <1>2, <1>3, BeforeVersion, ConstantsDistinct
<1>7. UNCHANGED <<rev, Seen>>
  BY <1>2 DEF Seen
<1>8. Feed!Cache(d.key)
  BY <1>3, <1>4, <1>5, <1>6, <1>7 DEF Feed!Cache, Cached, Seen
<1>9. QED
  BY <1>1, <1>8 DEF Feed!Next

LEMMA FeedStep ==
    /\ TypeOK /\ TypeOK' /\ PipelineInv /\ StreamInv /\ StreamInv' /\ [Next]_vars
    => Feed!Next \/ UNCHANGED FeedVars
<1> SUFFICES ASSUME TypeOK, TypeOK', PipelineInv, StreamInv, StreamInv', [Next]_vars
             PROVE  Feed!Next \/ UNCHANGED FeedVars
  OBVIOUS
<1>1. CASE Cluster
  <2>1. UNCHANGED <<Cached, Seen>>
    BY <1>1 DEF Cluster, moduleVars, handlerVars, Cached, Seen
  <2>2. rev' = rev \/ rev' > rev
    <3>1. rev' = rev \/ rev' = rev + 1
      BY <1>1 DEF Cluster, K8sStep, Create, Update, Delete, Commit, EndConnection,
                  BreakConnection, Shutdown
    <3>2. QED
      BY <3>1, PipelineTypes
  <2>3. QED
    BY <2>1, <2>2 DEF Feed!Next, Feed!Publish, FeedVars, Cached, Seen
<1>2. CASE Watcher
  BY <1>2 DEF Watcher, WatcherStep, WatchDeployments, OpenConnection, WatchRequestFails,
              ReturnError, NextEvent, ConversionFails, ChannelClosed, ContextDone, moduleVars,
              handlerVars, FeedVars, Cached, Seen
<1>3. CASE Streamer
  <2>1. CASE ApplyEvent
    BY <1>3, <2>1, ApplyFeed DEF Streamer
  <2>2. CASE ReceiveEvent \/ StreamContextDone \/ CloseChannels
    BY <1>3, <2>2 DEF Streamer, ReceiveEvent, StreamContextDone, CloseChannels, k8sVars,
                      handlerVars, FeedVars, Cached, Seen
  <2>3. QED
    BY <1>3, <2>1, <2>2 DEF Streamer, StreamerStep
<1>4. ASSUME NEW s \in Subs, Slot(s) PROVE Feed!Next \/ UNCHANGED FeedVars
  BY <1>4, SlotFeed
<1>5. CASE UNCHANGED vars
  BY <1>5 DEF vars, k8sVars, moduleVars, handlerVars, FeedVars, Cached, Seen
<1>6. QED
  BY <1>1, <1>2, <1>3, <1>4, <1>5 DEF Next, Slot

\* The cache and every client only ever move forward, the cache never ahead of the
\* cluster and a client never ahead of the cache: the stream of the backend
\* implements the abstract feed.
THEOREM StreamImplementsFeed == Spec => ImplementsFeed
<1>1. Init => Feed!Init
  BY FeedInit
<1>2. /\ TypeOK /\ TypeOK' /\ PipelineInv /\ StreamInv /\ StreamInv' /\ [Next]_vars
      => [Feed!Next]_FeedVars
  BY FeedStep
<1>3. QED
  BY <1>1, <1>2, TypeCorrect, PipelineCorrect, StreamCorrect, PTL
     DEF Spec, ImplementsFeed, Feed!Spec, FeedVars, Cached, Seen
=============================================================================
