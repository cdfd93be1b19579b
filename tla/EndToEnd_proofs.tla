----------------------------- MODULE EndToEnd_proofs -----------------------------
(***************************************************************************)
(* The page of a client catches up with the cluster, for any finite set of *)
(* deployments, any clients, capacities and bounds.  The argument: of all  *)
(* that is known of a name anywhere between the cluster and a page, the    *)
(* incarnation that exists is the youngest; a page has every deployment    *)
(* that its client was last told of as existing; what is told of as        *)
(* deleted is the end of its incarnation, and nothing of that incarnation  *)
(* comes after it or stays on the page.                                    *)
(***************************************************************************)
EXTENDS EndToEnd, HandlerDeployments_proofs, DeploymentsMap_proofs

\* Event e is in queue q; deployment d is the subject of an event of queue q.
Holds(q, e)  == \E i \in 1..Len(q) : q[i] = e
Brings(q, d) == \E i \in 1..Len(q) : q[i].dep = d

\* Deployment d is known to the handler of slot s or to its client.
SlotKnows(s, d) ==
    \/ Brings(chan[s], d)
    \/ d \in snapshot[s]
    \/ \E i \in DOMAIN map[s] : map[s][i] = d
    \/ \E k \in Keys : shown[s][k].dep = d
    \/ d \in toldDeleted[s]

\* Deployment d is known somewhere between the cluster and a page.
Knows(d) ==
    \/ \E k \in Keys : d = objects[k] \/ d = deployments[k]
    \/ Brings(watchQ, d)
    \/ d = pending.dep
    \/ d = current.dep
    \/ \E s \in Subs : SlotKnows(s, d)

\* Event e is under way.
Tells(e) ==
    \/ Holds(watchQ, e)
    \/ pending = e
    \/ current = e
    \/ \E s \in Subs : Holds(chan[s], e)

\* The client of slot s was told that d is deleted.
SlotDeletes(s, d) ==
    \/ d \in toldDeleted[s]
    \/ \E k \in Keys : shown[s][k] = Change("DELETED", d)

\* An event that d is deleted is under way, or was sent to a client.
Deletes(d) ==
    \/ Tells(Change("DELETED", d))
    \/ \E s \in Subs : SlotDeletes(s, d)

\* The incarnation that d belongs to has ended, and d is its last state.
IsLast(d) ==
    /\ objects[d.key] # NoDep => objects[d.key].uid # d.uid
    /\ \A x \in Dep : Knows(x) /\ x.uid = d.uid => x.rv < d.rv \/ x = d

\* A uid belongs to one name and the incarnations of a name follow each other:
\* nothing known is younger than the one that exists.  What is told of as
\* deleted is the end of its incarnation, and told of in no other way.
Incarnations ==
    /\ \A d \in Dep : Knows(d) =>
        /\ d.uid =< rev
        /\ d.rv =< rev
        /\ objects[d.key] # NoDep => d.uid =< objects[d.key].uid
    /\ \A d, e \in Dep : Knows(d) /\ Knows(e) /\ d.uid = e.uid => d.key = e.key
    /\ \A d \in Dep : Deletes(d) => IsLast(d)
    /\ \A e \in Event : Tells(e) /\ Deletes(e.dep) => e.type = "DELETED"

\* A map has what its client was last told of as existing.
MapShows(s) ==
    \A k \in Keys :
        /\ hpc[s] = "idle" => shown[s][k].dep = NoDep
        /\ shown[s][k].dep # NoDep =>
            /\ shown[s][k].dep.key = k
            /\ shown[s][k].type # "DELETED" =>
                \E i \in DOMAIN map[s] : map[s][i] = shown[s][k].dep

\* A map has nothing left of a deployment whose deletion its client was told
\* of, and nothing older than that deletion is still to come on its stream.
MapForgets(s) ==
    hpc[s] # "idle" =>
        /\ toldDeleted[s] # {} => snapshot[s] = {}
        /\ \A d \in toldDeleted[s] :
            /\ shown[s][d.key].dep # NoDep
            /\ d.rv =< shown[s][d.key].dep.rv
            /\ \A i \in DOMAIN map[s] : map[s][i].uid # d.uid

PageInv ==
    /\ map \in [Subs -> Seq(Dep)]
    /\ toldDeleted \in [Subs -> SUBSET Dep]
    /\ Incarnations
    /\ \A s \in Subs : OnePerUid(map[s]) /\ MapShows(s) /\ MapForgets(s)

-----------------------------------------------------------------------------
(* Queues *)

LEMMA PartBrings ==
    ASSUME NEW S, NEW q \in Seq(S), NEW r \in Seq(S), Part(r, q)
    PROVE  /\ \A d : Brings(r, d) => Brings(q, d)
           /\ \A e : Holds(r, e) => Holds(q, e)
<1>1. Len(q) \in Nat /\ Len(r) \in Nat
  BY LenProperties
<1>2. PICK m \in Nat : Len(r) + m =< Len(q) /\ \A i \in 1..Len(r) : r[i] = q[i + m]
  BY DEF Part
<1>3. \A i \in 1..Len(r) : i + m \in 1..Len(q)
  BY <1>1, <1>2
<1>4. QED
  BY <1>2, <1>3 DEF Brings, Holds

LEMMA AppendBrings ==
    ASSUME NEW S, NEW q \in Seq(S), NEW e \in S
    PROVE  /\ \A d : Brings(Append(q, e), d) => Brings(q, d) \/ d = e.dep
           /\ \A f : Holds(Append(q, e), f) => Holds(q, f) \/ f = e
<1> DEFINE r == Append(q, e)
<1>1. Len(q) \in Nat /\ Len(r) = Len(q) + 1
  BY AppendProperties, LenProperties
<1>2. \A i \in 1..Len(r) : (i \in 1..Len(q) /\ r[i] = q[i]) \/ (i = Len(r) /\ r[i] = e)
  BY <1>1, AppendProperties
<1> HIDE DEF r
<1>3. /\ \A d : Brings(r, d) => Brings(q, d) \/ d = e.dep
      /\ \A f : Holds(r, f) => Holds(q, f) \/ f = e
  BY <1>2 DEF Brings, Holds
<1>4. QED
  BY <1>3 DEF r

LEMMA EmptyBrings == \A d : ~Brings(<<>>, d) /\ ~Holds(<<>>, d)
BY EmptySeq DEF Brings, Holds

LEMMA HeadBrings ==
    ASSUME NEW S, NEW q \in Seq(S), q # <<>>
    PROVE  /\ \A d : d = Head(q).dep => Brings(q, d)
           /\ \A e : e = Head(q) => Holds(q, e)
<1>1. Len(q) \in Nat /\ Len(q) >= 1 /\ Head(q) = q[1]
  BY HeadTailProperties, LenProperties, EmptySeq
<1>2. 1 \in 1..Len(q)
  BY <1>1
<1>3. QED
  BY <1>1, <1>2 DEF Brings, Holds

-----------------------------------------------------------------------------
(* What is known *)

\* What is told of is known.
LEMMA ToldIsKnown ==
    /\ \A e : Tells(e) => Knows(e.dep)
    /\ \A d : Deletes(d) => Knows(d)
<1>1. \A q, e : Holds(q, e) => Brings(q, e.dep)
  BY DEF Holds, Brings
<1>2. \A e : Tells(e) => Knows(e.dep)
  BY <1>1 DEF Tells, Knows, SlotKnows
<1>3. \A d : Change("DELETED", d).dep = d
  BY DEF Change
<1>4. \A s \in Subs : \A d : SlotDeletes(s, d) => SlotKnows(s, d)
  BY <1>3 DEF SlotDeletes, SlotKnows
<1>5. \A d : Deletes(d) => Knows(d)
  BY <1>2, <1>3, <1>4 DEF Deletes, Knows
<1>6. QED
  BY <1>2, <1>5

\* Steps that only pass on what is known and told, or list what exists.
LEMMA NothingNew ==
    ASSUME Incarnations, UNCHANGED <<rev, objects>>,
           \A d \in Dep : Knows(d)' => Knows(d),
           \A d \in Dep : Deletes(d)' => Deletes(d),
           \A e \in Event : Tells(e)' =>
                \/ Tells(e)
                \/ \E k \in Keys : objects[k] # NoDep /\ objects[k].key = k
                                      /\ e.dep = objects[k]
    PROVE  Incarnations'
<1>1. \A e \in Event : e.dep \in Dep
  BY DEF Event
<1>2. \A d \in Dep : Deletes(d)' => IsLast(d)'
  BY DEF Incarnations, IsLast
<1>3. ASSUME NEW e \in Event, Tells(e)', Deletes(e.dep)' PROVE e.type = "DELETED"
  <2>1. Deletes(e.dep)
    BY <1>1, <1>3
  <2>2. objects[e.dep.key] # NoDep => objects[e.dep.key].uid # e.dep.uid
    BY <1>1, <2>1 DEF Incarnations, IsLast
  <2>3. Tells(e)
    BY <1>3, <2>2
  <2>4. QED
    BY <2>1, <2>3 DEF Incarnations
<1>4. QED
  BY <1>2, <1>3 DEF Incarnations

\* What the type invariant says of what is known.
LEMMA PageTypes ==
    ASSUME TypeOK
    PROVE  /\ \A k \in Keys : objects[k] \in Dep \cup {NoDep}
           /\ objects \in [Keys -> Dep \cup {NoDep}]
           /\ rev \in Nat
           /\ watchQ \in Seq(Queued)
           /\ \A s \in Subs : chan[s] \in Seq(Event)
           /\ \A d \in Dep : d.key \in Keys /\ d.uid \in Nat /\ d.rv \in Nat
           /\ NoDep \notin Dep
           /\ \A d \in Dep : Change("DELETED", d) \in Event
BY EventDep, ConstantsDistinct, PipelineTypes, StreamTypes
   DEF TypeOK, K8sTypeOK, ModuleTypeOK, Dep, Event, Change

\* A change of the cluster brings one new state: of a new incarnation, or of the
\* one that exists.
LEMMA CommitKnows ==
    ASSUME TypeOK, PipelineInv, Incarnations, NEW k \in Keys, NEW d \in Dep \cup {NoDep},
           NEW e \in Event, Commit(k, d, e),
           UNCHANGED <<watcherVars, moduleVars, handlerVars, map, toldDeleted>>,
           e.dep.key = k, e.dep.rv = rev + 1, d \in {NoDep, e.dep},
           e.type = "DELETED" => d = NoDep,
           \/ e.dep.uid = rev + 1
           \/ objects[k] # NoDep /\ e.dep.uid = objects[k].uid
    PROVE  Incarnations'
<1> USE PageTypes
<1>1. /\ rev' = rev + 1
      /\ objects' = [objects EXCEPT ![k] = d]
      /\ UNCHANGED <<pending, current, deployments, chan, snapshot, shown, map, toldDeleted>>
      /\ watchQ' \in {watchQ, Append(watchQ, e)}
  BY DEF Commit, watcherVars, moduleVars, handlerVars
<1>2. e \in Queued /\ e.dep \in Dep
  BY DEF Queued, Event
<1>3. /\ \A x : Brings(Append(watchQ, e), x) => Brings(watchQ, x) \/ x = e.dep
      /\ \A x : Holds(Append(watchQ, e), x) => Holds(watchQ, x) \/ x = e
  BY <1>2, AppendBrings
<1>4. /\ \A x : Brings(watchQ', x) => Brings(watchQ, x) \/ x = e.dep
      /\ \A x : Holds(watchQ', x) => Holds(watchQ, x) \/ x = e
  <2>1. CASE watchQ' = watchQ
    BY <2>1
  <2>2. CASE watchQ' = Append(watchQ, e)
    BY <1>3, <2>2
  <2>3. QED
    BY <1>1, <2>1, <2>2
<1>5. ASSUME NEW x \in Dep, Knows(x)' PROVE Knows(x) \/ x = e.dep
  <2>1. CASE \E l \in Keys : x = objects'[l] \/ x = deployments'[l]
    BY <1>1, <2>1 DEF Knows
  <2>2. CASE Brings(watchQ', x)
    BY <1>4, <2>2 DEF Knows
  <2>3. QED
    BY <1>1, <1>5, <2>1, <2>2 DEF Knows, SlotKnows
<1>6. \A f : Tells(f)' => Tells(f) \/ f = e
  BY <1>1, <1>4 DEF Tells
<1>7. ASSUME NEW x \in Dep, Deletes(x)' PROVE Deletes(x) \/ e = Change("DELETED", x)
  BY <1>1, <1>6, <1>7 DEF Deletes, SlotDeletes
<1>8. objects[k] # NoDep => objects[k].key = k /\ Knows(objects[k])
  BY DEF PipelineInv, Upstream, Knows
<1>9. objects[k] # NoDep => objects[k].uid =< rev
  BY <1>8 DEF Incarnations
<1>10. ASSUME NEW x \in Dep, Knows(x)
      PROVE  /\ x.uid =< rev' /\ x.rv =< rev'
             /\ objects'[x.key] # NoDep => x.uid =< objects'[x.key].uid
             /\ x.uid = e.dep.uid => x.key = k
  <2>1. x.uid =< rev /\ x.rv =< rev
    BY <1>10 DEF Incarnations
  <2>2. x.key = k /\ objects[k] # NoDep => x.uid =< objects[k].uid
    BY <1>10 DEF Incarnations
  <2>3. x.uid =< e.dep.uid \/ x.key # k
    BY <1>2, <1>9, <2>1, <2>2
  <2>4. objects'[x.key] # NoDep => x.uid =< objects'[x.key].uid
    <3>1. CASE x.key = k
      BY <1>1, <2>3, <3>1
    <3>2. CASE x.key # k
      BY <1>1, <1>10, <3>2 DEF Incarnations
    <3>3. QED
      BY <3>1, <3>2
  <2>5. x.uid = e.dep.uid => x.key = k
    <3>1. CASE e.dep.uid = rev + 1
      BY <2>1, <3>1
    <3>2. CASE objects[k] # NoDep /\ e.dep.uid = objects[k].uid
      BY <1>8, <1>10, <3>2 DEF Incarnations
    <3>3. QED
      BY <3>1, <3>2
  <2>6. QED
    BY <1>1, <2>1, <2>4, <2>5
<1>11. /\ e.dep.uid =< rev' /\ e.dep.rv =< rev'
       /\ objects'[k] # NoDep => e.dep.uid =< objects'[k].uid
  BY <1>1, <1>2, <1>9
<1>12. \A x \in Dep : Knows(x)' =>
            /\ x.uid =< rev' /\ x.rv =< rev'
            /\ objects'[x.key] # NoDep => x.uid =< objects'[x.key].uid
  BY <1>5, <1>10, <1>11
<1>13. \A x, y \in Dep : Knows(x)' /\ Knows(y)' /\ x.uid = y.uid => x.key = y.key
  <2> SUFFICES ASSUME NEW x \in Dep, NEW y \in Dep, Knows(x)', Knows(y)', x.uid = y.uid
               PROVE  x.key = y.key
    OBVIOUS
  <2>1. CASE Knows(x) /\ Knows(y)
    BY <2>1 DEF Incarnations
  <2>2. QED
    BY <1>5, <1>10, <2>1
<1>14. ASSUME NEW x \in Dep, Deletes(x) PROVE x.uid # e.dep.uid
  <2>1. Knows(x) /\ x.uid =< rev
    BY <1>14, ToldIsKnown DEF Incarnations
  <2>2. CASE e.dep.uid = rev + 1
    BY <2>1, <2>2
  <2>3. CASE objects[k] # NoDep /\ e.dep.uid = objects[k].uid
    <3>1. x.uid = e.dep.uid => x.key = k
      BY <1>10, <2>1
    <3>2. objects[x.key] # NoDep => objects[x.key].uid # x.uid
      BY <1>14 DEF Incarnations, IsLast
    <3>3. QED
      BY <2>3, <3>1, <3>2
  <2>4. QED
    BY <2>2, <2>3
<1>15. ASSUME NEW x \in Dep, Deletes(x)' PROVE IsLast(x)'
  <2>1. CASE e = Change("DELETED", x)
    <3>1. e.dep = x /\ d = NoDep
      BY <2>1 DEF Change
    <3>2. objects'[x.key] = NoDep
      BY <1>1, <3>1
    <3>3. \A y \in Dep : Knows(y)' => y.rv < x.rv \/ y = x
      <4>1. ASSUME NEW y \in Dep, Knows(y) PROVE y.rv < x.rv
        <5>1. y.rv =< rev
          BY <4>1 DEF Incarnations
        <5>2. QED
          BY <3>1, <5>1
      <4>2. QED
        BY <1>5, <3>1, <4>1
    <3>4. QED
      BY <3>2, <3>3 DEF IsLast
  <2>2. CASE Deletes(x)
    <3>1. IsLast(x) /\ x.uid # e.dep.uid
      BY <1>14, <2>2 DEF Incarnations
    <3>2. objects'[x.key] # NoDep => objects'[x.key].uid # x.uid
      BY <1>1, <3>1 DEF IsLast
    <3>3. \A y \in Dep : Knows(y)' /\ y.uid = x.uid => y.rv < x.rv \/ y = x
      BY <1>5, <3>1 DEF IsLast
    <3>4. QED
      BY <3>2, <3>3 DEF IsLast
  <2>3. QED
    BY <1>7, <1>15, <2>1, <2>2
<1>16. ASSUME NEW f \in Event, Tells(f)', Deletes(f.dep)' PROVE f.type = "DELETED"
  <2>1. f.dep \in Dep
    BY DEF Event
  <2>2. CASE f = e
    <3>1. e = Change("DELETED", e.dep)
      BY <1>2, <1>14, <1>7, <1>16, <2>2
    <3>2. QED
      BY <2>2, <3>1 DEF Change
  <2>3. CASE Tells(f)
    <3>1. f.dep.rv =< rev
      BY <2>1, <2>3, ToldIsKnown DEF Incarnations
    <3>2. e.dep # f.dep
      BY <2>1, <3>1
    <3>3. e # Change("DELETED", f.dep)
      BY <3>2 DEF Change
    <3>4. Deletes(f.dep)
      BY <1>7, <1>16, <2>1, <3>3
    <3>5. QED
      BY <2>3, <3>4 DEF Incarnations
  <2>4. QED
    BY <1>6, <1>16, <2>2, <2>3
<1>17. QED
  BY <1>12, <1>13, <1>15, <1>16 DEF Incarnations

\* What the API server does, changes and the ends of connections.
LEMMA ClusterKnows ==
    ASSUME TypeOK, TypeOK', PipelineInv, Incarnations, Cluster, UNCHANGED <<map, toldDeleted>>
    PROVE  Incarnations'
<1> USE PageTypes
<1>1. UNCHANGED <<watcherVars, moduleVars, handlerVars, map, toldDeleted>>
  BY DEF Cluster
<1>2. ASSUME NEW k \in Keys, Create(k) PROVE Incarnations'
  <2> DEFINE d == [key |-> k, uid |-> rev + 1, rv |-> rev + 1]
             e == Change("ADDED", d)
  <2>1. d \in Dep /\ e \in Event /\ e.dep = d /\ e.type = "ADDED"
    BY DEF Dep, Event, Change
  <2>2. Commit(k, d, e) /\ d.key = k /\ d.rv = rev + 1 /\ d.uid = rev + 1
    BY <1>2 DEF Create
  <2> HIDE DEF d, e
  <2>3. QED
    BY <1>1, <2>1, <2>2, CommitKnows
<1>3. ASSUME NEW k \in Keys, Update(k) PROVE Incarnations'
  <2> DEFINE d == [objects[k] EXCEPT !.rv = rev + 1]
             e == Change("MODIFIED", d)
  <2>1. objects[k] # NoDep /\ objects[k] \in Dep /\ objects[k].key = k
    BY <1>3 DEF Update, PipelineInv, Upstream
  <2>2. d \in Dep /\ d.key = k /\ d.rv = rev + 1 /\ d.uid = objects[k].uid
    BY <2>1 DEF Dep
  <2>3. Commit(k, d, e)
    BY <1>3 DEF Update
  <2> HIDE DEF d
  <2>4. e \in Event /\ e.dep = d /\ e.type = "MODIFIED"
    BY <2>2 DEF Event, Change
  <2> HIDE DEF e
  <2>5. QED
    BY <1>1, <2>1, <2>2, <2>3, <2>4, CommitKnows
<1>4. ASSUME NEW k \in Keys, Delete(k) PROVE Incarnations'
  <2> DEFINE d == [objects[k] EXCEPT !.rv = rev + 1]
             e == Change("DELETED", d)
  <2>1. objects[k] # NoDep /\ objects[k] \in Dep /\ objects[k].key = k
    BY <1>4 DEF Delete, PipelineInv, Upstream
  <2>2. d \in Dep /\ d.key = k /\ d.rv = rev + 1 /\ d.uid = objects[k].uid
    BY <2>1 DEF Dep
  <2>3. Commit(k, NoDep, e)
    BY <1>4 DEF Delete
  <2> HIDE DEF d
  <2>4. e \in Event /\ e.dep = d /\ e.type = "DELETED"
    BY <2>2 DEF Event, Change
  <2> HIDE DEF e
  <2>5. QED
    BY <1>1, <2>1, <2>2, <2>3, <2>4, CommitKnows
<1>5. ASSUME EndConnection \/ BreakConnection \/ Shutdown PROVE Incarnations'
  <2>1. /\ UNCHANGED <<rev, objects, pending, current, deployments, chan, snapshot, shown,
                       map, toldDeleted>>
        /\ watchQ' \in Seq(Queued)
    BY <1>1, <1>5 DEF EndConnection, BreakConnection, Shutdown, watcherVars, moduleVars,
                      handlerVars, TypeOK, K8sTypeOK, Queued
  <2>2. /\ \A d \in Dep : Brings(watchQ', d) => Brings(watchQ, d)
        /\ \A e \in Event : Holds(watchQ', e) => Holds(watchQ, e)
    <3>1. ASSUME NEW n \in 0..Len(watchQ)
          PROVE  LET q == SubSeq(watchQ, 1, n)
                 IN  /\ q \in Seq(Queued)
                     /\ \A d : Brings(q, d) => Brings(watchQ, d)
                     /\ \A e : Holds(q, e) => Holds(watchQ, e)
      <4> DEFINE q == SubSeq(watchQ, 1, n)
      <4>1. q \in Seq(Queued) /\ Part(q, watchQ)
        BY PrefixType, PartOfQueue
      <4> HIDE DEF q
      <4>2. (\A d : Brings(q, d) => Brings(watchQ, d)) /\ \A e : Holds(q, e) => Holds(watchQ, e)
        BY <4>1, PartBrings
      <4>3. QED
        BY <4>1, <4>2 DEF q
    <3>2. CASE EndConnection
      <4>1. PICK n \in 0..Len(watchQ) : watchQ' = SubSeq(watchQ, 1, n)
        BY <3>2 DEF EndConnection
      <4>2. QED
        BY <3>1, <4>1
    <3>3. CASE BreakConnection
      <4>1. PICK n \in 0..Len(watchQ) : watchQ' = Append(SubSeq(watchQ, 1, n), ErrorEvent)
        BY <3>3 DEF BreakConnection
      <4> DEFINE q == SubSeq(watchQ, 1, n)
      <4>2. /\ q \in Seq(Queued)
            /\ \A d : Brings(q, d) => Brings(watchQ, d)
            /\ \A e : Holds(q, e) => Holds(watchQ, e)
        BY <3>1
      <4>3. watchQ' = Append(q, ErrorEvent)
        BY <4>1
      <4> HIDE DEF q
      <4>4. /\ \A d : Brings(watchQ', d) => Brings(q, d) \/ d = ErrorEvent.dep
            /\ \A e : Holds(watchQ', e) => Holds(q, e) \/ e = ErrorEvent
        <5>1. ErrorEvent \in Queued
          BY DEF Queued
        <5>2. QED
          BY <4>2, <4>3, <5>1, AppendBrings
      <4>5. (\A d \in Dep : d # ErrorEvent.dep) /\ ErrorEvent \notin Event
        BY ConstantsDistinct DEF ErrorEvent
      <4>6. QED
        BY <4>2, <4>4, <4>5
    <3>4. CASE Shutdown
      BY <3>4 DEF Shutdown
    <3>5. QED
      BY <1>5, <3>2, <3>3, <3>4
  <2>3. \A d \in Dep : Knows(d)' => Knows(d)
    BY <2>1, <2>2 DEF Knows, SlotKnows
  <2>4. \A e \in Event : Tells(e)' => Tells(e)
    BY <2>1, <2>2 DEF Tells
  <2>5. \A d \in Dep : Deletes(d)' => Deletes(d)
    BY <2>1, <2>4 DEF Deletes, SlotDeletes
  <2>6. QED
    BY <2>1, <2>3, <2>4, <2>5, NothingNew
<1>6. QED
  BY <1>2, <1>3, <1>4, <1>5 DEF Cluster, K8sStep

LEMMA WatcherKnows ==
    ASSUME TypeOK, TypeOK', PipelineInv, Incarnations, Watcher, UNCHANGED <<map, toldDeleted>>
    PROVE  Incarnations'
<1> USE PageTypes
<1> DEFINE Exists(d) == \E k \in Keys : objects[k] # NoDep /\ objects[k].key = k
                                         /\ d = objects[k]
<1>1. UNCHANGED <<rev, objects, current, deployments, chan, snapshot, shown, map, toldDeleted>>
  BY DEF Watcher, moduleVars, handlerVars, WatcherStep, WatchDeployments, OpenConnection,
         WatchRequestFails, ReturnError, NextEvent, ConversionFails, ChannelClosed, ContextDone
<1>2. /\ \A d : Brings(watchQ, d) \/ d = pending.dep => Knows(d)
      /\ \A e : Holds(watchQ, e) \/ pending = e => Tells(e)
  BY DEF Knows, Tells
<1>3. /\ \A d \in Dep : Brings(watchQ', d) \/ d = pending'.dep => Knows(d)
      /\ \A e \in Event : Holds(watchQ', e) \/ pending' = e
            => Tells(e) \/ (e.type = "ADDED" /\ Exists(e.dep))
  <2>1. CASE WatchDeployments
    <3>1. pending' = pending /\ watchQ' \in Listings
      BY <2>1 DEF WatchDeployments, OpenConnection
    <3>2. \A i \in 1..Len(watchQ') : \E k \in Existing : watchQ'[i] = Change("ADDED", objects[k])
      <4>1. DOMAIN watchQ' = 1..Len(watchQ')
        BY <3>1, ListingsType, LenProperties
      <4>2. DOMAIN watchQ' = 1..Cardinality(Existing)
        BY <3>1 DEF Listings
      <4>3. QED
        BY <3>1, <4>1, <4>2 DEF Listings
    <3>3. ASSUME NEW i \in 1..Len(watchQ')
          PROVE  watchQ'[i].type = "ADDED" /\ Exists(watchQ'[i].dep)
      <4>1. PICK k \in Existing : watchQ'[i] = Change("ADDED", objects[k])
        BY <3>2
      <4>2. k \in Keys /\ objects[k] # NoDep /\ objects[k].key = k
        BY DEF Existing, PipelineInv, Upstream
      <4>3. QED
        BY <4>1, <4>2 DEF Change
    <3>4. \A d \in Dep : Brings(watchQ', d) => Knows(d)
      <4>1. ASSUME NEW d \in Dep, Brings(watchQ', d) PROVE Knows(d)
        <5>1. \E k \in Keys : d = objects[k]
          BY <3>3, <4>1 DEF Brings
        <5>2. QED
          BY <5>1 DEF Knows
      <4>2. QED
        BY <4>1
    <3>5. \A e : Holds(watchQ', e) => e.type = "ADDED" /\ Exists(e.dep)
      <4> HIDE DEF Exists
      <4>1. QED
        BY <3>3 DEF Holds
    <3> HIDE DEF Exists
    <3>6. QED
      BY <1>2, <3>1, <3>4, <3>5
  <2>2. CASE NextEvent
    <3>1. watchQ # <<>> /\ pending' = Head(watchQ) /\ watchQ' = Tail(watchQ)
      BY <2>2 DEF NextEvent
    <3>2. Tail(watchQ) \in Seq(Queued) /\ Part(Tail(watchQ), watchQ)
      BY <3>1, PartOfQueue, HeadTailProperties
    <3>3. /\ \A d : Brings(watchQ', d) => Brings(watchQ, d)
          /\ \A e : Holds(watchQ', e) => Holds(watchQ, e)
      BY <3>1, <3>2, PartBrings
    <3>4. /\ \A d : d = pending'.dep => Brings(watchQ, d)
          /\ \A e : e = pending' => Holds(watchQ, e)
      BY <3>1, HeadBrings
    <3>5. QED
      BY <1>2, <3>3, <3>4
  <2>3. CASE ConversionFails \/ ChannelClosed \/ ContextDone
    <3>1. pending' = pending /\ watchQ' = <<>>
      BY <2>3 DEF ConversionFails, ChannelClosed, ContextDone, Stop, ReturnError
    <3>2. QED
      BY <1>2, <3>1, EmptyBrings
  <2>4. CASE WatchRequestFails
    BY <1>2, <2>4 DEF WatchRequestFails, ReturnError
  <2>5. QED
    BY <2>1, <2>2, <2>3, <2>4 DEF Watcher, WatcherStep
<1>4. \A d \in Dep : Knows(d)' => Knows(d)
  BY <1>1, <1>3 DEF Knows, SlotKnows
<1> HIDE DEF Exists
<1>5. \A e \in Event : Tells(e)' => Tells(e) \/ (e.type = "ADDED" /\ Exists(e.dep))
  <2>1. \A e : Tells(e)' => Tells(e) \/ Holds(watchQ', e) \/ pending' = e
    BY <1>1 DEF Tells
  <2>2. QED
    BY <1>3, <2>1
<1>6. \A d \in Dep : Tells(Change("DELETED", d))' => Tells(Change("DELETED", d))
  <2>1. \A d \in Dep : Change("DELETED", d) \in Event /\ Change("DELETED", d).type = "DELETED"
    BY DEF Change
  <2>2. QED
    BY <1>5, <2>1
<1>7. \A d \in Dep : Deletes(d)' => Deletes(d)
  BY <1>1, <1>6 DEF Deletes, SlotDeletes
<1>8. QED
  BY <1>1, <1>4, <1>5, <1>7, NothingNew DEF Exists

LEMMA StreamerKnows ==
    ASSUME TypeOK, TypeOK', Incarnations, Streamer, UNCHANGED <<map, toldDeleted>>
    PROVE  Incarnations'
<1> USE PageTypes
<1>1. UNCHANGED <<rev, objects, watchQ, snapshot, shown, map, toldDeleted>>
  BY DEF Streamer, handlerVars, StreamerStep, ReceiveEvent, ApplyEvent, StreamContextDone,
         CloseChannels, k8sVars
<1>2. /\ \A d \in Dep : Knows(d)' => Knows(d)
      /\ \A e \in Event : Tells(e)' => Tells(e)
  <2>1. CASE ReceiveEvent
    <3>1. /\ UNCHANGED <<deployments, chan>>
          /\ current' = pending /\ pending' = NoEvent
      BY <2>1 DEF ReceiveEvent
    <3>2. (\A d \in Dep : d # NoEvent.dep) /\ NoEvent \notin Event
      BY ConstantsDistinct DEF NoEvent
    <3>3. QED
      BY <1>1, <3>1, <3>2 DEF Knows, SlotKnows, Tells
  <2>2. CASE ApplyEvent
    <3>1. /\ UNCHANGED pending
          /\ current' = NoEvent /\ current \in Event
          /\ \A k \in Keys : deployments'[k] \in {deployments[k], current.dep}
          /\ \A s \in Subs : chan'[s] \in {chan[s], Append(chan[s], current)}
      BY <2>2 DEF ApplyEvent, watcherVars, TypeOK, ModuleTypeOK
    <3>2. (\A d \in Dep : d # NoEvent.dep) /\ NoEvent \notin Event
      BY ConstantsDistinct DEF NoEvent
    <3>3. ASSUME NEW s \in Subs
          PROVE  /\ \A d : Brings(chan'[s], d) => Brings(chan[s], d) \/ d = current.dep
                 /\ \A e : Holds(chan'[s], e) => Holds(chan[s], e) \/ e = current
      <4>1. /\ \A d : Brings(Append(chan[s], current), d) => Brings(chan[s], d) \/ d = current.dep
            /\ \A e : Holds(Append(chan[s], current), e) => Holds(chan[s], e) \/ e = current
        BY <3>1, AppendBrings
      <4>2. CASE chan'[s] = chan[s]
        BY <4>2
      <4>3. CASE chan'[s] = Append(chan[s], current)
        BY <4>1, <4>3
      <4>4. QED
        BY <3>1, <4>2, <4>3
    <3>4. \A d \in Dep : Knows(d)' => Knows(d)
      BY <1>1, <3>1, <3>2, <3>3 DEF Knows, SlotKnows
    <3>5. \A e \in Event : Tells(e)' => Tells(e)
      BY <1>1, <3>1, <3>2, <3>3 DEF Tells
    <3>6. QED
      BY <3>4, <3>5
  <2>3. CASE StreamContextDone \/ CloseChannels
    <3>1. UNCHANGED <<pending, current, deployments, chan>>
      BY <2>3 DEF StreamContextDone, CloseChannels, watcherVars
    <3>2. QED
      BY <1>1, <3>1 DEF Knows, SlotKnows, Tells
  <2>4. QED
    BY <2>1, <2>2, <2>3 DEF Streamer, StreamerStep
<1>3. \A d \in Dep : Deletes(d)' => Deletes(d)
  BY <1>1, <1>2 DEF Deletes, SlotDeletes
<1>4. QED
  BY <1>1, <1>2, <1>3, NothingNew

-----------------------------------------------------------------------------
(* The page *)

\* A step of slot s leaves everything as it is but for the slot.
OnlySlot(s) ==
    /\ UNCHANGED <<rev, objects, watchQ, pending, current, deployments>>
    /\ \A t \in Subs \ {s} :
        /\ chan'[t] = chan[t] /\ snapshot'[t] = snapshot[t] /\ shown'[t] = shown[t]
        /\ map'[t] = map[t] /\ toldDeleted'[t] = toldDeleted[t] /\ hpc'[t] = hpc[t]
    /\ map' \in [Subs -> Seq(Dep)]
    /\ toldDeleted' \in [Subs -> SUBSET Dep]

\* If what the slot then knows was known, the invariant need only be shown for it.
LEMMA SlotKeeps ==
    ASSUME PageInv, NEW s \in Subs, OnlySlot(s),
           \A d \in Dep : SlotKnows(s, d)' => Knows(d),
           \A d \in Dep : SlotDeletes(s, d)' => Deletes(d),
           \A e \in Event : Holds(chan'[s], e) => Tells(e),
           OnePerUid(map'[s]), MapShows(s)', MapForgets(s)'
    PROVE  PageInv'
<1>1. \A t \in Subs \ {s} : \A d :
        /\ SlotKnows(t, d)' = SlotKnows(t, d)
        /\ SlotDeletes(t, d)' = SlotDeletes(t, d)
  BY DEF OnlySlot, SlotKnows, SlotDeletes
<1>2. ASSUME NEW d \in Dep, Knows(d)' PROVE Knows(d)
  <2>1. CASE \E t \in Subs \ {s} : SlotKnows(t, d)'
    BY <1>1, <2>1 DEF Knows
  <2>2. CASE SlotKnows(s, d)'
    BY <2>2
  <2>3. QED
    BY <1>2, <2>1, <2>2 DEF OnlySlot, Knows
<1>3. ASSUME NEW e \in Event, Tells(e)' PROVE Tells(e)
  <2>1. CASE \E t \in Subs \ {s} : Holds(chan'[t], e)
    BY <2>1 DEF OnlySlot, Tells
  <2>2. CASE Holds(chan'[s], e)
    BY <2>2
  <2>3. QED
    BY <1>3, <2>1, <2>2 DEF OnlySlot, Tells
<1>4. ASSUME NEW d \in Dep, Deletes(d)' PROVE Deletes(d)
  <2>1. Change("DELETED", d) \in Event
    BY DEF Change, Event
  <2>2. CASE Tells(Change("DELETED", d))'
    BY <1>3, <2>1, <2>2 DEF Deletes
  <2>3. CASE \E t \in Subs \ {s} : SlotDeletes(t, d)'
    BY <1>1, <2>3 DEF Deletes
  <2>4. CASE SlotDeletes(s, d)'
    BY <2>4
  <2>5. QED
    BY <1>4, <2>2, <2>3, <2>4 DEF Deletes
<1>5. Incarnations'
  BY <1>2, <1>3, <1>4, NothingNew DEF OnlySlot, PageInv
<1>6. ASSUME NEW t \in Subs \ {s}
      PROVE  OnePerUid(map'[t]) /\ MapShows(t)' /\ MapForgets(t)'
  <2>1. /\ map'[t] = map[t] /\ shown'[t] = shown[t] /\ hpc'[t] = hpc[t]
        /\ toldDeleted'[t] = toldDeleted[t] /\ snapshot'[t] = snapshot[t]
    BY DEF OnlySlot
  <2>2. OnePerUid(map[t]) /\ MapShows(t) /\ MapForgets(t)
    BY DEF PageInv
  <2>3. MapShows(t)'
    BY <2>1, <2>2 DEF MapShows
  <2>4. MapForgets(t)'
    BY <2>1, <2>2 DEF MapForgets
  <2>5. QED
    BY <2>1, <2>2, <2>3, <2>4
<1>7. QED
  BY <1>5, <1>6 DEF PageInv, OnlySlot

\* A page takes in an event of what is known.
LEMMA MapTakesIn ==
    ASSUME TypeOK, PageInv, NEW s \in Subs, NEW e \in Event, Knows(e.dep),
           shown'[s] = [shown[s] EXCEPT ![e.dep.key] = e],
           map'[s] = Reduce(map[s], e), hpc'[s] = "open",
           \A d : Brings(chan'[s], d) => Brings(chan[s], d),
           snapshot'[s] \subseteq snapshot[s],
           toldDeleted'[s] = IF e.type = "DELETED" THEN toldDeleted[s] \cup {e.dep}
                             ELSE toldDeleted[s]
    PROVE  /\ map'[s] \in Seq(Dep) /\ OnePerUid(map'[s]) /\ MapShows(s)'
           /\ toldDeleted'[s] \in SUBSET Dep
           /\ Reduced(map'[s], map[s], e)
           /\ \A d \in Dep : SlotKnows(s, d)' => Knows(d)
           /\ \A d \in Dep : SlotDeletes(s, d)' => Deletes(d) \/ e = Change("DELETED", d)
<1> USE PageTypes
<1>1. e.dep \in Dep /\ map[s] \in Seq(Dep) /\ OnePerUid(map[s])
  BY DEF Event, PageInv
<1>2. /\ map'[s] \in Seq(Dep) /\ OnePerUid(map'[s])
      /\ Reduced(map'[s], map[s], e)
  BY <1>1, ReduceProperties
<1>3. \A d : SlotKnows(s, d) => Knows(d)
  BY DEF Knows
<1>4. \A i \in DOMAIN map[s] : map[s][i] \in Dep /\ Knows(map[s][i])
  BY <1>1, <1>3 DEF SlotKnows
<1>5. \A k \in Keys : shown'[s][k] = IF k = e.dep.key THEN e ELSE shown[s][k]
  BY DEF TypeOK
<1>6. ASSUME NEW k \in Keys, shown'[s][k].dep # NoDep
      PROVE  /\ shown'[s][k].dep.key = k
             /\ shown'[s][k].type # "DELETED" =>
                    \E i \in DOMAIN map'[s] : map'[s][i] = shown'[s][k].dep
  <2>1. CASE k = e.dep.key
    BY <1>2, <1>5, <2>1 DEF Reduced
  <2>2. CASE k # e.dep.key
    <3>1. shown'[s][k] = shown[s][k]
      BY <1>5, <2>2
    <3>2. shown[s][k].dep.key = k
      BY <1>6, <3>1 DEF PageInv, MapShows
    <3>3. ASSUME shown[s][k].type # "DELETED"
          PROVE  \E i \in DOMAIN map'[s] : map'[s][i] = shown[s][k].dep
      <4>1. PICK i \in DOMAIN map[s] : map[s][i] = shown[s][k].dep
        BY <1>6, <3>1, <3>3 DEF PageInv, MapShows
      <4>2. map[s][i].uid # e.dep.uid
        BY <1>1, <1>4, <2>2, <3>2, <4>1 DEF PageInv, Incarnations
      <4>3. QED
        BY <1>2, <4>1, <4>2 DEF Reduced
    <3>4. QED
      BY <3>1, <3>2, <3>3
  <2>3. QED
    BY <2>1, <2>2
<1>7. MapShows(s)'
  BY <1>6 DEF MapShows
<1>8. ASSUME NEW d \in Dep, SlotKnows(s, d)' PROVE Knows(d)
  <2>1. CASE \E i \in DOMAIN map'[s] : map'[s][i] = d
    BY <1>2, <1>4, <2>1 DEF Reduced
  <2>2. CASE \E k \in Keys : shown'[s][k].dep = d
    BY <1>3, <1>5, <2>2 DEF SlotKnows
  <2>3. CASE Brings(chan'[s], d) \/ d \in snapshot'[s] \/ d \in toldDeleted'[s]
    BY <1>3, <2>3 DEF SlotKnows
  <2>4. QED
    BY <1>8, <2>1, <2>2, <2>3 DEF SlotKnows
<1>9. ASSUME NEW d \in Dep, SlotDeletes(s, d)'
      PROVE  Deletes(d) \/ e = Change("DELETED", d)
  <2>1. SlotDeletes(s, d) => Deletes(d)
    BY DEF Deletes
  <2>2. CASE \E k \in Keys : shown'[s][k] = Change("DELETED", d)
    BY <1>5, <2>1, <2>2 DEF SlotDeletes
  <2>3. CASE d \in toldDeleted'[s]
    <3>1. CASE d \in toldDeleted[s]
      BY <2>1, <3>1 DEF SlotDeletes
    <3>2. CASE e.type = "DELETED" /\ d = e.dep
      BY <3>2 DEF Event, Change
    <3>3. QED
      BY <2>3, <3>1, <3>2
  <2>4. QED
    BY <1>9, <2>2, <2>3 DEF SlotDeletes
<1>10. toldDeleted'[s] \in SUBSET Dep
  BY <1>1 DEF PageInv
<1>11. QED
  BY <1>2, <1>7, <1>8, <1>9, <1>10

LEMMA OpenKeeps ==
    ASSUME TypeOK, PageInv, NEW s \in Subs, Open(s)
    PROVE  PageInv'
<1> USE PageTypes
<1>1. /\ hpc[s] = "idle" /\ hpc'[s] = "open"
      /\ chan'[s] = <<>> /\ snapshot'[s] = CloneDeployments /\ shown' = shown
      /\ map'[s] = <<>> /\ toldDeleted'[s] = {}
  BY DEF Open, Subscribe, Register, TypeOK, ModuleTypeOK, PageInv
<1>2. OnlySlot(s)
  BY DEF Open, Subscribe, Register, OnlySlot, k8sVars, watcherVars, TypeOK, ModuleTypeOK,
         PageInv
<1>3. MapShows(s)' /\ OnePerUid(map'[s]) /\ MapForgets(s)'
  <2>1. MapShows(s)'
    BY <1>1 DEF PageInv, MapShows
  <2>2. OnePerUid(map'[s])
    BY <1>1 DEF OnePerUid
  <2>3. MapForgets(s)'
    BY <1>1 DEF MapForgets
  <2>4. QED
    BY <2>1, <2>2, <2>3
<1>4. ASSUME NEW d \in Dep, SlotKnows(s, d)' PROVE Knows(d)
  <2>1. CASE d \in snapshot'[s]
    <3>1. \A x \in CloneDeployments : \E k \in Keys : x = deployments[k]
      BY DEF CloneDeployments, GetDeployment
    <3>2. QED
      BY <1>1, <2>1, <3>1 DEF Knows
  <2>2. CASE \E k \in Keys : shown'[s][k].dep = d
    BY <1>1, <2>2 DEF Knows, SlotKnows
  <2>3. QED
    BY <1>1, <1>4, <2>1, <2>2, EmptyBrings DEF SlotKnows
<1>5. \A d \in Dep : SlotDeletes(s, d)' => Deletes(d)
  BY <1>1 DEF Deletes, SlotDeletes
<1>6. \A e \in Event : ~Holds(chan'[s], e)
  BY <1>1, EmptyBrings
<1>7. QED
  BY <1>2, <1>3, <1>4, <1>5, <1>6, SlotKeeps

LEMMA ReceiveInitialKeeps ==
    ASSUME TypeOK, PageInv, NEW s \in Subs, ReceiveInitial(s)
    PROVE  PageInv'
<1> USE PageTypes
<1>1. PICK d \in snapshot[s] :
        /\ Show(s, Change("ADDED", d))
        /\ snapshot' = [snapshot EXCEPT ![s] = @ \ {d}]
        /\ UNCHANGED <<k8sVars, watcherVars, moduleVars, hpc>>
        /\ hpc[s] = "open"
  BY DEF ReceiveInitial, SendInitial
<1> DEFINE e == Change("ADDED", d)
<1>2. snapshot[s] \in SUBSET Dep /\ snapshot'[s] = snapshot[s] \ {d}
  BY <1>1 DEF TypeOK
<1>3. /\ d \in Dep /\ e \in Event /\ e.dep = d /\ e.type = "ADDED"
      /\ \A x \in Dep : e # Change("DELETED", x)
  BY <1>2 DEF Event, Change
<1>4. /\ map' = [map EXCEPT ![s] = Reduce(@, e)]
      /\ toldDeleted' = [toldDeleted EXCEPT ![s] = @]
  BY <1>2, <1>3 DEF ReceiveInitial, Receive, Tell
<1>5. shown' = [shown EXCEPT ![s][d.key] = e]
  BY <1>1, <1>3 DEF Show
<1>6. Knows(d)
  BY DEF Knows, SlotKnows
<1> HIDE DEF e
<1>7. /\ map'[s] = Reduce(map[s], e)
      /\ shown'[s] = [shown[s] EXCEPT ![e.dep.key] = e]
      /\ hpc'[s] = "open"
      /\ chan' = chan
      /\ toldDeleted'[s] = toldDeleted[s]
  BY <1>1, <1>3, <1>4, <1>5 DEF PageInv, TypeOK, moduleVars
<1>8. /\ map'[s] \in Seq(Dep) /\ OnePerUid(map'[s]) /\ MapShows(s)'
      /\ toldDeleted'[s] \in SUBSET Dep
      /\ \A x \in Dep : SlotKnows(s, x)' => Knows(x)
      /\ \A x \in Dep : SlotDeletes(s, x)' => Deletes(x) \/ e = Change("DELETED", x)
  BY <1>2, <1>3, <1>6, <1>7, MapTakesIn
<1>9. OnlySlot(s)
  BY <1>1, <1>4, <1>5, <1>8
     DEF OnlySlot, PageInv, TypeOK, k8sVars, watcherVars, moduleVars
<1>10. \A x \in Event : Holds(chan'[s], x) => Tells(x)
  BY <1>7 DEF Tells
<1>11. MapForgets(s)'
  <2>1. toldDeleted[s] = {}
    BY <1>1 DEF PageInv, MapForgets
  <2>2. QED
    BY <1>7, <2>1 DEF MapForgets
<1>12. QED
  BY <1>3, <1>8, <1>9, <1>10, <1>11, SlotKeeps

LEMMA ReceiveChangeKeeps ==
    ASSUME TypeOK, StreamInv, PageInv, NEW s \in Subs, ReceiveChange(s), chan[s] # <<>>
    PROVE  PageInv'
<1> USE PageTypes
<1> DEFINE e == Head(chan[s])
<1>1. e \in Event /\ Tail(chan[s]) \in Seq(Event) /\ Part(Tail(chan[s]), chan[s])
  BY HeadTailProperties, PartOfQueue
<1>2. /\ chan' = [chan EXCEPT ![s] = Tail(@)]
      /\ shown' = [shown EXCEPT ![s][e.dep.key] = e]
      /\ map' = [map EXCEPT ![s] = Reduce(@, e)]
      /\ toldDeleted' = [toldDeleted EXCEPT ![s] =
                            IF e.type = "DELETED" THEN @ \cup {e.dep} ELSE @]
      /\ UNCHANGED <<k8sVars, watcherVars, current, deployments, hpc, snapshot>>
      /\ hpc[s] = "open" /\ s \in taken
  BY DEF ReceiveChange, SendUpdate, Writing, Show, Receive, Tell
<1>3. Brings(chan[s], e.dep) /\ Holds(chan[s], e)
  BY HeadBrings
<1>4. /\ \A d : Brings(Tail(chan[s]), d) => Brings(chan[s], d)
      /\ \A x : Holds(Tail(chan[s]), x) => Holds(chan[s], x)
  BY <1>1, PartBrings
<1>5. Before(shown[s][e.dep.key].dep, e.dep)
  <2>1. e.dep \in Dep /\ Carries(e, e.dep.key)
    BY <1>1 DEF Event, Carries
  <2>2. Downstream(s, e.dep.key)
    BY <2>1 DEF StreamInv
  <2>3. PICK i \in 1..Len(chan[s]) : chan[s][i] = e
    BY <1>3 DEF Holds
  <2> HIDE DEF e
  <2>4. QED
    BY <2>1, <2>2, <2>3 DEF Downstream, From
<1> HIDE DEF e
<1>6. Knows(e.dep) /\ e.dep \in Dep
  BY <1>1, <1>3 DEF Knows, SlotKnows, Event
<1>7. /\ map'[s] = Reduce(map[s], e)
      /\ shown'[s] = [shown[s] EXCEPT ![e.dep.key] = e]
      /\ hpc'[s] = "open"
      /\ chan'[s] = Tail(chan[s])
      /\ snapshot'[s] = {}
      /\ toldDeleted'[s] = IF e.type = "DELETED" THEN toldDeleted[s] \cup {e.dep}
                           ELSE toldDeleted[s]
  BY <1>2 DEF PageInv, TypeOK, ModuleTypeOK, StreamInv, SnapshotFirst
<1>8. /\ \A d : Brings(chan'[s], d) => Brings(chan[s], d)
      /\ snapshot'[s] \subseteq snapshot[s]
  BY <1>4, <1>7
<1>9. /\ map'[s] \in Seq(Dep) /\ OnePerUid(map'[s]) /\ MapShows(s)'
      /\ toldDeleted'[s] \in SUBSET Dep
      /\ Reduced(map'[s], map[s], e)
      /\ \A x \in Dep : SlotKnows(s, x)' => Knows(x)
      /\ \A x \in Dep : SlotDeletes(s, x)' => Deletes(x) \/ e = Change("DELETED", x)
  BY <1>1, <1>6, <1>7, <1>8, MapTakesIn
<1>10. OnlySlot(s)
  BY <1>2, <1>9 DEF OnlySlot, PageInv, TypeOK, ModuleTypeOK, k8sVars, watcherVars
<1>11. \A x : Holds(chan[s], x) => Tells(x)
  BY DEF Tells
<1>12. \A x \in Dep : e = Change("DELETED", x) => Deletes(x)
  BY <1>3, <1>11 DEF Deletes
<1>13. ASSUME NEW d \in toldDeleted[s], e.dep.uid = d.uid PROVE e.type = "DELETED"
  <2>1. d \in Dep /\ Deletes(d)
    BY DEF PageInv, Deletes, SlotDeletes
  <2>2. d.key = e.dep.key
    BY <1>6, <1>13, <2>1, ToldIsKnown DEF PageInv, Incarnations
  <2>3. /\ shown[s][d.key].dep # NoDep
        /\ d.rv =< shown[s][d.key].dep.rv
    BY <1>2 DEF PageInv, MapForgets
  <2>4. shown[s][d.key].dep.rv \in Nat
    <3>1. shown[s][d.key] \in Event \cup {NoEvent}
      BY <2>1 DEF TypeOK
    <3>2. QED
      BY <2>3, <3>1 DEF Event, NoEvent
  <2>5. d.rv =< e.dep.rv
    BY <1>5, <1>6, <2>1, <2>2, <2>3, <2>4 DEF Before
  <2>6. e.dep.rv < d.rv \/ e.dep = d
    BY <1>6, <1>13, <2>1 DEF PageInv, Incarnations, IsLast
  <2>7. e.dep = d
    BY <1>6, <2>1, <2>5, <2>6
  <2>8. QED
    BY <1>1, <1>3, <1>11, <2>1, <2>7 DEF PageInv, Incarnations
<1>14. ASSUME NEW d \in toldDeleted'[s]
       PROVE  /\ shown'[s][d.key].dep # NoDep
              /\ d.rv =< shown'[s][d.key].dep.rv
              /\ \A j \in DOMAIN map'[s] : map'[s][j].uid # d.uid
  <2>1. \A k \in Keys : shown'[s][k] = IF k = e.dep.key THEN e ELSE shown[s][k]
    BY <1>7 DEF TypeOK
  <2>2. d \in Dep
    BY <1>9
  <2>3. CASE d \in toldDeleted[s]
    <3>1. /\ shown[s][d.key].dep # NoDep
          /\ d.rv =< shown[s][d.key].dep.rv
          /\ \A i \in DOMAIN map[s] : map[s][i].uid # d.uid
      BY <1>2, <2>3 DEF PageInv, MapForgets
    <3>2. shown[s][d.key].dep.rv \in Nat
      <4>1. shown[s][d.key] \in Event \cup {NoEvent}
        BY <2>2 DEF TypeOK
      <4>2. QED
        BY <3>1, <4>1 DEF Event, NoEvent
    <3>3. shown'[s][d.key].dep # NoDep /\ d.rv =< shown'[s][d.key].dep.rv
      <4>1. CASE d.key = e.dep.key
        <5>1. shown[s][d.key].dep.rv =< e.dep.rv
          BY <1>5, <1>6, <3>1, <3>2, <4>1 DEF Before
        <5>2. QED
          BY <1>6, <2>1, <2>2, <3>1, <3>2, <4>1, <5>1
      <4>2. CASE d.key # e.dep.key
        BY <2>1, <2>2, <3>1, <4>2
      <4>3. QED
        BY <4>1, <4>2
    <3>4. \A j \in DOMAIN map'[s] : map'[s][j].uid # d.uid
      <4>1. e.dep.uid = d.uid => e.type = "DELETED"
        BY <1>13, <2>3
      <4>2. QED
        BY <1>9, <3>1, <4>1 DEF Reduced
    <3>5. QED
      BY <3>3, <3>4
  <2>4. CASE d = e.dep /\ e.type = "DELETED"
    <3>1. shown'[s][d.key] = e
      BY <2>1, <2>2, <2>4
    <3>2. \A j \in DOMAIN map'[s] : map'[s][j].uid # d.uid
      BY <1>9, <2>4 DEF Reduced
    <3>3. QED
      BY <2>2, <2>4, <3>1, <3>2
  <2>5. QED
    BY <1>7, <2>3, <2>4
<1>15. MapForgets(s)'
  BY <1>7, <1>14 DEF MapForgets
<1>16. QED
  BY <1>4, <1>7, <1>9, <1>10, <1>11, <1>12, <1>15, SlotKeeps

LEMMA RemoveKeeps ==
    ASSUME TypeOK, PageInv, NEW s \in Subs, RemoveChannel(s), UNCHANGED <<map, toldDeleted>>
    PROVE  PageInv'
<1>1. /\ chan'[s] = <<>> /\ snapshot'[s] = {} /\ map' = map /\ toldDeleted' = toldDeleted
      /\ shown'[s] = NothingShown /\ hpc'[s] = "idle"
  BY DEF RemoveChannel, Deregister, TypeOK, ModuleTypeOK
<1>2. OnlySlot(s)
  BY DEF RemoveChannel, Deregister, OnlySlot, k8sVars, watcherVars, TypeOK, ModuleTypeOK,
         PageInv
<1>3. \A k \in Keys : shown'[s][k] = NoEvent
  BY <1>1 DEF NothingShown
<1>4. MapShows(s)' /\ OnePerUid(map'[s]) /\ MapForgets(s)'
  BY <1>1, <1>3 DEF PageInv, MapShows, MapForgets, NoEvent
<1>5. \A d \in Dep : NoEvent.dep # d /\ NoEvent # Change("DELETED", d)
  BY ConstantsDistinct DEF NoEvent, Change
<1>6. \A d \in Dep : SlotKnows(s, d)' => Knows(d)
  BY <1>1, <1>3, <1>5, EmptyBrings DEF Knows, SlotKnows
<1>7. \A d \in Dep : SlotDeletes(s, d)' => Deletes(d)
  BY <1>1, <1>3, <1>5 DEF Deletes, SlotDeletes
<1>8. \A e \in Event : ~Holds(chan'[s], e)
  BY <1>1, EmptyBrings
<1>9. QED
  BY <1>2, <1>4, <1>6, <1>7, <1>8, SlotKeeps

\* A step that changes nothing known, told or shown.
LEMMA UnseenKeeps ==
    ASSUME PageInv,
           UNCHANGED <<rev, objects, watchQ, pending, current, deployments, chan, snapshot,
                       shown, map, toldDeleted>>,
           \A t \in Subs : /\ hpc'[t] = "idle" => hpc[t] = "idle"
                           /\ hpc[t] = "idle" => hpc'[t] = "idle"
    PROVE  PageInv'
<1>1. /\ \A d \in Dep : Knows(d)' => Knows(d)
      /\ \A d \in Dep : Deletes(d)' => Deletes(d)
      /\ \A e \in Event : Tells(e)' => Tells(e)
  BY DEF Knows, SlotKnows, Deletes, SlotDeletes, Tells
<1>2. Incarnations'
  BY <1>1, NothingNew DEF PageInv
<1>3. QED
  BY <1>2 DEF PageInv, MapShows, MapForgets

\* The steps of a handler that send nothing.
LEMMA QuietKeeps ==
    ASSUME TypeOK, PageInv, NEW s \in Subs, UNCHANGED <<map, toldDeleted>>,
           \/ SendInitialFails(s) \/ ReceiveUpdate(s) \/ SendUpdateFails(s)
           \/ RequestContextDone(s) \/ ChannelDrained(s) \/ ClientLeaves(s)
    PROVE  PageInv'
<1>1. /\ UNCHANGED <<rev, objects, watchQ, pending, current, deployments, chan, snapshot,
                     shown, map, toldDeleted>>
      /\ \A t \in Subs : /\ hpc'[t] = "idle" => hpc[t] = "idle"
                         /\ hpc[t] = "idle" => hpc'[t] = "idle"
  <2>1. CASE Return(s) /\ hpc[s] = "open"
    BY <2>1 DEF Return, k8sVars, watcherVars, moduleVars, TypeOK
  <2>2. CASE ReceiveUpdate(s) \/ ClientLeaves(s)
    BY <2>2 DEF ReceiveUpdate, ClientLeaves, k8sVars, watcherVars, moduleVars, handlerVars
  <2>3. QED
    BY <2>1, <2>2 DEF SendInitialFails, SendUpdateFails, RequestContextDone, ChannelDrained,
                      Streaming, Writing
<1>2. QED
  BY <1>1, UnseenKeeps

LEMMA InitPage == PageInit => PageInv
<1> SUFFICES ASSUME PageInit PROVE PageInv
  OBVIOUS
<1> USE DEF PageInit, Init, K8sInit, WatcherInit, ModuleInit, HandlerInit
<1>1. /\ map \in [Subs -> Seq(Dep)]
      /\ toldDeleted \in [Subs -> SUBSET Dep]
      /\ \A s \in Subs : /\ map[s] = <<>> /\ chan[s] = <<>> /\ snapshot[s] = {}
                         /\ toldDeleted[s] = {} /\ hpc[s] = "idle"
      /\ \A s \in Subs : \A k \in Keys : shown[s][k] = NoEvent
      /\ \A k \in Keys : objects[k] = NoDep /\ deployments[k] = NoDep
      /\ pending = NoEvent /\ current = NoEvent /\ watchQ = <<>>
  BY DEF NothingShown
<1>2. /\ \A d \in Dep : d # NoDep /\ d # NoEvent.dep /\ Change("DELETED", d) # NoEvent
      /\ NoEvent \notin Event
  BY ConstantsDistinct DEF Change, NoEvent
<1>3. \A d \in Dep : ~Knows(d)
  BY <1>1, <1>2, EmptyBrings DEF Knows, SlotKnows
<1>4. \A e \in Event : ~Tells(e)
  BY <1>1, <1>2, EmptyBrings DEF Tells
<1>5. \A d \in Dep : ~Deletes(d)
  BY <1>3, ToldIsKnown
<1>6. Incarnations
  BY <1>3, <1>4, <1>5 DEF Incarnations
<1>7. \A s \in Subs : OnePerUid(map[s]) /\ MapShows(s) /\ MapForgets(s)
  BY <1>1 DEF OnePerUid, MapShows, MapForgets, NoEvent
<1>8. QED
  BY <1>1, <1>6, <1>7 DEF PageInv

\* EndToEnd does what HandlerDeployments does.
LEMMA PageIsBackend == PageSpec => Spec
<1>1. PageInit => Init
  BY DEF PageInit
<1>2. [PageNext]_pageVars => [Next]_vars
  BY DEF PageNext, Unseen, Open, ReceiveInitial, ReceiveChange, Next, HandlerStep, pageVars
<1>3. QED
  BY <1>1, <1>2, PTL DEF PageSpec, Spec

LEMMA PageCorrect == PageSpec => []PageInv
<1>1. TypeOK /\ TypeOK' /\ PipelineInv /\ StreamInv /\ PageInv /\ [PageNext]_pageVars
            => PageInv'
  <2> SUFFICES ASSUME TypeOK, TypeOK', PipelineInv, StreamInv, PageInv, [PageNext]_pageVars
               PROVE  PageInv'
    OBVIOUS
  <2>1. CASE \E s \in Subs : Open(s) \/ ReceiveInitial(s)
    BY <2>1, OpenKeeps, ReceiveInitialKeeps
  <2>2. ASSUME NEW s \in Subs, ReceiveChange(s) PROVE PageInv'
    <3>1. s \in taken
      BY <2>2 DEF ReceiveChange, SendUpdate, Writing
    <3>2. Len(chan[s]) - 1 >= 0
      BY <3>1, CapacityAssumption, StreamTypes DEF TypeOK, ModuleTypeOK, Buffered
    <3>3. chan[s] # <<>>
      BY <3>2, EmptySeq
    <3>4. QED
      BY <2>2, <3>3, ReceiveChangeKeeps
  <2>3. CASE (Cluster \/ Watcher \/ Streamer) /\ UNCHANGED <<map, toldDeleted>>
    <3>1. Incarnations'
      BY <2>3, ClusterKnows, WatcherKnows, StreamerKnows DEF PageInv
    <3>2. UNCHANGED <<hpc, shown, snapshot, map, toldDeleted>>
      BY <2>3 DEF Cluster, Watcher, Streamer, handlerVars
    <3>3. QED
      BY <3>1, <3>2 DEF PageInv, MapShows, MapForgets
  <2>4. ASSUME NEW s \in Subs, UNCHANGED <<map, toldDeleted>>,
               \/ SendInitialFails(s) \/ ReceiveUpdate(s) \/ SendUpdateFails(s)
               \/ RequestContextDone(s) \/ ChannelDrained(s) \/ ClientLeaves(s)
               \/ RemoveChannel(s)
        PROVE  PageInv'
    BY <2>4, QuietKeeps, RemoveKeeps
  <2>5. CASE UNCHANGED pageVars
    <3>1. UNCHANGED <<rev, objects, watchQ, pending, current, deployments, chan, snapshot,
                      shown, map, toldDeleted, hpc>>
      BY <2>5 DEF pageVars, vars, k8sVars, watcherVars, moduleVars, handlerVars
    <3>2. QED
      BY <3>1, UnseenKeeps
  <2>6. QED
    BY <2>1, <2>2, <2>3, <2>4, <2>5 DEF PageNext, Unseen
<1>2. QED
  BY <1>1, InitPage, PageIsBackend, TypeCorrect, PipelineCorrect, StreamCorrect, PTL
  DEF PageSpec

\* Once nothing is under way, a page has the latest version of every deployment
\* that exists, but for events dropped at a full channel, and what it finds
\* under a name is that deployment, or one that existed before it and whose
\* deletion its stream never told it of.
THEOREM PageCatchesUp == PageSpec => []PageIsCurrent
<1>1. TypeOK /\ PipelineInv /\ CacheIsCurrent /\ StreamInv /\ PageInv => PageIsCurrent
  <2> SUFFICES ASSUME TypeOK, PipelineInv, CacheIsCurrent, StreamInv, PageInv, Settled,
                      NEW s \in Subs, NEW k \in Existing, Drained(s), k \notin missed[s]
               PROVE  /\ objects[k] \in ToSet(map[s])
                      /\ \/ FindByName(map[s], k) = objects[k]
                         \/ /\ FindByName(map[s], k).uid < objects[k].uid
                            /\ \A x \in toldDeleted[s] : x.uid # FindByName(map[s], k).uid
    BY DEF PageIsCurrent
  <2> DEFINE d == objects[k]
  <2>1. k \in Keys /\ d \in Dep /\ d.key = k /\ d # NoDep
    BY PageTypes DEF Existing, PipelineInv, Upstream
  <2>2. deployments[k] = d
    BY DEF CacheIsCurrent, GetDeployment
  <2>3. shown[s][k].dep = d
    <3>1. Delivery(s, k)
      BY <2>1 DEF StreamInv
    <3>2. Len(chan[s]) = 0
      BY EmptySeq DEF Drained
    <3>3. QED
      BY <2>1, <2>2, <3>1, <3>2 DEF Delivery, Drained
  <2>4. shown[s][k].type # "DELETED"
    <3>1. SUFFICES ASSUME shown[s][k].type = "DELETED" PROVE FALSE
      OBVIOUS
    <3>2. shown[s][k] = Change("DELETED", d)
      <4>1. shown[s][k] \in Event \cup {NoEvent}
        BY <2>1 DEF TypeOK
      <4>2. QED
        BY <2>3, <3>1, <4>1 DEF Event, NoEvent, Change
    <3>3. Deletes(d)
      BY <2>1, <3>2 DEF Deletes, SlotDeletes
    <3>4. QED
      BY <2>1, <3>3 DEF PageInv, Incarnations, IsLast
  <2>5. \E i \in DOMAIN map[s] : map[s][i] = d
    BY <2>1, <2>3, <2>4 DEF PageInv, MapShows
  <2>6. map[s] \in Seq(Dep)
    BY DEF PageInv
  <2>7. PICK i \in DOMAIN map[s] : map[s][i].key = k /\ FindByName(map[s], k) = map[s][i]
    BY <2>1, <2>5, <2>6, FindByNameFinds
  <2>8. map[s][i] \in Dep /\ Knows(map[s][i])
    BY <2>6 DEF Knows, SlotKnows
  <2>9. map[s][i].uid =< d.uid
    BY <2>1, <2>7, <2>8 DEF PageInv, Incarnations
  <2>10. map[s][i].uid = d.uid => map[s][i] = d
    BY <2>5 DEF PageInv, OnePerUid
  <2>11. map[s][i].uid \in Nat /\ d.uid \in Nat
    BY <2>1, <2>8 DEF Dep
  <2>12. \A x \in toldDeleted[s] : x.uid # map[s][i].uid
    BY DEF PageInv, MapForgets, Drained
  <2>13. QED
    BY <2>5, <2>7, <2>9, <2>10, <2>11, <2>12 DEF ToSet
<1>2. QED
  BY <1>1, PageCorrect, PageIsBackend, TypeCorrect, PipelineCorrect, CacheCatchesUp,
     StreamCorrect, PTL
=============================================================================
