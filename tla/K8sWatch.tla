------------------------------- MODULE K8sWatch -------------------------------
(***************************************************************************)
(* The Kubernetes API server as the deployment watcher sees it: the        *)
(* FlinkDeployment objects of the cluster and one watch connection over    *)
(* all namespaces, opened by K8sService.WatchDeployments with empty        *)
(* ListOptions (backend/internal/k8s_service.go).  The server and the      *)
(* client library are not in the repository; what is modelled is what the  *)
(* watcher relies on:                                                      *)
(*   - a connection opened without a resource version starts with a        *)
(*     synthetic ADDED event for every object that exists, in any order,   *)
(*     and then carries every change in revision order;                    *)
(*   - a connection may end at any time.  Events already on their way may  *)
(*     still be delivered, the later ones are lost with it;                *)
(*   - a connection may break with an ERROR event, whose object is a       *)
(*     Status and not a deployment.                                        *)
(***************************************************************************)
EXTENDS Integers, Sequences, FiniteSets

CONSTANTS
    Keys,      \* the namespace/name pairs a FlinkDeployment can have
    NoDep,     \* no deployment under a key
    MaxRev,    \* bound: the number of changes made to the cluster
    MaxOpens   \* bound: the number of watch connections opened

ASSUME KeysAssumption  == IsFiniteSet(Keys)
ASSUME BoundAssumption == MaxRev \in Nat /\ MaxOpens \in Nat

VARIABLES
    rev,       \* the cluster's resource version, increased by every change
    objects,   \* the deployment that exists under each key, or NoDep
    conn,      \* the watch connection: "none", "open" or "ended"
    watchQ,    \* the events the connection has still to deliver
    opens,     \* how many connections were opened
    ctxDone    \* the context of the watcher and its streamer is cancelled

k8sVars == <<rev, objects, conn, watchQ, opens, ctxDone>>

-----------------------------------------------------------------------------
(* Deployments and events *)

\* A deployment: the key it is stored under, the uid of its incarnation (the
\* revision that created it) and its resource version.
Dep == [key : Keys, uid : Nat, rv : Nat]

ASSUME NoDepAssumption == NoDep \notin Dep

Change(t, d) == [type |-> t, dep |-> d]

Event == [type : {"ADDED", "MODIFIED", "DELETED"}, dep : Dep]

\* A watch event that carries a Status: no deployment can be read from it.
ErrorEvent == [type |-> "ERROR", dep |-> NoDep]

-----------------------------------------------------------------------------
K8sInit ==
    /\ rev = 0
    /\ objects = [k \in Keys |-> NoDep]
    /\ conn = "none"
    /\ watchQ = <<>>
    /\ opens = 0
    /\ ctxDone = FALSE

\* An object changes from the outside: a user, the Flink operator, the garbage
\* collector.  An open connection gets the change as its next event.
Commit(k, d, e) ==
    /\ rev < MaxRev
    /\ rev' = rev + 1
    /\ objects' = [objects EXCEPT ![k] = d]
    /\ watchQ' = IF conn = "open" THEN Append(watchQ, e) ELSE watchQ
    /\ UNCHANGED <<conn, opens, ctxDone>>

Create(k) ==
    LET d == [key |-> k, uid |-> rev + 1, rv |-> rev + 1]
    IN  objects[k] = NoDep /\ Commit(k, d, Change("ADDED", d))

Update(k) ==
    LET d == [objects[k] EXCEPT !.rv = rev + 1]
    IN  objects[k] # NoDep /\ Commit(k, d, Change("MODIFIED", d))

\* The event of a deletion carries the last state under the new revision.
Delete(k) ==
    LET d == [objects[k] EXCEPT !.rv = rev + 1]
    IN  objects[k] # NoDep /\ Commit(k, NoDep, Change("DELETED", d))

Existing == {k \in Keys : objects[k] # NoDep}

\* The synthetic events of a fresh connection: one ADDED for each object.
Listings ==
    {q \in [1..Cardinality(Existing) ->
                {Change("ADDED", objects[k]) : k \in Existing}] :
        \A k \in Existing : \E i \in DOMAIN q : q[i] = Change("ADDED", objects[k])}

\* MUTANT: the request names the newest revision, so that nothing is listed.
OpenConnectionUnlisted ==
    /\ ~ctxDone
    /\ opens < MaxOpens
    /\ conn = "none"
    /\ conn' = "open"
    /\ watchQ' = <<>>
    /\ opens' = opens + 1
    /\ UNCHANGED <<rev, objects, ctxDone>>

OpenConnection ==
    /\ ~ctxDone
    /\ opens < MaxOpens
    /\ conn = "none"
    /\ conn' = "open"
    /\ watchQ' \in Listings
    /\ opens' = opens + 1
    /\ UNCHANGED <<rev, objects, ctxDone>>

\* The connection ends: the server's timeout, a network failure, or the
\* client library closing it because its context is done.  Only the first n
\* of the pending events still arrive.  (The bound on connections stands in
\* the guard: a connection that could not be replaced does not end.)
EndConnection ==
    /\ conn = "open"
    /\ opens < MaxOpens \/ ctxDone
    /\ conn' = "ended"
    /\ \E n \in 0..Len(watchQ) : watchQ' = SubSeq(watchQ, 1, n)
    /\ UNCHANGED <<rev, objects, opens, ctxDone>>

\* The server reports an error on the stream and ends it.
BreakConnection ==
    /\ conn = "open"
    /\ conn' = "ended"
    /\ \E n \in 0..Len(watchQ) : watchQ' = Append(SubSeq(watchQ, 1, n), ErrorEvent)
    /\ UNCHANGED <<rev, objects, opens, ctxDone>>

\* The kernel stops the application and cancels the module's context.
Shutdown ==
    /\ ~ctxDone
    /\ ctxDone' = TRUE
    /\ UNCHANGED <<rev, objects, conn, watchQ, opens>>

K8sStep ==
    \/ \E k \in Keys : Create(k) \/ Update(k) \/ Delete(k)
    \/ EndConnection
    \/ BreakConnection
    \/ Shutdown

K8sTypeOK ==
    /\ rev \in Nat
    /\ objects \in [Keys -> Dep \cup {NoDep}]
    /\ conn \in {"none", "open", "ended"}
    /\ watchQ \in Seq(Event \cup {ErrorEvent})
    /\ opens \in Nat
    /\ ctxDone \in BOOLEAN
=============================================================================
