-------------------------------- MODULE DataHook --------------------------------
(***************************************************************************)
(* The hooks that fetch the data of one deployment, such as useCheckpoints *)
(* of frontend/src/hooks/useCheckpoints.ts, and what answers them: the     *)
(* browser's API client and, at the server, a handler that looks up the    *)
(* deployment in the watcher's cache and asks its Flink cluster.           *)
(*                                                                         *)
(* A hook is an instance in a mounted component.  React first commits the  *)
(* component, with the hook's state as it is: when it appears, for another *)
(* deployment, or after a refetch.  The effect runs later, in a task of    *)
(* its own: it cleans up after the one before, which sets the flag called  *)
(* cancelled, and sends a request.  Between the two, answers come in.  An  *)
(* answer and the code after the await are one action.                     *)
(***************************************************************************)
EXTENDS Naturals

CONSTANTS
    Keys,        \* namespace and name of a deployment
    NoKey,       \* the component is not mounted
    Hooks,       \* the instances of the hooks
    Requests,    \* requests that can be under way at the same time
    NoData,      \* data is null
    MaxVersion   \* bound: versions of a deployment in the server's cache

ASSUME NoKeyAssumption   == NoKey \notin Keys
ASSUME VersionAssumption == MaxVersion \in Nat

Answer == [key : Keys, version : Nat \ {0}]

ASSUME NoDataAssumption == NoData \notin Answer

VARIABLES
    cached,     \* the version of each deployment in the server's cache, 0 for none
    request,    \* each request: where it is, and the effect that sent it
    shownKey,   \* the deployment each hook's component is committed for, or NoKey
    spinning,   \* isLoading as it was committed: the button is dead
    due,        \* the effect of the last commit, or its cleanup, is still to run
    refetched,  \* refetchTrigger changed since the last commit
    data,       \* useState: an answer, or NoData
    isLoading,  \* useState
    hookError   \* useState: an error message is set

frameVars == <<shownKey, spinning, due, refetched>>
stateVars == <<data, isLoading, hookError>>
hookVars  == <<cached, request, frameVars, stateVars>>

Idle == [at |-> "idle"]

Sent(h, k) ==
    [at |-> "server", hook |-> h, key |-> k, cancelled |-> FALSE]

Pending(r) == request[r].at # "idle"

\* The requests of hook h whose effect is not cleaned up.
Wanted(h) == {r \in Requests : Pending(r) /\ request[r].hook = h /\ ~request[r].cancelled}

-----------------------------------------------------------------------------
HookInit ==
    /\ cached = [k \in Keys |-> 0]
    /\ request = [r \in Requests |-> Idle]
    /\ shownKey = [h \in Hooks |-> NoKey]
    /\ spinning = [h \in Hooks |-> FALSE]
    /\ due = [h \in Hooks |-> FALSE]
    /\ refetched = [h \in Hooks |-> FALSE]
    /\ data = [h \in Hooks |-> NoData]
    /\ isLoading = [h \in Hooks |-> FALSE]
    /\ hookError = [h \in Hooks |-> FALSE]

-----------------------------------------------------------------------------
(* The hook *)

\* MUTANT: the deployment is missing in the effect's dependencies.
ChangedByRefetch(h, k) == (k = NoKey) # (shownKey[h] = NoKey) \/ refetched[h]

\* The dependencies of the effect: the deployment and refetchTrigger.
Changed(h, k) == k # shownKey[h] \/ refetched[h]

\* React commits what changed, hook h for deployment wants[h].  It runs what
\* is due of the last commit before it renders again.  A component that stays
\* keeps the state of its hook, one that appears has the initial values.
Commit(wants) ==
    LET Stays(h) == NoKey \notin {shownKey[h], wants[h]} IN
    /\ \A h \in Hooks : ~due[h]
    /\ \E h \in Hooks : Changed(h, wants[h]) \/ spinning[h] # isLoading[h]
    /\ shownKey' = wants
    /\ spinning' = [h \in Hooks |-> Stays(h) /\ isLoading[h]]
    /\ due' = [h \in Hooks |-> Changed(h, wants[h])]
    /\ refetched' = [h \in Hooks |-> FALSE]
    /\ data' = [h \in Hooks |-> IF Stays(h) THEN data[h] ELSE NoData]
    /\ isLoading' = [h \in Hooks |-> Stays(h) /\ isLoading[h]]
    /\ hookError' = [h \in Hooks |-> Stays(h) /\ hookError[h]]
    /\ UNCHANGED <<cached, request>>

\* The effect's cleanup: nothing aborts the request, its answer is not wanted.
Cleanup(h) ==
    [r \in Requests |-> IF r \in Wanted(h) THEN [request[r] EXCEPT !.cancelled = TRUE]
                        ELSE request[r]]

\* The component is gone: only the cleanup runs.
RunCleanup(h) ==
    /\ due[h]
    /\ shownKey[h] = NoKey
    /\ request' = Cleanup(h)
    /\ due' = [due EXCEPT ![h] = FALSE]
    /\ UNCHANGED <<cached, shownKey, spinning, refetched, stateVars>>

\* The effect runs, after the cleanup of the one before, in a free slot r.
RunEffect(h, r) ==
    /\ due[h]
    /\ shownKey[h] # NoKey
    /\ ~Pending(r)
    /\ request' = [Cleanup(h) EXCEPT ![r] = Sent(h, shownKey[h])]
    /\ isLoading' = [isLoading EXCEPT ![h] = TRUE]
    /\ hookError' = [hookError EXCEPT ![h] = FALSE]
    /\ due' = [due EXCEPT ![h] = FALSE]
    /\ UNCHANGED <<cached, shownKey, spinning, refetched, data>>

\* The user asks for the data again: the trigger changes, and with the next
\* commit the effect is due.
Refetch(h) ==
    /\ shownKey[h] # NoKey
    /\ ~spinning[h]
    /\ refetched' = [refetched EXCEPT ![h] = TRUE]
    /\ UNCHANGED <<cached, request, shownKey, spinning, due, stateVars>>

-----------------------------------------------------------------------------
(* The server *)

\* The watcher stores the next version of a deployment in the cache.
ApplyEvent(k) ==
    /\ cached[k] < MaxVersion
    /\ cached' = [cached EXCEPT ![k] = @ + 1]
    /\ UNCHANGED <<request, frameVars, stateVars>>

\* The cached deployment that says where the cluster is and what its job is.
GetFlinkEndpoint(k) == cached[k]

\* MUTANT: whether the deployment exists is not looked at.
GetCheckpointsUnchecked(r) ==
    LET k == request[r].key IN
    /\ Pending(r)
    /\ request[r].at = "server"
    /\ request' = [request EXCEPT ![r] =
            [at |-> "flink", hook |-> @.hook, key |-> k, cancelled |-> @.cancelled,
             answer |-> [key |-> k, version |-> GetFlinkEndpoint(k)]]]
    /\ UNCHANGED <<cached, frameVars, stateVars>>

\* The handler looks the deployment up and asks its cluster.
GetCheckpoints(r) ==
    LET k == request[r].key
        v == GetFlinkEndpoint(k)
    IN  /\ Pending(r)
        /\ request[r].at = "server"
        /\ v # 0
        /\ request' = [request EXCEPT ![r] =
                [at |-> "flink", hook |-> @.hook, key |-> k, cancelled |-> @.cancelled,
                 answer |-> [key |-> k, version |-> v]]]
        /\ UNCHANGED <<cached, frameVars, stateVars>>

-----------------------------------------------------------------------------
(* The answers *)

\* The effect that sent request r still takes its answer, and there is a
\* component whose state it can set.
Takes(r) == ~request[r].cancelled /\ shownKey[request[r].hook] # NoKey

\* MUTANT: the flag is not looked at, the answer is taken anyway.
SucceedsAlways(r) ==
    LET h == request[r].hook IN
    /\ request[r].at = "flink"
    /\ request' = [request EXCEPT ![r] = Idle]
    /\ data' = [data EXCEPT ![h] = request[r].answer]
    /\ isLoading' = [isLoading EXCEPT ![h] = FALSE]
    /\ UNCHANGED <<cached, frameVars, hookError>>

\* MUTANT: isLoading is only reset when the request fails.
SucceedsStillLoading(r) ==
    LET h == request[r].hook IN
    /\ request[r].at = "flink"
    /\ request' = [request EXCEPT ![r] = Idle]
    /\ data' = IF Takes(r) THEN [data EXCEPT ![h] = request[r].answer] ELSE data
    /\ UNCHANGED <<cached, frameVars, isLoading, hookError>>

\* The answer of the cluster arrives, passed on by the handler.
Succeeds(r) ==
    LET h == request[r].hook IN
    /\ request[r].at = "flink"
    /\ request' = [request EXCEPT ![r] = Idle]
    /\ IF Takes(r)
       THEN /\ data' = [data EXCEPT ![h] = request[r].answer]
            /\ isLoading' = [isLoading EXCEPT ![h] = FALSE]
       ELSE UNCHANGED <<data, isLoading>>
    /\ UNCHANGED <<cached, frameVars, hookError>>

\* The request fails: the deployment is not cached or has no ingress, the
\* cluster does not answer in time or not with data, the connection is lost.
Fails(r) ==
    LET h == request[r].hook IN
    /\ Pending(r)
    /\ request' = [request EXCEPT ![r] = Idle]
    /\ IF Takes(r)
       THEN /\ hookError' = [hookError EXCEPT ![h] = TRUE]
            /\ isLoading' = [isLoading EXCEPT ![h] = FALSE]
       ELSE UNCHANGED <<hookError, isLoading>>
    /\ UNCHANGED <<cached, frameVars, data>>

-----------------------------------------------------------------------------
(* Properties *)

AtServer == [at : {"server"}, hook : Hooks, key : Keys, cancelled : BOOLEAN]
AtFlink  == [at : {"flink"}, hook : Hooks, key : Keys, cancelled : BOOLEAN, answer : Answer]

HookTypeOK ==
    /\ cached \in [Keys -> Nat]
    /\ request \in [Requests -> {Idle} \cup AtServer \cup AtFlink]
    /\ \A r \in Requests :
        request[r].at = "flink" => request[r].answer.key = request[r].key
    /\ shownKey \in [Hooks -> Keys \cup {NoKey}]
    /\ spinning \in [Hooks -> BOOLEAN]
    /\ due \in [Hooks -> BOOLEAN]
    /\ refetched \in [Hooks -> BOOLEAN]
    /\ data \in [Hooks -> Answer \cup {NoData}]
    /\ isLoading \in [Hooks -> BOOLEAN]
    /\ hookError \in [Hooks -> BOOLEAN]

\* A hook is loading exactly as long as an answer is under way that it will
\* take, one answer and no more, and from the moment its effect has run that
\* answer is about the deployment it shows: however requests of earlier
\* deployments and earlier tabs come in.  Between the commit for another
\* deployment and the effect (useCheckpoints.ts:17-26) the one that is under
\* way is that of the deployment before.
LoadingIsHonest ==
    \A h \in Hooks :
        /\ shownKey[h] # NoKey => (isLoading[h] <=> Wanted(h) # {})
        /\ \A r, q \in Wanted(h) : r = q
        /\ ~due[h] => \A r \in Wanted(h) : request[r].key = shownKey[h]

\* Once its effect has run, what a hook has when it is neither loading nor in
\* error is data of its own deployment, though it kept the data of the one
\* before, and may have taken its answer, since the page was committed.  Until
\* the effect runs there is no such promise: the page shows no data, or that
\* of the deployment before, as if it were loaded.
DataIsOfThePage ==
    \A h \in Hooks :
        shownKey[h] # NoKey /\ ~due[h] /\ ~isLoading[h] /\ ~hookError[h]
            => data[h] # NoData /\ data[h].key = shownKey[h]

\* A hook never replaces data by data of an older version of the deployment.
DataGoesForward ==
    [][\A h \in Hooks :
        data[h] # NoData /\ data'[h] # NoData /\ data'[h].key = data[h].key
            => data[h].version =< data'[h].version]_hookVars
=============================================================================
