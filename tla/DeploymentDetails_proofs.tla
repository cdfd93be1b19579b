------------------- MODULE DeploymentDetails_proofs -------------------
(***************************************************************************)
(* The safety properties of the data hooks, for any number of deployments, *)
(* hooks, requests and versions.  The argument: a hook has at most one     *)
(* request that it still wants, the one of its last effect, and is loading *)
(* exactly while it has one; a commit that changes what the effect depends *)
(* on leaves the effect due; an answer was looked up in the cache after    *)
(* the data that is shown, and the cache only moves forward.               *)
(***************************************************************************)
EXTENDS DeploymentDetails, TLAPS

Request == {Idle} \cup AtServer \cup AtFlink

\* What the hook shows and what it still wants are not ahead of the cache, and
\* what it wants is not behind what it shows.
AnswersInOrder ==
    /\ \A h \in Hooks :
        data[h] # NoData => data[h].version =< cached[data[h].key]
    /\ \A r \in Requests : request[r].at = "flink" =>
        LET v == request[r].answer.version
            h == request[r].hook
        IN  /\ v =< cached[request[r].key]
            /\ ~request[r].cancelled /\ data[h] # NoData /\ data[h].key = request[r].key
                    => data[h].version =< v

HInv == HookTypeOK /\ LoadingIsHonest /\ DataIsOfThePage /\ AnswersInOrder

-----------------------------------------------------------------------------
(* The requests *)

\* A cleanup marks the requests of one hook and changes nothing else of them.
LEMMA CleanupMarks ==
    ASSUME HookTypeOK, NEW h \in Hooks
    PROVE  /\ Cleanup(h) \in [Requests -> Request]
           /\ \A q \in Requests :
                /\ Cleanup(h)[q].at = request[q].at
                /\ request[q].at # "idle" =>
                    /\ Cleanup(h)[q].hook = request[q].hook
                    /\ Cleanup(h)[q].key = request[q].key
                    /\ Cleanup(h)[q].cancelled <=> request[q].cancelled \/ request[q].hook = h
                /\ request[q].at = "flink" => Cleanup(h)[q].answer = request[q].answer
<1>1. request \in [Requests -> Request]
  BY DEF HookTypeOK, Request
<1>2. ASSUME NEW q \in Requests
      PROVE  /\ Cleanup(h)[q] \in Request
             /\ Cleanup(h)[q].at = request[q].at
             /\ request[q].at # "idle" =>
                    /\ Cleanup(h)[q].hook = request[q].hook
                    /\ Cleanup(h)[q].key = request[q].key
                    /\ Cleanup(h)[q].cancelled <=> request[q].cancelled \/ request[q].hook = h
             /\ request[q].at = "flink" => Cleanup(h)[q].answer = request[q].answer
  <2>1. CASE request[q] = Idle
    BY <2>1 DEF Cleanup, Wanted, Pending, Idle, Request
  <2>2. CASE request[q] \in AtServer
    BY <2>2 DEF Cleanup, Wanted, Pending, AtServer, Request
  <2>3. CASE request[q] \in AtFlink
    BY <2>3 DEF Cleanup, Wanted, Pending, AtFlink, Request
  <2> QED
    BY <1>1, <2>1, <2>2, <2>3 DEF Request
<1>3. Cleanup(h) = [q \in Requests |-> Cleanup(h)[q]]
  BY DEF Cleanup
<1> QED
  BY <1>2, <1>3

\* After its effect has run, a hook wants the request it sent and no other.
LEMMA EffectSends ==
    ASSUME HookTypeOK, NEW h \in Hooks, NEW r \in Requests, RunEffect(h, r)
    PROVE  /\ request' \in [Requests -> Request]
           /\ \A q \in Requests : request'[q].at = "flink" =>
                /\ request[q].at = "flink"
                /\ request'[q].answer = request[q].answer
                /\ request'[q].key = request[q].key
                /\ request'[q].hook = request[q].hook
                /\ ~request'[q].cancelled => ~request[q].cancelled /\ request[q].hook # h
           /\ Wanted(h)' = {r}
           /\ request'[r].key = shownKey[h]
           /\ \A g \in Hooks \ {h} :
                /\ Wanted(g)' = Wanted(g)
                /\ \A q \in Wanted(g) : request'[q].key = request[q].key
<1> DEFINE k == shownKey[h]
<1>0. k \in Keys
  BY DEF RunEffect, HookTypeOK
<1>1. /\ request' = [Cleanup(h) EXCEPT ![r] = Sent(h, k)]
      /\ request[r].at = "idle"
  BY DEF RunEffect, Pending
<1>2. Sent(h, k) \in Request
  BY <1>0 DEF Sent, AtServer, Request
<1>3. /\ request'[r] = Sent(h, k)
      /\ \A q \in Requests \ {r} : request'[q] = Cleanup(h)[q]
  BY <1>1, CleanupMarks
<1>4. request' \in [Requests -> Request]
  BY <1>1, <1>2, CleanupMarks
<1>5. /\ request'[r].at = "server"
      /\ request'[r].hook = h
      /\ request'[r].key = k
      /\ ~request'[r].cancelled
  BY <1>3 DEF Sent
<1>6. \A q \in Requests : request'[q].at = "flink" =>
                /\ request[q].at = "flink"
                /\ request'[q].answer = request[q].answer
                /\ request'[q].key = request[q].key
                /\ request'[q].hook = request[q].hook
                /\ ~request'[q].cancelled => ~request[q].cancelled /\ request[q].hook # h
  BY <1>3, <1>5, CleanupMarks
<1>7. Wanted(h)' = {r}
  BY <1>3, <1>5, CleanupMarks DEF Wanted, Pending
<1>8. ASSUME NEW g \in Hooks \ {h}
      PROVE  /\ Wanted(g)' = Wanted(g)
             /\ \A q \in Wanted(g) : request'[q].key = request[q].key
  BY <1>1, <1>3, <1>5, CleanupMarks DEF Wanted, Pending
<1> QED
  BY <1>4, <1>5, <1>6, <1>7, <1>8

-----------------------------------------------------------------------------
(* The steps *)

\* A commit keeps the state of a component that stays, and leaves the effect
\* due wherever what it depends on has changed.
LEMMA CommitKeeps ==
    ASSUME HInv, NEW wants \in [Hooks -> Keys \cup {NoKey}], Commit(wants)
    PROVE  HInv'
<1> DEFINE Stays(h) == NoKey \notin {shownKey[h], wants[h]}
<1>1. HookTypeOK
  BY DEF HInv
<1>2. /\ UNCHANGED <<cached, request>>
      /\ shownKey' = wants
      /\ due' = [h \in Hooks |-> Changed(h, wants[h])]
  BY DEF Commit
<1>3. ASSUME NEW h \in Hooks
      PROVE  /\ ~due[h]
             /\ Stays(h) => /\ data'[h] = data[h]
                            /\ isLoading'[h] <=> isLoading[h]
                            /\ hookError'[h] <=> hookError[h]
             /\ ~Stays(h) => data'[h] = NoData /\ ~isLoading'[h]
             /\ ~due'[h] => shownKey'[h] = shownKey[h]
  BY <1>3 DEF Commit, Changed
<1>4. HookTypeOK'
  <2>1. /\ spinning' \in [Hooks -> BOOLEAN]
        /\ due' \in [Hooks -> BOOLEAN]
        /\ refetched' \in [Hooks -> BOOLEAN]
        /\ isLoading' \in [Hooks -> BOOLEAN]
        /\ hookError' \in [Hooks -> BOOLEAN]
    BY <1>1, Zenon DEF Commit, Changed, HookTypeOK
  <2>2. data' \in [Hooks -> Answer \cup {NoData}]
    BY <1>1 DEF Commit, HookTypeOK
  <2> QED
    BY <1>1, <1>2, <2>1, <2>2 DEF HookTypeOK
<1>5. \A h \in Hooks : Wanted(h)' = Wanted(h)
  BY <1>2 DEF Wanted, Pending
<1>6. \A h \in Hooks : \A r \in Wanted(h) :
        request[r].key = shownKey[h] /\ shownKey[h] # NoKey
  <2> TAKE h \in Hooks
  <2> TAKE r \in Wanted(h)
  <2>1. request[r].key = shownKey[h]
    BY <1>3 DEF HInv, LoadingIsHonest
  <2>2. request[r].key \in Keys
    BY <1>1 DEF Wanted, Pending, HookTypeOK, Idle, AtServer, AtFlink
  <2> QED
    BY <2>1, <2>2, NoKeyAssumption
<1>7. LoadingIsHonest'
  <2>1. ASSUME NEW h \in Hooks
        PROVE  /\ shownKey'[h] # NoKey => (isLoading'[h] <=> Wanted(h)' # {})
               /\ \A r, q \in Wanted(h)' : r = q
               /\ ~due'[h] => \A r \in Wanted(h)' : request'[r].key = shownKey'[h]
    <3>1. CASE Stays(h)
      BY <1>2, <1>3, <1>5, <1>6, <3>1 DEF HInv, LoadingIsHonest
    <3>2. CASE shownKey[h] = NoKey
      <4>1. Wanted(h) = {}
        BY <1>6, <3>2
      <4> QED
        BY <1>3, <1>5, <3>2, <4>1
    <3>3. CASE wants[h] = NoKey
      BY <1>2, <1>3, <1>5, <1>6, <3>3 DEF HInv, LoadingIsHonest
    <3> QED
      BY <3>1, <3>2, <3>3
  <2> QED
    BY <2>1 DEF LoadingIsHonest
<1>8. DataIsOfThePage'
  BY <1>2, <1>3 DEF HInv, DataIsOfThePage
<1>9. AnswersInOrder'
  <2>1. \A h \in Hooks : data'[h] # NoData => data'[h] = data[h]
    BY <1>3
  <2>2. \A r \in Requests : request[r].at = "flink" => request[r].hook \in Hooks
    BY <1>1 DEF HookTypeOK, Idle, AtServer, AtFlink
  <2> QED
    BY <1>2, <2>1, <2>2 DEF HInv, AnswersInOrder
<1> QED
  BY <1>4, <1>7, <1>8, <1>9 DEF HInv

\* An effect starts: from now on its request is the only one that is wanted.
LEMMA EffectKeeps ==
    ASSUME HInv, NEW h \in Hooks, NEW r \in Requests, RunEffect(h, r)
    PROVE  HInv'
<1>1. /\ shownKey[h] # NoKey
      /\ isLoading' = [isLoading EXCEPT ![h] = TRUE]
      /\ hookError' = [hookError EXCEPT ![h] = FALSE]
      /\ due' = [due EXCEPT ![h] = FALSE]
      /\ UNCHANGED <<cached, shownKey, spinning, refetched, data>>
  BY DEF RunEffect
<1>2. HookTypeOK /\ HookTypeOK'
  <2>1. /\ due' \in [Hooks -> BOOLEAN]
        /\ isLoading' \in [Hooks -> BOOLEAN]
        /\ hookError' \in [Hooks -> BOOLEAN]
    BY <1>1 DEF HInv, HookTypeOK
  <2>2. request' \in [Requests -> {Idle} \cup AtServer \cup AtFlink]
    BY EffectSends DEF HInv, Request
  <2>3. \A q \in Requests :
            request'[q].at = "flink" => request'[q].answer.key = request'[q].key
    BY EffectSends DEF HInv, HookTypeOK
  <2> QED
    BY <1>1, <2>1, <2>2, <2>3 DEF HInv, HookTypeOK
<1>3. \A g \in Hooks \ {h} :
        isLoading'[g] = isLoading[g] /\ hookError'[g] = hookError[g] /\ due'[g] = due[g]
  BY <1>1, <1>2 DEF HookTypeOK
<1>4. isLoading'[h]
  BY <1>1, <1>2 DEF HookTypeOK
<1>5. LoadingIsHonest'
  <2>1. /\ Wanted(h)' = {r}
        /\ request'[r].key = shownKey[h]
        /\ \A g \in Hooks \ {h} :
                /\ Wanted(g)' = Wanted(g)
                /\ \A q \in Wanted(g) : request'[q].key = request[q].key
    BY <1>2, EffectSends
  <2>2. ASSUME NEW g \in Hooks
        PROVE  /\ shownKey'[g] # NoKey => (isLoading'[g] <=> Wanted(g)' # {})
               /\ \A p, q \in Wanted(g)' : p = q
               /\ ~due'[g] => \A q \in Wanted(g)' : request'[q].key = shownKey'[g]
    <3>1. CASE g = h
      BY <1>1, <1>4, <2>1, <3>1
    <3>2. CASE g # h
      BY <1>1, <1>3, <2>1, <3>2 DEF HInv, LoadingIsHonest
    <3> QED
      BY <3>1, <3>2
  <2> QED
    BY <2>2 DEF LoadingIsHonest
<1>6. DataIsOfThePage'
  BY <1>1, <1>3, <1>4 DEF HInv, DataIsOfThePage
<1>7. AnswersInOrder'
  <2>1. ASSUME NEW q \in Requests, request'[q].at = "flink"
        PROVE  /\ request[q].at = "flink"
               /\ request'[q].answer = request[q].answer
               /\ request'[q].key = request[q].key
               /\ request'[q].hook = request[q].hook
               /\ ~request'[q].cancelled => ~request[q].cancelled
    BY <1>2, <2>1, EffectSends
  <2> QED
    BY <1>1, <2>1 DEF HInv, AnswersInOrder
<1> QED
  BY <1>2, <1>5, <1>6, <1>7 DEF HInv

\* The component is gone: nothing is wanted any more.
LEMMA CleanupKeeps ==
    ASSUME HInv, NEW h \in Hooks, RunCleanup(h)
    PROVE  HInv'
<1>1. HookTypeOK
  BY DEF HInv
<1>2. /\ shownKey[h] = NoKey
      /\ request' = Cleanup(h)
      /\ due' = [due EXCEPT ![h] = FALSE]
      /\ UNCHANGED <<cached, shownKey, spinning, refetched, data, isLoading, hookError>>
  BY DEF RunCleanup, stateVars
<1>3. \A g \in Hooks \ {h} : due'[g] = due[g]
  BY <1>1, <1>2 DEF HookTypeOK
<1>4. HookTypeOK'
  <2>1. due' \in [Hooks -> BOOLEAN]
    BY <1>1, <1>2 DEF HookTypeOK
  <2>2. request' \in [Requests -> {Idle} \cup AtServer \cup AtFlink]
    BY <1>1, <1>2, CleanupMarks DEF Request
  <2>3. \A q \in Requests :
            request'[q].at = "flink" => request'[q].answer.key = request'[q].key
    BY <1>1, <1>2, CleanupMarks DEF HookTypeOK
  <2> QED
    BY <1>1, <1>2, <2>1, <2>2, <2>3 DEF HookTypeOK
<1>5. /\ Wanted(h)' = {}
      /\ \A g \in Hooks \ {h} :
            /\ Wanted(g)' = Wanted(g)
            /\ \A q \in Wanted(g) : request'[q].key = request[q].key
  BY <1>1, <1>2, CleanupMarks DEF Wanted, Pending
<1>6. LoadingIsHonest'
  BY <1>2, <1>3, <1>5 DEF HInv, LoadingIsHonest
<1>7. DataIsOfThePage'
  BY <1>2, <1>3 DEF HInv, DataIsOfThePage
<1>8. AnswersInOrder'
  <2>1. ASSUME NEW q \in Requests, request'[q].at = "flink"
        PROVE  /\ request[q].at = "flink"
               /\ request'[q].answer = request[q].answer
               /\ request'[q].key = request[q].key
               /\ request'[q].hook = request[q].hook
               /\ ~request'[q].cancelled => ~request[q].cancelled
    BY <1>1, <1>2, <2>1, CleanupMarks
  <2> QED
    BY <1>2, <2>1 DEF HInv, AnswersInOrder
<1> QED
  BY <1>4, <1>6, <1>7, <1>8 DEF HInv

\* The cache moves on: what was answered stays behind it.
LEMMA ApplyEventKeeps ==
    ASSUME HInv, NEW k \in Keys, ApplyEvent(k)
    PROVE  HInv'
<1>1. /\ cached' = [cached EXCEPT ![k] = cached[k] + 1]
      /\ UNCHANGED <<request, shownKey, spinning, due, refetched, data, isLoading, hookError>>
  BY DEF ApplyEvent, frameVars, stateVars
<1>2. HookTypeOK'
  BY <1>1 DEF HInv, HookTypeOK
<1>3. \A l \in Keys : cached[l] \in Nat /\ cached[l] =< cached'[l]
  BY <1>1 DEF HInv, HookTypeOK
<1>4. LoadingIsHonest' /\ DataIsOfThePage'
  BY <1>1 DEF HInv, LoadingIsHonest, DataIsOfThePage, Wanted, Pending
<1>5. AnswersInOrder'
  <2>1. \A g \in Hooks : data[g] # NoData => data[g].key \in Keys /\ data[g].version \in Nat
    BY DEF HInv, HookTypeOK, Answer
  <2>2. \A q \in Requests : request[q].at = "flink" =>
            request[q].key \in Keys /\ request[q].answer.version \in Nat
    BY DEF HInv, HookTypeOK, Idle, AtServer, AtFlink, Answer
  <2>3. \A g \in Hooks : data'[g] # NoData => data'[g].version =< cached'[data'[g].key]
    BY <1>1, <1>3, <2>1 DEF HInv, AnswersInOrder
  <2>4. \A q \in Requests : request'[q].at = "flink" =>
            request'[q].answer.version =< cached'[request'[q].key]
    <3> TAKE q \in Requests
    <3> HAVE request'[q].at = "flink"
    <3>1. /\ request[q].key \in Keys /\ request[q].answer.version \in Nat
          /\ request[q].answer.version =< cached[request[q].key]
      BY <1>1, <2>2 DEF HInv, AnswersInOrder
    <3> QED
      BY <1>1, <1>3, <3>1
  <2> QED
    BY <1>1, <2>3, <2>4 DEF HInv, AnswersInOrder
<1> QED
  BY <1>2, <1>4, <1>5 DEF HInv

\* The handler takes the newest version there is.
LEMMA GetCheckpointsKeeps ==
    ASSUME HInv, NEW r \in Requests, GetCheckpoints(r)
    PROVE  HInv'
<1> DEFINE k == request[r].key
           v == cached[k]
           asked == [at |-> "flink", hook |-> request[r].hook, key |-> k,
                     cancelled |-> request[r].cancelled,
                     answer |-> [key |-> k, version |-> v]]
<1>1. HookTypeOK
  BY DEF HInv
<1>2. /\ request[r].at = "server"
      /\ v # 0
      /\ request' = [request EXCEPT ![r] = asked]
      /\ UNCHANGED <<cached, shownKey, spinning, due, refetched, data, isLoading, hookError>>
  BY DEF GetCheckpoints, GetFlinkEndpoint, frameVars, stateVars
<1>3. request[r] \in AtServer
  BY <1>1, <1>2 DEF HookTypeOK, Idle, AtServer, AtFlink
<1>4. /\ request[r].hook \in Hooks /\ k \in Keys /\ request[r].cancelled \in BOOLEAN
      /\ v \in Nat \ {0}
  BY <1>1, <1>2, <1>3 DEF AtServer, HookTypeOK
<1>5. asked \in AtFlink
  BY <1>4 DEF AtFlink, Answer
<1>6. /\ request'[r] = asked
      /\ \A q \in Requests \ {r} : request'[q] = request[q]
  BY <1>1, <1>2 DEF HookTypeOK
<1>7. HookTypeOK'
  <2>1. request' \in [Requests -> {Idle} \cup AtServer \cup AtFlink]
    BY <1>1, <1>2, <1>5 DEF HookTypeOK
  <2>2. \A q \in Requests :
            request'[q].at = "flink" => request'[q].answer.key = request'[q].key
    BY <1>1, <1>6 DEF HookTypeOK
  <2> QED
    BY <1>1, <1>2, <2>1, <2>2 DEF HookTypeOK
<1>8. \A g \in Hooks :
        /\ Wanted(g)' = Wanted(g)
        /\ \A q \in Requests : request'[q].key = request[q].key
  BY <1>2, <1>6 DEF Wanted, Pending
<1>9. LoadingIsHonest' /\ DataIsOfThePage'
  <2>1. LoadingIsHonest'
    BY <1>2, <1>8 DEF HInv, LoadingIsHonest, Wanted
  <2> QED
    BY <1>2, <2>1 DEF HInv, DataIsOfThePage
<1>10. AnswersInOrder'
  <2>1. data[request[r].hook] # NoData /\ data[request[r].hook].key = k
            => data[request[r].hook].version =< v
    BY <1>4 DEF HInv, AnswersInOrder
  <2>2. v =< v
    BY <1>4
  <2>3. ASSUME NEW q \in Requests, request'[q].at = "flink"
        PROVE  /\ request'[q].answer.version =< cached'[request'[q].key]
               /\ ~request'[q].cancelled /\ data'[request'[q].hook] # NoData
                    /\ data'[request'[q].hook].key = request'[q].key
                        => data'[request'[q].hook].version =< request'[q].answer.version
    <3>1. CASE q = r
      BY <1>2, <1>6, <2>1, <2>2, <3>1
    <3>2. CASE q # r
      BY <1>2, <1>6, <2>3, <3>2 DEF HInv, AnswersInOrder
    <3> QED
      BY <3>1, <3>2
  <2> QED
    BY <1>2, <2>3 DEF HInv, AnswersInOrder
<1> QED
  BY <1>7, <1>9, <1>10 DEF HInv

\* A request ends: its hook, if it still wants it, wants nothing any more.
LEMMA RequestEnds ==
    ASSUME HInv, NEW r \in Requests, Pending(r), request' = [request EXCEPT ![r] = Idle]
    PROVE  /\ request[r].hook \in Hooks
           /\ request' \in [Requests -> {Idle} \cup AtServer \cup AtFlink]
           /\ \A q \in Requests : request'[q].at # "idle" => q # r /\ request'[q] = request[q]
           /\ \A g \in Hooks : Wanted(g)' = Wanted(g) \ {r}
           /\ ~request[r].cancelled => Wanted(request[r].hook) = {r}
<1>1. HookTypeOK
  BY DEF HInv
<1>2. request[r].hook \in Hooks
  BY <1>1 DEF HookTypeOK, Pending, Idle, AtServer, AtFlink
<1>3. /\ request'[r] = Idle
      /\ \A q \in Requests \ {r} : request'[q] = request[q]
  BY <1>1 DEF HookTypeOK
<1>4. request' \in [Requests -> {Idle} \cup AtServer \cup AtFlink]
  BY <1>1 DEF HookTypeOK
<1>5. \A q \in Requests : request'[q].at # "idle" => q # r /\ request'[q] = request[q]
  BY <1>3 DEF Idle
<1>6. \A g \in Hooks : Wanted(g)' = Wanted(g) \ {r}
  BY <1>3, <1>5 DEF Wanted, Pending
<1>7. ~request[r].cancelled => Wanted(request[r].hook) = {r}
  <2> HAVE ~request[r].cancelled
  <2>1. r \in Wanted(request[r].hook)
    BY DEF Wanted
  <2>2. \A q \in Wanted(request[r].hook) : q = r
    BY <1>2, <2>1 DEF HInv, LoadingIsHonest
  <2> QED
    BY <2>1, <2>2
<1> QED
  BY <1>2, <1>4, <1>5, <1>6, <1>7

\* An answer that is not taken, because it is not wanted or the component is
\* gone, changes nothing but the request.
LEMMA UnwantedEnds ==
    ASSUME HInv, NEW r \in Requests, Pending(r), request' = [request EXCEPT ![r] = Idle],
           ~Takes(r),
           UNCHANGED <<cached, frameVars, stateVars>>
    PROVE  HInv'
<1>0. UNCHANGED <<cached, shownKey, spinning, due, refetched, data, isLoading, hookError>>
  BY DEF frameVars, stateVars
<1>1. /\ request' \in [Requests -> {Idle} \cup AtServer \cup AtFlink]
      /\ \A q \in Requests : request'[q].at # "idle" => q # r /\ request'[q] = request[q]
      /\ \A g \in Hooks : Wanted(g)' = Wanted(g) \ {r}
  BY RequestEnds
<1>2. \A g \in Hooks : shownKey[g] # NoKey => r \notin Wanted(g)
  BY DEF Wanted, Takes
<1>3. \A g \in Hooks :
        /\ Wanted(g)' \subseteq Wanted(g)
        /\ shownKey[g] # NoKey => Wanted(g)' = Wanted(g)
        /\ \A q \in Wanted(g)' : request'[q] = request[q]
  BY <1>1, <1>2 DEF Wanted, Pending
<1>4. HookTypeOK'
  BY <1>0, <1>1 DEF HInv, HookTypeOK
<1>5. LoadingIsHonest'
  BY <1>0, <1>3 DEF HInv, LoadingIsHonest
<1>6. DataIsOfThePage'
  BY <1>0 DEF HInv, DataIsOfThePage
<1>7. AnswersInOrder'
  BY <1>0, <1>1 DEF HInv, AnswersInOrder
<1> QED
  BY <1>4, <1>5, <1>6, <1>7 DEF HInv

\* The wanted answer arrives, as data or as an error, and loading is over.
LEMMA WantedEnds ==
    ASSUME HInv, NEW r \in Requests, NEW h \in Hooks, h = request[r].hook,
           Pending(r), request' = [request EXCEPT ![r] = Idle],
           ~request[r].cancelled,
           isLoading' = [isLoading EXCEPT ![h] = FALSE],
           UNCHANGED <<cached, frameVars>>,
           \/ /\ request[r].at = "flink"
              /\ data' = [data EXCEPT ![h] = request[r].answer]
              /\ hookError' = hookError
           \/ /\ data' = data
              /\ hookError' = [hookError EXCEPT ![h] = TRUE]
    PROVE  HInv'
<1>1. HookTypeOK
  BY DEF HInv
<1>0. UNCHANGED <<cached, shownKey, spinning, due, refetched>>
  BY DEF frameVars
<1>2. /\ request' \in [Requests -> {Idle} \cup AtServer \cup AtFlink]
      /\ \A q \in Requests : request'[q].at # "idle" => q # r /\ request'[q] = request[q]
      /\ \A g \in Hooks : Wanted(g)' = Wanted(g) \ {r}
      /\ Wanted(h) = {r}
  BY RequestEnds
<1>3. Wanted(h)' = {}
  BY <1>2
<1>4. \A g \in Hooks \ {h} : r \notin Wanted(g) /\ Wanted(g)' = Wanted(g)
  BY <1>2 DEF Wanted
<1>5. \A g \in Hooks \ {h} : data'[g] = data[g] /\ hookError'[g] = hookError[g]
  BY <1>1 DEF HookTypeOK
<1>6. /\ ~isLoading'[h]
      /\ \A g \in Hooks \ {h} : isLoading'[g] = isLoading[g]
  BY <1>1 DEF HookTypeOK
<1>7. request[r].at = "flink" =>
        request[r].answer \in Answer /\ request[r].answer.key = request[r].key
  BY <1>1 DEF HookTypeOK, Idle, AtServer, AtFlink
<1>8. ~due[h] => request[r].key = shownKey[h]
  BY <1>2 DEF HInv, LoadingIsHonest
<1>9. \/ /\ request[r].at = "flink"
         /\ data'[h] = request[r].answer
      \/ /\ data'[h] = data[h]
         /\ hookError'[h]
  BY <1>1 DEF HookTypeOK
<1>10. HookTypeOK'
  <2>1. data' \in [Hooks -> Answer \cup {NoData}]
    BY <1>1, <1>7 DEF HookTypeOK
  <2>2. /\ isLoading' \in [Hooks -> BOOLEAN]
        /\ hookError' \in [Hooks -> BOOLEAN]
    BY <1>1 DEF HookTypeOK
  <2>3. \A q \in Requests :
            request'[q].at = "flink" => request'[q].answer.key = request'[q].key
    BY <1>1, <1>2 DEF HookTypeOK
  <2> QED
    BY <1>0, <1>1, <1>2, <2>1, <2>2, <2>3 DEF HookTypeOK
<1>11. LoadingIsHonest'
  <2>1. ASSUME NEW g \in Hooks
        PROVE  /\ shownKey'[g] # NoKey => (isLoading'[g] <=> Wanted(g)' # {})
               /\ \A p, q \in Wanted(g)' : p = q
               /\ ~due'[g] => \A q \in Wanted(g)' : request'[q].key = shownKey'[g]
    <3>1. CASE g = h
      BY <1>3, <1>6, <3>1
    <3>2. CASE g # h
      <4>1. \A q \in Wanted(g) : request'[q] = request[q]
        BY <1>1, <1>4, <3>2 DEF HookTypeOK, Wanted
      <4> QED
        BY <1>0, <1>4, <1>6, <3>2, <4>1 DEF HInv, LoadingIsHonest
    <3> QED
      BY <3>1, <3>2
  <2> QED
    BY <2>1 DEF LoadingIsHonest
<1>12. DataIsOfThePage'
  <2>1. \/ due'[h]
        \/ hookError'[h]
        \/ data'[h] # NoData /\ data'[h].key = shownKey'[h]
    BY <1>0, <1>7, <1>8, <1>9, NoDataAssumption
  <2> QED
    BY <1>0, <1>5, <1>6, <2>1 DEF HInv, DataIsOfThePage
<1>13. AnswersInOrder'
  <2>1. request[r].at = "flink" => request[r].answer.version =< cached[request[r].key]
    BY DEF HInv, AnswersInOrder
  <2>2. data'[h] # NoData => data'[h].version =< cached'[data'[h].key]
    <3>1. CASE request[r].at = "flink" /\ data'[h] = request[r].answer
      BY <1>0, <1>7, <2>1, <3>1
    <3>2. CASE data'[h] = data[h]
      BY <1>0, <3>2 DEF HInv, AnswersInOrder
    <3> QED
      BY <1>9, <3>1, <3>2
  <2>3. ASSUME NEW q \in Requests, request'[q].at = "flink"
        PROVE  /\ request'[q].answer.version =< cached'[request'[q].key]
               /\ ~request'[q].cancelled /\ data'[request'[q].hook] # NoData
                    /\ data'[request'[q].hook].key = request'[q].key
                        => data'[request'[q].hook].version =< request'[q].answer.version
    <3>1. request'[q] = request[q] /\ q # r
      BY <1>2, <2>3
    <3>2. request[q].hook \in Hooks
      BY <1>1, <2>3, <3>1 DEF HookTypeOK, Idle, AtServer, AtFlink
    <3>3. ~request[q].cancelled => request[q].hook # h
      BY <1>2, <2>3, <3>1 DEF Wanted, Pending
    <3>4. ~request[q].cancelled => data'[request[q].hook] = data[request[q].hook]
      BY <1>5, <3>2, <3>3
    <3> QED
      BY <1>0, <2>3, <3>1, <3>4 DEF HInv, AnswersInOrder
  <2>4. \A g \in Hooks : data'[g] # NoData => data'[g].version =< cached'[data'[g].key]
    BY <1>0, <1>5, <2>2 DEF HInv, AnswersInOrder
  <2> QED
    BY <2>3, <2>4, Zenon DEF AnswersInOrder
<1> QED
  BY <1>10, <1>11, <1>12, <1>13 DEF HInv

LEMMA SettleKeeps ==
    ASSUME HInv, NEW r \in Requests, Succeeds(r) \/ Fails(r)
    PROVE  HInv'
<1>1. /\ Pending(r)
      /\ request' = [request EXCEPT ![r] = Idle]
      /\ UNCHANGED <<cached, frameVars>>
  BY DEF Succeeds, Fails, Pending
<1>2. request[r].hook \in Hooks
  BY <1>1, RequestEnds
<1>3. CASE ~Takes(r)
  <2>1. UNCHANGED <<cached, frameVars, stateVars>>
    BY <1>3 DEF Succeeds, Fails, stateVars
  <2> QED
    BY <1>1, <1>3, <2>1, UnwantedEnds
<1>4. CASE Takes(r)
  <2>1. /\ isLoading' = [isLoading EXCEPT ![request[r].hook] = FALSE]
        /\ \/ /\ request[r].at = "flink"
              /\ data' = [data EXCEPT ![request[r].hook] = request[r].answer]
              /\ hookError' = hookError
           \/ /\ data' = data
              /\ hookError' = [hookError EXCEPT ![request[r].hook] = TRUE]
    BY <1>4 DEF Succeeds, Fails
  <2>2. ~request[r].cancelled
    BY <1>4 DEF Takes
  <2> QED
    BY <1>1, <1>2, <2>1, <2>2, WantedEnds
<1> QED
  BY <1>3, <1>4

-----------------------------------------------------------------------------
(* The page *)

DetailsInv == HInv /\ route \in Keys \cup {NoKey}

LEMMA DetailsInit == Init => DetailsInv
<1> SUFFICES ASSUME Init PROVE DetailsInv
  OBVIOUS
<1>1. /\ request = [r \in Requests |-> Idle]
      /\ shownKey = [h \in Hooks |-> NoKey]
      /\ spinning = [h \in Hooks |-> FALSE]
      /\ due = [h \in Hooks |-> FALSE]
      /\ refetched = [h \in Hooks |-> FALSE]
      /\ data = [h \in Hooks |-> NoData]
      /\ isLoading = [h \in Hooks |-> FALSE]
      /\ hookError = [h \in Hooks |-> FALSE]
      /\ cached = [k \in Keys |-> 0]
      /\ route = NoKey
  BY DEF Init, HookInit
<1>2. \A r \in Requests : request[r].at = "idle"
  BY <1>1 DEF Idle
<1>3. HookTypeOK
  BY <1>1, <1>2 DEF HookTypeOK
<1>4. LoadingIsHonest /\ DataIsOfThePage
  BY <1>1, <1>2 DEF LoadingIsHonest, DataIsOfThePage, Wanted, Pending
<1>5. AnswersInOrder
  BY <1>1, <1>2 DEF AnswersInOrder
<1> QED
  BY <1>1, <1>3, <1>4, <1>5 DEF DetailsInv, HInv

\* Nothing of the hooks changes.
LEMMA HInvUnchanged ==
    ASSUME HInv, UNCHANGED hookVars
    PROVE  HInv'
<1>1. UNCHANGED <<cached, request, shownKey, spinning, due, refetched,
                  data, isLoading, hookError>>
  BY DEF hookVars, frameVars, stateVars
<1>2. HookTypeOK'
  BY <1>1 DEF HInv, HookTypeOK
<1>3. LoadingIsHonest' /\ DataIsOfThePage'
  BY <1>1 DEF HInv, LoadingIsHonest, DataIsOfThePage, Wanted, Pending
<1>4. AnswersInOrder'
  BY <1>1 DEF HInv, AnswersInOrder
<1> QED
  BY <1>2, <1>3, <1>4 DEF HInv

LEMMA DetailsStep == DetailsInv /\ [Next]_vars => DetailsInv'
<1> SUFFICES ASSUME DetailsInv, [Next]_vars PROVE DetailsInv'
  OBVIOUS
<1>1. HInv /\ route \in Keys \cup {NoKey}
  BY DEF DetailsInv
<1>2. ASSUME NEW keys \in SUBSET Keys, StreamChanges(keys)
      PROVE  DetailsInv'
  BY <1>1, <1>2, HInvUnchanged DEF StreamChanges, routeVars, DetailsInv
<1>3. ASSUME NEW k \in Keys \cup {NoKey}, NEW t \in BOOLEAN, Navigate(k, t)
      PROVE  DetailsInv'
  BY <1>1, <1>3, HInvUnchanged DEF Navigate, DetailsInv
<1>4. ASSUME Render
      PROVE  DetailsInv'
  <2>1. [h \in Hooks |-> Wants(h)] \in [Hooks -> Keys \cup {NoKey}]
    BY <1>1 DEF Wants
  <2> QED
    BY <1>1, <1>4, <2>1, CommitKeeps DEF Render, routeVars, DetailsInv
<1>5. ASSUME NEW h \in Hooks, Effect(h)
      PROVE  DetailsInv'
  BY <1>1, <1>5, CleanupKeeps, EffectKeeps DEF Effect, routeVars, DetailsInv
<1>6. ASSUME Reload
      PROVE  DetailsInv'
  <2>1. /\ refetched' = [refetched EXCEPT !["tab"] = TRUE]
        /\ UNCHANGED <<cached, request, shownKey, spinning, due, data, isLoading, hookError>>
        /\ UNCHANGED route
    BY <1>6 DEF Reload, Refetch, stateVars, routeVars
  <2>2. HookTypeOK'
    BY <1>1, <2>1 DEF HInv, HookTypeOK
  <2>3. LoadingIsHonest' /\ DataIsOfThePage'
    BY <1>1, <2>1 DEF HInv, LoadingIsHonest, DataIsOfThePage, Wanted, Pending
  <2>4. AnswersInOrder'
    BY <1>1, <2>1 DEF HInv, AnswersInOrder
  <2> QED
    BY <1>1, <2>1, <2>2, <2>3, <2>4 DEF DetailsInv, HInv
<1>7. ASSUME Serve
      PROVE  DetailsInv'
  BY <1>1, <1>7, ApplyEventKeeps, GetCheckpointsKeeps DEF Serve, routeVars, DetailsInv
<1>8. ASSUME NEW r \in Requests, Settle(r)
      PROVE  DetailsInv'
  BY <1>1, <1>8, SettleKeeps DEF Settle, routeVars, DetailsInv
<1>9. CASE UNCHANGED vars
  BY <1>1, <1>9, HInvUnchanged DEF vars, routeVars, DetailsInv
<1> QED
  BY <1>2, <1>3, <1>4, <1>5, <1>6, <1>7, <1>8, <1>9 DEF Next

LEMMA DetailsInvariant == Spec => []DetailsInv
<1> QED
  BY DetailsInit, DetailsStep, PTL DEF Spec

\* The state of the hooks has its type, and no answer says that a deployment
\* exists which is not cached (version 0): useCheckpoints, GetCheckpoints.
THEOREM HookTypeCorrect == Spec => []HookTypeOK
<1>1. DetailsInv => HookTypeOK
  BY DEF DetailsInv, HInv
<1> QED
  BY <1>1, DetailsInvariant, PTL

\* isLoading of useCheckpoints and its siblings is true exactly while the one
\* request of the last effect is under way; unless a commit has made the next
\* effect due, that request is for the deployment that is shown.
THEOREM LoadingStaysHonest == Spec => []LoadingIsHonest
<1>1. DetailsInv => LoadingIsHonest
  BY DEF DetailsInv, HInv
<1> QED
  BY <1>1, DetailsInvariant, PTL

\* A hook whose effect has run, and that is neither loading nor in error, has
\* data of its deployment, whatever came in between the commit of the page for
\* this deployment and the effect, and since then.
THEOREM DataStaysOfThePage == Spec => []DataIsOfThePage
<1>1. DetailsInv => DataIsOfThePage
  BY DEF DetailsInv, HInv
<1> QED
  BY <1>1, DetailsInvariant, PTL

\* A step either leaves the data, drops it, or takes the wanted answer.
LEMMA DataStep ==
    ASSUME DetailsInv, [Next]_vars, NEW h \in Hooks, data'[h] # NoData
    PROVE  \/ data'[h] = data[h]
           \/ \E r \in Requests :
                /\ request[r].at = "flink"
                /\ ~request[r].cancelled
                /\ request[r].hook = h
                /\ data'[h] = request[r].answer
<1>1. data \in [Hooks -> Answer \cup {NoData}]
  BY DEF DetailsInv, HInv, HookTypeOK
<1>2. ASSUME NEW keys \in SUBSET Keys, StreamChanges(keys)
      PROVE  data' = data
  BY <1>2 DEF StreamChanges, hookVars, stateVars
<1>3. ASSUME NEW k \in Keys \cup {NoKey}, NEW t \in BOOLEAN, Navigate(k, t)
      PROVE  data' = data
  BY <1>3 DEF Navigate, hookVars, stateVars
<1>4. Render => data'[h] = data[h] \/ data'[h] = NoData
  BY DEF Render, Commit
<1>5. /\ Reload => data' = data
      /\ \A g \in Hooks : Effect(g) => data' = data
  BY DEF Reload, Refetch, Effect, RunCleanup, RunEffect, stateVars
<1>6. Serve => data' = data
  BY DEF Serve, ApplyEvent, GetCheckpoints, stateVars
<1>7. ASSUME NEW r \in Requests, Settle(r)
      PROVE  \/ data' = data
             \/ /\ request[r].at = "flink"
                /\ ~request[r].cancelled
                /\ data' = [data EXCEPT ![request[r].hook] = request[r].answer]
  BY <1>7 DEF Settle, Succeeds, Fails, Takes
<1>8. UNCHANGED vars => data' = data
  BY DEF vars, hookVars, stateVars
<1>9. CASE \E r \in Requests : Settle(r)
  BY <1>1, <1>7, <1>9
<1> QED
  BY <1>2, <1>3, <1>4, <1>5, <1>6, <1>8, <1>9 DEF Next

\* Answers may overtake each other on their way: the flag of useCheckpoints'
\* effect and the cache of the module, which only moves forward, keep a page
\* from going back to an older version of the deployment.
THEOREM DataNeverGoesBack == Spec => DataGoesForward
<1> DEFINE Forward ==
        \A h \in Hooks :
            data[h] # NoData /\ data'[h] # NoData /\ data'[h].key = data[h].key
                => data[h].version =< data'[h].version
<1>1. DetailsInv /\ [Next]_vars => [Forward]_hookVars
  <2> SUFFICES ASSUME DetailsInv, [Next]_vars, NEW h \in Hooks,
                      data[h] # NoData, data'[h] # NoData, data'[h].key = data[h].key
               PROVE  data[h].version =< data'[h].version
    OBVIOUS
  <2>1. data[h].version \in Nat
    BY DEF DetailsInv, HInv, HookTypeOK, Answer
  <2>2. CASE data'[h] = data[h]
    BY <2>1, <2>2
  <2>3. ASSUME NEW r \in Requests,
               request[r].at = "flink", ~request[r].cancelled, request[r].hook = h,
               data'[h] = request[r].answer
        PROVE  data[h].version =< data'[h].version
    <3>1. request[r].answer.key = request[r].key
      BY <2>3 DEF DetailsInv, HInv, HookTypeOK
    <3> QED
      BY <2>3, <3>1 DEF DetailsInv, HInv, AnswersInOrder
  <2> QED
    BY <2>2, <2>3, DataStep
<1> QED
  BY <1>1, DetailsInvariant, PTL DEF Spec, DataGoesForward
=============================================================================
