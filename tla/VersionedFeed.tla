----------------------------- MODULE VersionedFeed -----------------------------
(***************************************************************************)
(* What the deployment stream promises, without goroutines, channels and   *)
(* connections: a source whose version only grows, a cache of the latest   *)
(* version per key, and observers that are shown versions of it.  The      *)
(* cache and every observer only move forward; the cache is never ahead of *)
(* the source, nor an observer ahead of the cache.  Versions may be        *)
(* skipped: the stream promises order, not that nothing is left out.       *)
(***************************************************************************)
EXTENDS Naturals

CONSTANTS Keys, Observers

VARIABLES
    latest,  \* the newest version of the source
    cached,  \* the version cached for each key, 0 for none
    seen     \* the version each observer was last shown of each key

Nothing == [k \in Keys |-> 0]

Init ==
    /\ latest = 0
    /\ cached = Nothing
    /\ seen = [o \in Observers |-> Nothing]

Publish ==
    /\ latest' > latest
    /\ UNCHANGED <<cached, seen>>

Cache(k) ==
    /\ cached' = [cached EXCEPT ![k] = cached'[k]]
    /\ cached[k] =< cached'[k]
    /\ cached'[k] =< latest
    /\ UNCHANGED <<latest, seen>>

Observe(o, k) ==
    /\ seen' = [seen EXCEPT ![o][k] = seen'[o][k]]
    /\ seen[o][k] =< seen'[o][k]
    /\ seen'[o][k] =< cached[k]
    /\ UNCHANGED <<latest, cached>>

\* An observer leaves; another one may take its place and starts from nothing.
Forget(o) ==
    /\ seen' = [seen EXCEPT ![o] = Nothing]
    /\ UNCHANGED <<latest, cached>>

Next ==
    \/ Publish
    \/ \E k \in Keys : Cache(k)
    \/ \E o \in Observers : Forget(o) \/ \E k \in Keys : Observe(o, k)

Spec == Init /\ [][Next]_<<latest, cached, seen>>
=============================================================================
