----------------------------- MODULE DeploymentsMap -----------------------------
(***************************************************************************)
(* deploymentsMap of frontend/src/hooks/useDeploymentStream.ts: the        *)
(* deployments the browser knows, a sequence of them in the order in which *)
(* the map got its keys, and what is done with it.                         *)
(***************************************************************************)
EXTENDS Naturals, SequencesExt

\* MUTANT: every event makes a new entry.
ReduceAppend(map, e) == Append(map, e.dep)

\* The map after an event: entries are keyed by uid and keep their place.
Reduce(map, e) ==
    LET slots == {i \in DOMAIN map : map[i].uid = e.dep.uid}
        slot  == CHOOSE i \in slots : TRUE
    IN  CASE slots = {} /\ e.type = "DELETED"  -> map
          [] slots = {} /\ e.type # "DELETED"  -> Append(map, e.dep)
          [] slots # {} /\ e.type = "DELETED"  -> RemoveAt(map, slot)
          [] slots # {} /\ e.type # "DELETED"  -> ReplaceAt(map, slot, e.dep)

\* useDeployment: the first deployment with a name, if there is one.
FindByName(map, k) ==
    LET slots == {i \in DOMAIN map : map[i].key = k}
    IN  map[CHOOSE i \in slots : \A j \in slots : i =< j]
=============================================================================
