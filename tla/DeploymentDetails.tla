--------------------------- MODULE DeploymentDetails ---------------------------
(***************************************************************************)
(* The page of one deployment: the hooks of the layout route and of the    *)
(* tab inside it (DataHook), under the route that the user navigates and   *)
(* the deployments that are streamed.  The layout,                         *)
(* frontend/src/routes/deployments.$namespace.$name.tsx, renders its tab   *)
(* only while useDeployment finds the deployment.  The stream forgets all  *)
(* deployments when it reconnects, so tabs come and go with it.            *)
(*                                                                         *)
(* React renders what has changed in a task of its own, and runs the       *)
(* effects in another: events and answers may come between a change, its   *)
(* commit and the effects.                                                 *)
(***************************************************************************)
EXTENDS DataHook

ASSUME HooksAssumption == {"tab"} \subseteq Hooks /\ Hooks \subseteq {"layout", "tab"}

VARIABLES
    found,  \* the deployments that useDeployment finds, as the stream has it
    route,  \* the deployment in the URL, or NoKey on the list
    tab     \* the URL names a tab that has a hook

routeVars == <<route, tab>>
vars      == <<hookVars, found, routeVars>>

-----------------------------------------------------------------------------
\* The deployment that a hook's component is to be rendered for, or NoKey.
Wants(h) ==
    IF h = "layout" \/ (tab /\ route \in found) THEN route ELSE NoKey

Init ==
    /\ HookInit
    /\ found = {}
    /\ route = NoKey
    /\ tab = FALSE

\* An event is reduced into the map, or the map is cleared for a new stream.
StreamChanges(keys) ==
    /\ keys # found
    /\ found' = keys
    /\ UNCHANGED <<hookVars, routeVars>>

\* The user goes to the list, to a deployment, or to another tab of it.
Navigate(k, t) ==
    /\ <<k, t>> # <<route, tab>>
    /\ t => k # NoKey
    /\ route' = k
    /\ tab' = t
    /\ UNCHANGED <<hookVars, found>>

Render ==
    /\ Commit([h \in Hooks |-> Wants(h)])
    /\ UNCHANGED <<found, routeVars>>

\* What is due of hook h; the hooks share nothing, so their order is open.
Effect(h) ==
    /\ RunCleanup(h) \/ \E r \in Requests : RunEffect(h, r)
    /\ UNCHANGED <<found, routeVars>>

\* The tab has a button for it.
Reload ==
    /\ Refetch("tab")
    /\ UNCHANGED <<found, routeVars>>

Serve ==
    /\ \/ \E k \in Keys : ApplyEvent(k)
       \/ \E r \in Requests : GetCheckpoints(r)
    /\ UNCHANGED <<found, routeVars>>

Settle(r) ==
    /\ Succeeds(r) \/ Fails(r)
    /\ UNCHANGED <<found, routeVars>>

Next ==
    \/ \E keys \in SUBSET Keys : StreamChanges(keys)
    \/ \E k \in Keys \cup {NoKey}, t \in BOOLEAN : Navigate(k, t)
    \/ Render
    \/ \E h \in Hooks : Effect(h)
    \/ Reload
    \/ Serve
    \/ \E r \in Requests : Settle(r)

Spec == Init /\ [][Next]_vars

\* React renders what changed and runs the effects.  A request ends: the
\* server's client of the clusters gives up after 30 seconds, and the browser
\* notices a lost connection.
Fairness ==
    /\ WF_vars(Render)
    /\ \A h \in Hooks : WF_vars(Effect(h))
    /\ \A r \in Requests : WF_vars(Settle(r))

FairSpec == Spec /\ Fairness

-----------------------------------------------------------------------------
\* A deployment that stays on the page gets its answer, data or an error, in
\* the layout and in its tab: however often the stream drops the tab, and the
\* user comes and goes, before.
PageIsServed ==
    \A h \in Hooks : \A k \in Keys :
        Wants(h) = k ~> Wants(h) # k \/ (shownKey[h] = k /\ ~due[h] /\ ~isLoading[h])
=============================================================================
