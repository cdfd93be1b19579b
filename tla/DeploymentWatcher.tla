--------------------------- MODULE DeploymentWatcher ---------------------------
(***************************************************************************)
(* The watcher goroutine, DeploymentWatcher.Watch of                       *)
(* backend/internal/deployment_watcher.go: it opens a watch connection,    *)
(* hands each of its events to the module over an unbuffered channel and   *)
(* opens the next connection as soon as one ends.  The send on that        *)
(* channel has no alternative: a watcher at "send" can only be released by *)
(* a receiver (ReceiveEvent of DeploymentWatcherModule).                   *)
(***************************************************************************)
EXTENDS K8sWatch

VARIABLES
    wpc,       \* the goroutine's place: "connect", "receive", "send", "returned"
    pending    \* the event it is sending, or NoEvent

watcherVars == <<wpc, pending>>

NoEvent == [type |-> "NONE", dep |-> NoDep]

\* What FromUnstructured can return for the object of an event: a Status is no
\* deployment, and what a deployment holds need not fit the types it is
\* unmarshalled into.
FromUnstructured(e) ==
    IF e = ErrorEvent THEN {"error"} ELSE {"deployment", "error"}

-----------------------------------------------------------------------------
WatcherInit ==
    /\ wpc = "connect"
    /\ pending = NoEvent

\* WatchDeployments succeeds.
WatchDeployments ==
    /\ wpc = "connect"
    /\ OpenConnection
    /\ wpc' = "receive"
    /\ UNCHANGED pending

\* processEvents leaves, which stops the connection (the deferred Stop).
Stop == conn' = "none" /\ watchQ' = <<>>

\* Watch returns an error: the goroutine ends and, as one of the module's two
\* goroutines, takes the shared context down with it.
ReturnError ==
    /\ wpc' = "returned"
    /\ ctxDone' = TRUE
    /\ UNCHANGED <<rev, objects, opens, pending>>

\* WatchDeployments fails: Watch gives up at once, there is no retry.
WatchRequestFails ==
    /\ wpc = "connect"
    /\ ReturnError
    /\ UNCHANGED <<conn, watchQ>>

\* The select takes an event from the connection and converts it.
NextEvent ==
    /\ wpc = "receive"
    /\ watchQ # <<>>
    /\ "deployment" \in FromUnstructured(Head(watchQ))
    /\ wpc' = "send"
    /\ pending' = Head(watchQ)
    /\ watchQ' = Tail(watchQ)
    /\ UNCHANGED <<rev, objects, conn, opens, ctxDone>>

\* The event cannot be converted.
ConversionFails ==
    /\ wpc = "receive"
    /\ watchQ # <<>>
    /\ "error" \in FromUnstructured(Head(watchQ))
    /\ Stop
    /\ ReturnError

\* MUTANT: Watch takes the end of a connection for the end of the watch.
ChannelClosedForGood ==
    /\ wpc = "receive"
    /\ watchQ = <<>>
    /\ conn = "ended"
    /\ Stop
    /\ wpc' = "returned"
    /\ UNCHANGED <<rev, objects, opens, ctxDone, pending>>

\* The connection's channel is closed: processEvents returns nil and the loop
\* of Watch goes around.
ChannelClosed ==
    /\ wpc = "receive"
    /\ watchQ = <<>>
    /\ conn = "ended"
    /\ Stop
    /\ wpc' = "connect"
    /\ UNCHANGED <<rev, objects, opens, ctxDone, pending>>

\* The select sees the cancelled context: ctx.Err() is returned.
ContextDone ==
    /\ wpc = "receive"
    /\ ctxDone
    /\ Stop
    /\ ReturnError

WatcherStep ==
    \/ WatchDeployments
    \/ WatchRequestFails
    \/ NextEvent
    \/ ConversionFails
    \/ ChannelClosed
    \/ ContextDone

WatcherTypeOK ==
    /\ wpc \in {"connect", "receive", "send", "returned"}
    /\ pending \in Event \cup {NoEvent}
    /\ pending # NoEvent <=> wpc = "send"
=============================================================================
