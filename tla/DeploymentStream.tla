---------------------------- MODULE DeploymentStream ----------------------------
(***************************************************************************)
(* The browser's end of the deployment stream, useDeploymentStream of      *)
(* frontend/src/hooks/useDeploymentStream.ts: one fetch at a time reads    *)
(* the server-sent events, an interval notices a silent connection, a      *)
(* timer starts the next attempt, and the user may retry by hand.          *)
(*                                                                         *)
(* JavaScript runs one task at a time and finishes the continuations of a  *)
(* settled promise before the next task.  So a fetch or a read that        *)
(* settles is one action with the code after its await, and an abort ends  *)
(* the attempt in the step that aborts it: its rejection is an AbortError, *)
(* which the code only logs.                                               *)
(***************************************************************************)
EXTENDS Naturals, DeploymentsMap

CONSTANTS
    Attempts,    \* the fetches that can be told apart
    NoAttempt,   \* abortControllerRef is null
    Events       \* what a chunk can say: [type, dep], a dep having a key and a uid

ASSUME NoAttemptAssumption == NoAttempt \notin Attempts

VARIABLES
    mounted,        \* the component is mounted
    attempt,        \* each fetch: "idle", "fetching" or "reading"
    controller,     \* the attempt of abortControllerRef, or NoAttempt
    heartbeatTimer, \* the heartbeat interval is set
    reconnectTimer, \* the reconnect timeout is set
    quiet,          \* no data for longer than HEARTBEAT_TIMEOUT_MS
    isConnected,
    error,          \* an error message is set
    displayed       \* deploymentsMap: its values in insertion order

timers     == <<heartbeatTimer, reconnectTimer>>
streamVars == <<mounted, attempt, controller, timers, quiet, isConnected, error,
                displayed>>

-----------------------------------------------------------------------------
Init ==
    /\ mounted = FALSE
    /\ attempt = [a \in Attempts |-> "idle"]
    /\ controller = NoAttempt
    /\ heartbeatTimer = FALSE
    /\ reconnectTimer = FALSE
    /\ quiet = FALSE
    /\ isConnected = FALSE
    /\ error = FALSE
    /\ displayed = <<>>

\* MUTANT: the running fetch is left alone.
StillRunning == attempt

\* The attempts once the current one is aborted.
Aborted ==
    [a \in Attempts |-> IF a = controller THEN "idle" ELSE attempt[a]]

\* connect: both timers are cleared, the current attempt is aborted and a new
\* one starts, watched by a new interval.
Connect(a) ==
    /\ Aborted[a] = "idle"
    /\ attempt' = [Aborted EXCEPT ![a] = "fetching"]
    /\ controller' = a
    /\ heartbeatTimer' = TRUE
    /\ reconnectTimer' = FALSE
    /\ quiet' = FALSE

\* MUTANT: the interval is cleared and no timeout is set.
ScheduleNothing ==
    /\ heartbeatTimer' = FALSE
    /\ reconnectTimer' = FALSE

\* clearHeartbeatCheckTimer and scheduleReconnect.
ScheduleReconnect ==
    /\ heartbeatTimer' = FALSE
    /\ reconnectTimer' = TRUE

\* The component appears, with the initial values of its useState hooks.
Mount(a) ==
    /\ ~mounted
    /\ mounted' = TRUE
    /\ isConnected' = FALSE
    /\ error' = FALSE
    /\ displayed' = <<>>
    /\ Connect(a)

\* MUTANT: the cleanup aborts the fetch and forgets the timers.
UnmountTimersKept ==
    /\ mounted
    /\ mounted' = FALSE
    /\ attempt' = Aborted
    /\ controller' = NoAttempt
    /\ UNCHANGED <<timers, quiet, isConnected, error, displayed>>

\* The effect's cleanup.
Unmount ==
    /\ mounted
    /\ mounted' = FALSE
    /\ heartbeatTimer' = FALSE
    /\ reconnectTimer' = FALSE
    /\ attempt' = Aborted
    /\ controller' = NoAttempt
    /\ UNCHANGED <<quiet, isConnected, error, displayed>>

\* The user asks for a new connection; the button is there while an error is
\* shown, whatever the state of the current attempt.
Retry(a) ==
    /\ mounted
    /\ error
    /\ Connect(a)
    /\ UNCHANGED <<mounted, isConnected, error, displayed>>

\* The reconnect timeout fires.
Reconnect(a) ==
    /\ reconnectTimer
    /\ Connect(a)
    /\ UNCHANGED <<mounted, isConnected, error, displayed>>

\* The response arrives: what is displayed is forgotten, the server starts over.
FetchOk(a) ==
    /\ attempt[a] = "fetching"
    /\ attempt' = [attempt EXCEPT ![a] = "reading"]
    /\ isConnected' = TRUE
    /\ error' = FALSE
    /\ displayed' = <<>>
    /\ UNCHANGED <<mounted, controller, timers, quiet>>

\* MUTANT: the error is shown and nothing else is done about it.
AttemptFailsForGood(a) ==
    /\ attempt[a] # "idle"
    /\ attempt' = [attempt EXCEPT ![a] = "idle"]
    /\ isConnected' = FALSE
    /\ error' = TRUE
    /\ heartbeatTimer' = FALSE
    /\ UNCHANGED <<mounted, controller, reconnectTimer, quiet, displayed>>

\* The fetch is refused or fails, or a read fails: the catch block.
AttemptFails(a) ==
    /\ attempt[a] # "idle"
    /\ attempt' = [attempt EXCEPT ![a] = "idle"]
    /\ isConnected' = FALSE
    /\ error' = TRUE
    /\ ScheduleReconnect
    /\ UNCHANGED <<mounted, controller, quiet, displayed>>

\* MUTANT: the end of the stream is not taken for a lost connection.
StreamEndsUnseen(a) ==
    /\ attempt[a] = "reading"
    /\ attempt' = [attempt EXCEPT ![a] = "idle"]
    /\ ScheduleReconnect
    /\ UNCHANGED <<mounted, controller, quiet, isConnected, error, displayed>>

\* The server ends the stream.
StreamEnds(a) ==
    /\ attempt[a] = "reading"
    /\ attempt' = [attempt EXCEPT ![a] = "idle"]
    /\ isConnected' = FALSE
    /\ ScheduleReconnect
    /\ UNCHANGED <<mounted, controller, quiet, error, displayed>>

\* A chunk with an event arrives.
ReadEvent(a, e) ==
    /\ attempt[a] = "reading"
    /\ quiet' = FALSE
    /\ displayed' = Reduce(displayed, e)
    /\ UNCHANGED <<mounted, attempt, controller, timers, isConnected, error>>

\* A chunk with a heartbeat comment arrives.
ReadHeartbeat(a) ==
    /\ attempt[a] = "reading"
    /\ quiet' = FALSE
    /\ UNCHANGED <<mounted, attempt, controller, timers, isConnected, error, displayed>>

\* A chunk with an error event, or with data that is no JSON, arrives.
ReadError(a) ==
    /\ attempt[a] = "reading"
    /\ quiet' = FALSE
    /\ error' = TRUE
    /\ UNCHANGED <<mounted, attempt, controller, timers, isConnected, displayed>>

\* Time passes without data.
GoQuiet ==
    /\ heartbeatTimer
    /\ ~quiet
    /\ quiet' = TRUE
    /\ UNCHANGED <<mounted, attempt, controller, timers, isConnected, error, displayed>>

\* MUTANT: the silence is reported but the connection is kept.
HeartbeatReported ==
    /\ heartbeatTimer
    /\ quiet
    /\ isConnected' = FALSE
    /\ error' = TRUE
    /\ UNCHANGED <<mounted, attempt, controller, timers, quiet, displayed>>

\* The interval's callback finds the connection silent.
HeartbeatTimeout ==
    /\ heartbeatTimer
    /\ quiet
    /\ isConnected' = FALSE
    /\ error' = TRUE
    /\ attempt' = Aborted
    /\ controller' = NoAttempt
    /\ ScheduleReconnect
    /\ UNCHANGED <<mounted, quiet, displayed>>

-----------------------------------------------------------------------------
Next ==
    \/ \E a \in Attempts :
        \/ Mount(a)
        \/ Retry(a)
        \/ Reconnect(a)
        \/ FetchOk(a)
        \/ AttemptFails(a)
        \/ StreamEnds(a)
        \/ ReadHeartbeat(a)
        \/ ReadError(a)
        \/ \E e \in Events : ReadEvent(a, e)
    \/ Unmount
    \/ GoQuiet
    \/ HeartbeatTimeout

Spec == Init /\ [][Next]_streamVars

\* Timers fire, and a server that is asked again and again answers in the end.
\* The user, the network and the server's events are under no obligation.
Fairness ==
    /\ WF_streamVars(HeartbeatTimeout)
    /\ WF_streamVars(\E a \in Attempts : Reconnect(a))
    /\ SF_streamVars(\E a \in Attempts : FetchOk(a))

FairSpec == Spec /\ Fairness

-----------------------------------------------------------------------------
(* Properties *)

Live(a) == a \in Attempts /\ attempt[a] # "idle"

\* deploymentsMap has one entry for each uid.
TypeOK ==
    /\ mounted \in BOOLEAN
    /\ attempt \in [Attempts -> {"idle", "fetching", "reading"}]
    /\ controller \in Attempts \cup {NoAttempt}
    /\ heartbeatTimer \in BOOLEAN
    /\ reconnectTimer \in BOOLEAN
    /\ quiet \in BOOLEAN
    /\ isConnected \in BOOLEAN
    /\ error \in BOOLEAN
    /\ displayed \in Seq({e.dep : e \in Events})
    /\ \A i, j \in DOMAIN displayed : displayed[i].uid = displayed[j].uid => i = j

\* At most one fetch runs, the one that abortControllerRef can abort: no stream
\* that was given up writes into the state of the next one.
OneStream == \A a \in Attempts : Live(a) => a = controller

\* A mounted component always has something under way that leads to data: an
\* attempt that is watched for silence, or a timer that starts the next one.
NeverStranded == mounted => reconnectTimer \/ (heartbeatTimer /\ Live(controller))

\* Nothing runs on behalf of a component that is gone.
NothingAfterUnmount ==
    ~mounted => ~heartbeatTimer /\ ~reconnectTimer /\ \A a \in Attempts : ~Live(a)

\* A page that says "connected", and shows no error, is reading a stream.  When
\* it says "connected" and shows an error as well, the stream may be over: after
\* an error in the stream the user may retry, and connect (useDeploymentStream.ts:133)
\* aborts it without taking "connected" back.  Then the fetch that replaces it
\* is under way.
ConnectedIsLive ==
    mounted /\ isConnected =>
        /\ Live(controller)
        /\ attempt[controller] = "reading" \/ error

\* A silent connection is given up and replaced, or proves to be alive.
SilenceIsNoticed == mounted /\ quiet ~> ~mounted \/ ~quiet

\* A disconnected component gets its connection back.
Reconnects == mounted /\ ~isConnected ~> ~mounted \/ isConnected
=============================================================================
