------------------------ MODULE DeploymentStream_proofs ------------------------
(***************************************************************************)
(* Proofs about useDeploymentStream, for any set of fetches and of events.  *)
(***************************************************************************)
EXTENDS DeploymentStream, DeploymentsMap_proofs

Versions == {e.dep : e \in Events}

\* setDeploymentsMap keeps one entry per uid, whatever the event.
LEMMA ReduceKeepsOnePerUid ==
    ASSUME NEW map \in Seq(Versions), OnePerUid(map), NEW e \in Events
    PROVE  Reduce(map, e) \in Seq(Versions) /\ OnePerUid(Reduce(map, e))
<1>1. e.dep \in Versions
  BY DEF Versions
<1>2. QED
  BY <1>1, ReduceProperties

-----------------------------------------------------------------------------
(* The interval is set exactly while abortControllerRef has a fetch that    *)
(* runs, and the timeout only while none does and the page says so.  With   *)
(* them the four properties are inductive together: a fetch that ends was   *)
(* the controller's own, so the code that clears the interval and sets the  *)
(* timeout never does so under another fetch.                               *)
Watched == heartbeatTimer <=> Live(controller)

Scheduled == reconnectTimer => ~isConnected /\ ~Live(controller)

StreamInv ==
    /\ OneStream
    /\ Watched
    /\ Scheduled
    /\ NeverStranded
    /\ NothingAfterUnmount
    /\ ConnectedIsLive

LEMMA NoAttemptIsNotLive == ~Live(NoAttempt)
BY NoAttemptAssumption DEF Live

LEMMA AbortedType ==
    ASSUME TypeOK
    PROVE  /\ Aborted \in [Attempts -> {"idle", "fetching", "reading"}]
           /\ \A a \in Attempts : Aborted[a] =
                 IF a = controller THEN "idle" ELSE attempt[a]
BY DEF TypeOK, Aborted

\* Once the current attempt is aborted none is left.
LEMMA AbortEndsAll ==
    ASSUME TypeOK, OneStream
    PROVE  \A a \in Attempts : Aborted[a] = "idle"
BY AbortedType DEF OneStream, Live

-----------------------------------------------------------------------------
(* Types *)

LEMMA InitType == Init => TypeOK
<1> SUFFICES ASSUME Init PROVE TypeOK
  OBVIOUS
<1>1. displayed = <<>>
  BY DEF Init
<1>2. displayed \in Seq(Versions) /\ DOMAIN displayed = {}
  BY <1>1
<1>3. QED
  BY <1>2 DEF Init, TypeOK, Versions

LEMMA NextType == TypeOK /\ [Next]_streamVars => TypeOK'
<1> SUFFICES ASSUME TypeOK, [Next]_streamVars PROVE TypeOK'
  OBVIOUS
<1> DEFINE States == {"idle", "fetching", "reading"}
<1>1. /\ mounted \in BOOLEAN
      /\ attempt \in [Attempts -> States]
      /\ controller \in Attempts \cup {NoAttempt}
      /\ heartbeatTimer \in BOOLEAN /\ reconnectTimer \in BOOLEAN
      /\ quiet \in BOOLEAN /\ isConnected \in BOOLEAN /\ error \in BOOLEAN
  BY DEF TypeOK
<1>2. displayed \in Seq(Versions) /\ OnePerUid(displayed)
  BY DEF TypeOK, Versions, OnePerUid
<1>3. SUFFICES /\ mounted' \in BOOLEAN
               /\ attempt' \in [Attempts -> States]
               /\ controller' \in Attempts \cup {NoAttempt}
               /\ heartbeatTimer' \in BOOLEAN /\ reconnectTimer' \in BOOLEAN
               /\ quiet' \in BOOLEAN /\ isConnected' \in BOOLEAN /\ error' \in BOOLEAN
               /\ displayed' \in Seq(Versions) /\ OnePerUid(displayed')
  BY DEF TypeOK, Versions, OnePerUid
<1>4. Aborted \in [Attempts -> States]
  BY AbortedType
<1>5. <<>> \in Seq(Versions) /\ OnePerUid(<<>>)
  BY DEF OnePerUid
<1>a. ASSUME NEW a \in Attempts, Connect(a)
      PROVE  /\ attempt' \in [Attempts -> States]
             /\ controller' \in Attempts \cup {NoAttempt}
             /\ heartbeatTimer' \in BOOLEAN /\ reconnectTimer' \in BOOLEAN
             /\ quiet' \in BOOLEAN
  BY <1>4, <1>a DEF Connect
<1>6. ASSUME NEW a \in Attempts, Mount(a) PROVE <1>3!1
  BY <1>5, <1>6, <1>a DEF Mount
<1>7. ASSUME NEW a \in Attempts, Retry(a) \/ Reconnect(a) PROVE <1>3!1
  BY <1>1, <1>2, <1>7, <1>a DEF Retry, Reconnect
<1>8. ASSUME NEW a \in Attempts,
             FetchOk(a) \/ AttemptFails(a) \/ StreamEnds(a) \/ ReadHeartbeat(a) \/ ReadError(a)
      PROVE  <1>3!1
  BY <1>1, <1>2, <1>5, <1>8
     DEF FetchOk, AttemptFails, StreamEnds, ReadHeartbeat, ReadError, ScheduleReconnect, timers
<1>9. ASSUME NEW a \in Attempts, NEW e \in Events, ReadEvent(a, e) PROVE <1>3!1
  <2>1. displayed' \in Seq(Versions) /\ OnePerUid(displayed')
    BY <1>2, <1>9, ReduceKeepsOnePerUid DEF ReadEvent
  <2>2. QED
    BY <1>1, <1>9, <2>1 DEF ReadEvent, timers
<1>10. ASSUME Unmount \/ GoQuiet \/ HeartbeatTimeout PROVE <1>3!1
  BY <1>1, <1>2, <1>4, <1>10 DEF Unmount, GoQuiet, HeartbeatTimeout, ScheduleReconnect, timers
<1>11. ASSUME UNCHANGED streamVars PROVE <1>3!1
  BY <1>1, <1>2, <1>11 DEF streamVars, timers
<1>12. QED
  BY <1>6, <1>7, <1>8, <1>9, <1>10, <1>11 DEF Next

\* The hook's state has its type and the map one entry per uid.
THEOREM TypeCorrect == Spec => []TypeOK
<1>1. Init => TypeOK
  BY InitType
<1>2. TypeOK /\ [Next]_streamVars => TypeOK'
  BY NextType
<1>3. QED
  BY <1>1, <1>2, PTL DEF Spec

-----------------------------------------------------------------------------
(* Control *)

LEMMA InitStream == Init => StreamInv
BY NoAttemptIsNotLive
   DEF Init, StreamInv, OneStream, Watched, Scheduled, NeverStranded, NothingAfterUnmount,
       ConnectedIsLive, Live

\* A new attempt leaves only itself running.
LEMMA ConnectStarts ==
    ASSUME TypeOK, OneStream, NEW a \in Attempts, Connect(a)
    PROVE  /\ OneStream' /\ Watched' /\ Scheduled'
           /\ Live(controller)' /\ heartbeatTimer'
<1>1. \A b \in Attempts : Aborted[b] = "idle"
  BY AbortEndsAll
<1>2. /\ attempt' = [Aborted EXCEPT ![a] = "fetching"] /\ controller' = a
      /\ heartbeatTimer' /\ ~reconnectTimer'
  BY DEF Connect
<1>3. \A b \in Attempts : attempt'[b] = IF b = a THEN "fetching" ELSE "idle"
  BY <1>1, <1>2, AbortedType
<1>4. QED
  BY <1>2, <1>3 DEF OneStream, Watched, Scheduled, Live

\* An attempt that ends was the controller's, and nothing runs after it.
LEMMA AttemptEnds ==
    ASSUME TypeOK, StreamInv, NEW a \in Attempts, attempt[a] # "idle",
           attempt' = [attempt EXCEPT ![a] = "idle"], ScheduleReconnect,
           UNCHANGED <<mounted, controller>>, ~isConnected'
    PROVE  StreamInv'
<1>1. a = controller /\ mounted
  BY DEF StreamInv, OneStream, NothingAfterUnmount, Live
<1>2. \A b \in Attempts : attempt'[b] = "idle"
  BY <1>1 DEF StreamInv, OneStream, Live, TypeOK
<1>3. QED
  BY <1>1, <1>2
     DEF ScheduleReconnect, StreamInv, OneStream, Watched, Scheduled, NeverStranded,
         NothingAfterUnmount, ConnectedIsLive, Live

\* What keeps the attempts and the timers keeps the invariant.
LEMMA ControlUnchanged ==
    ASSUME StreamInv, UNCHANGED <<mounted, attempt, controller, timers>>,
           isConnected' => isConnected, error => error'
    PROVE  StreamInv'
BY DEF StreamInv, OneStream, Watched, Scheduled, NeverStranded, NothingAfterUnmount,
       ConnectedIsLive, Live, timers

LEMMA NextStream == TypeOK /\ StreamInv /\ [Next]_streamVars => StreamInv'
<1> SUFFICES ASSUME TypeOK, StreamInv, [Next]_streamVars PROVE StreamInv'
  OBVIOUS
<1>1. OneStream /\ Watched /\ Scheduled /\ NeverStranded /\ NothingAfterUnmount /\ ConnectedIsLive
  BY DEF StreamInv
<1>2. ASSUME NEW a \in Attempts, Mount(a) \/ Retry(a) \/ Reconnect(a) PROVE StreamInv'
  <2>1. Connect(a) /\ mounted'
    BY <1>1, <1>2 DEF Mount, Retry, Reconnect, NothingAfterUnmount
  <2>2. OneStream' /\ Watched' /\ Scheduled' /\ Live(controller)' /\ heartbeatTimer'
    BY <1>1, <2>1, ConnectStarts
  <2>3. ~isConnected' \/ error'
    BY <1>1, <1>2 DEF Mount, Retry, Reconnect, Scheduled
  <2>4. QED
    BY <2>1, <2>2, <2>3 DEF StreamInv, NeverStranded, NothingAfterUnmount, ConnectedIsLive
<1>3. ASSUME NEW a \in Attempts, FetchOk(a) PROVE StreamInv'
  <2>1. /\ attempt[a] = "fetching"
        /\ attempt' = [attempt EXCEPT ![a] = "reading"]
        /\ UNCHANGED <<mounted, controller, heartbeatTimer, reconnectTimer>>
    BY <1>3 DEF FetchOk, timers
  <2>2. \A b \in Attempts : Live(b)' <=> Live(b)
    BY <2>1 DEF Live, TypeOK
  <2>3. Live(controller)' <=> Live(controller)
    BY <2>1, <2>2 DEF Live
  <2>4. controller = a /\ Live(controller)
    BY <1>1, <2>1 DEF OneStream, Live
  <2>5. OneStream' /\ Watched' /\ Scheduled'
    BY <1>1, <2>1, <2>2, <2>3, <2>4 DEF OneStream, Watched, Scheduled
  <2>6. attempt'[controller'] = "reading"
    BY <2>1, <2>4 DEF TypeOK
  <2>7. NeverStranded' /\ ConnectedIsLive'
    BY <1>1, <2>1, <2>3, <2>4, <2>6 DEF Watched, NeverStranded, ConnectedIsLive
  <2>8. NothingAfterUnmount'
    BY <1>1, <2>1, <2>2 DEF NothingAfterUnmount
  <2>9. QED
    BY <2>5, <2>7, <2>8 DEF StreamInv
<1>4. ASSUME NEW a \in Attempts, AttemptFails(a) \/ StreamEnds(a) PROVE StreamInv'
  BY <1>4, AttemptEnds DEF AttemptFails, StreamEnds
<1>5. ASSUME NEW a \in Attempts, ReadHeartbeat(a) \/ ReadError(a) PROVE StreamInv'
  BY <1>5, ControlUnchanged DEF ReadHeartbeat, ReadError
<1>6. ASSUME NEW a \in Attempts, NEW e \in Events, ReadEvent(a, e) PROVE StreamInv'
  BY <1>6, ControlUnchanged DEF ReadEvent
<1>7. ASSUME Unmount \/ HeartbeatTimeout PROVE StreamInv'
  <2>1. /\ attempt' = Aborted /\ controller' = NoAttempt /\ ~heartbeatTimer'
        /\ mounted' => mounted /\ reconnectTimer' /\ ~isConnected'
        /\ ~mounted' => ~reconnectTimer'
    BY <1>1, <1>7
       DEF Unmount, HeartbeatTimeout, ScheduleReconnect, NothingAfterUnmount
  <2>2. \A b \in Attempts : ~Live(b)'
    BY <1>1, <2>1, AbortEndsAll DEF Live
  <2>3. ~Live(controller)'
    BY <2>1, NoAttemptAssumption DEF Live
  <2>4. QED
    BY <2>1, <2>2, <2>3
       DEF StreamInv, OneStream, Watched, Scheduled, NeverStranded, NothingAfterUnmount,
           ConnectedIsLive
<1>8. CASE GoQuiet
  BY <1>8, ControlUnchanged DEF GoQuiet
<1>9. CASE UNCHANGED streamVars
  BY <1>9, ControlUnchanged DEF streamVars
<1>10. QED
  BY <1>2, <1>3, <1>4, <1>5, <1>6, <1>7, <1>8, <1>9 DEF Next

\* StreamInv holds in every reachable state.
LEMMA StreamInvariant == Spec => []StreamInv
<1>1. Init => TypeOK /\ StreamInv
  BY InitType, InitStream
<1>2. TypeOK /\ StreamInv /\ [Next]_streamVars => (TypeOK /\ StreamInv)'
  BY NextType, NextStream
<1>3. QED
  BY <1>1, <1>2, PTL DEF Spec

\* A fetch that was given up never writes into the state of the next one.
THEOREM OneStreamAtATime == Spec => []OneStream
<1>1. StreamInv => OneStream
  BY DEF StreamInv
<1>2. QED
  BY <1>1, StreamInvariant, PTL

\* The mounted component always has a watched fetch or a timer under way.
THEOREM StreamNeverStranded == Spec => []NeverStranded
<1>1. StreamInv => NeverStranded
  BY DEF StreamInv
<1>2. QED
  BY <1>1, StreamInvariant, PTL

\* No timer and no fetch outlives the component.
THEOREM UnmountIsClean == Spec => []NothingAfterUnmount
<1>1. StreamInv => NothingAfterUnmount
  BY DEF StreamInv
<1>2. QED
  BY <1>1, StreamInvariant, PTL

\* isConnected without an error means that the fetch of abortControllerRef has
\* been answered and its stream is being read; with an error it may still wait
\* for the answer, after retry.
THEOREM ConnectedMeansLive == Spec => []ConnectedIsLive
<1>1. StreamInv => ConnectedIsLive
  BY DEF StreamInv
<1>2. QED
  BY <1>1, StreamInvariant, PTL
=============================================================================
