------------------------ MODULE ServerLifecycleProofs ------------------------
(***************************************************************************)
(* Theorems about ServerLifecycle, for any set of clients, any number of   *)
(* starts and any capacity of the ui channel.                              *)
(***************************************************************************)
EXTENDS ServerLifecycle, FiniteSetTheorems, TLAPS

--------------------------------------------------------------------------------
(* The inductive invariant.                                                *)

(* Which states of the web thread go with which of the main thread.        *)
ThreadsInStep ==
  /\ main \in {"idle", "exited"} => web = "none"
  /\ main = "starting" => web \in {"bind", "failed", "accept", "handshake"}
  /\ main = "running" => web \in {"accept", "handshake"}
  /\ main = "joinWeb" => web \in Listening \cup {"returned", "done"}
  /\ main = "joinUi" => web = "done"

(* A notification to shut down is pending only until the accept loop of    *)
(* this server takes it, or for good.                                      *)
PermitIsForThisServer ==
  permit => main = "exited" \/ (main = "joinWeb" /\ web \in {"accept", "handshake"})

(* A ui thread that has ended will never again be given a sender.          *)
UiInStep ==
  /\ main \in {"idle", "starting", "exited"} => ui = "none"
  /\ main \in {"running", "joinWeb", "joinUi"} => ui \in {"running", "done"}
  /\ ui = "done" => ~SenderHeld

(* Without a runtime there are no tasks; without a server no sessions.     *)
NoTasksWithoutRuntime ==
  ~RuntimeUp => \A c \in Clients : /\ conn[c] \notin {"spawned", "open"}
                                  /\ client[c] \notin {"pending", "ready", "failed"}

NoSessionsWithoutServer ==
  web \in {"none", "bind", "failed"} => \A c \in Clients : client[c] \notin InSession

(* A video thread belongs to a session or was orphaned by a panic.         *)
VideoOwned == \A c \in video : client[c] \in InSession \/ c \in panicked

(* num_clients never falls short of the clients still to be counted out,   *)
(* and is exact until the runtime is dropped.                              *)
CountInv ==
  /\ Cardinality(Counted) <= numClients
  /\ web \notin {"none", "failed", "done"} => numClients = Cardinality(Counted)

IInv ==
  /\ TypeOK
  /\ ThreadsInStep
  /\ PermitIsForThisServer
  /\ UiInStep
  /\ NoTasksWithoutRuntime
  /\ NoSessionsWithoutServer
  /\ VideoOwned
  /\ CountInv

(* What the button does says where the thread that owns Rylus is.          *)
LEMMA ClickedAt ==
  /\ Clicked("Stopped") => main = "idle"
  /\ Clicked("Running") => main = "running"
BY DEF Clicked, ServerState

(* IInv holds initially.                                                   *)
LEMMA InitEstablishesIInv == Init => IInv
<1> SUFFICES ASSUME Init PROVE IInv
  OBVIOUS
<1>1. Counted = {}
  BY DEF Init, Counted, InSession
<1>2. Cardinality(Counted) = 0
  BY <1>1, FS_EmptySet
<1>3. CountInv
  BY <1>2 DEF CountInv, Init
<1>a. starts \in 0 .. MaxStarts /\ uiQueue \in 0 .. UiCapacity /\ numClients \in Nat
  BY LifecycleAssumption DEF Init, LifecycleAssumption
<1>4. TypeOK
  BY <1>a DEF Init, TypeOK, MainStates, WebStates, ConnStates, ClientStates
<1>5. ThreadsInStep /\ PermitIsForThisServer /\ UiInStep
  BY DEF Init, ThreadsInStep, PermitIsForThisServer, UiInStep
<1>6. NoTasksWithoutRuntime /\ NoSessionsWithoutServer /\ VideoOwned
  BY DEF Init, NoTasksWithoutRuntime, RuntimeUp, NoSessionsWithoutServer, VideoOwned, InSession
<1> QED
  BY <1>3, <1>4, <1>5, <1>6 DEF IInv

(* Every step keeps the structural part of IInv; the range of num_clients  *)
(* is left to CountKept.                                                   *)
Shape ==
  /\ ThreadsInStep
  /\ PermitIsForThisServer
  /\ UiInStep
  /\ NoTasksWithoutRuntime
  /\ NoSessionsWithoutServer
  /\ VideoOwned

LEMMA ShapeKept ==
  ASSUME TypeOK, Shape, [Next]_vars
  PROVE  Shape'
<1> USE DEF TypeOK, Shape, ThreadsInStep, PermitIsForThisServer, UiInStep, SenderHeld,
        NoTasksWithoutRuntime, NoSessionsWithoutServer, VideoOwned, RuntimeUp, InSession,
        Listening, mainVars, webVars, connVars, countVars, sessionVars, uiVars
<1>1. CASE Start
  BY <1>1, ClickedAt DEF Start
<1>2. CASE Started
  BY <1>2 DEF Started
<1>3. CASE StartFailed
  BY <1>3 DEF StartFailed
<1>4. CASE Stop
  BY <1>4, ClickedAt DEF Stop
<1>5. CASE JoinWeb
  BY <1>5 DEF JoinWeb
<1>6. CASE JoinUi
  BY <1>6 DEF JoinUi
<1>7. CASE Exit
  BY <1>7 DEF Exit
<1>8. CASE Bind
  BY <1>8 DEF Bind, WebOnly
<1>9. CASE ShutdownSeen
  BY <1>9 DEF ShutdownSeen
<1>10. CASE FirstPermits
  BY <1>10 DEF FirstPermits, AddPermits
<1>11. CASE LoadClients
  BY <1>11 DEF LoadClients, WebOnly
<1>12. CASE WaitForDisconnect
  BY <1>12 DEF WaitForDisconnect, WebOnly
<1>13. CASE TimerFires
  BY <1>13 DEF TimerFires, AddPermits
<1>14. CASE DropRuntime
  BY <1>14 DEF DropRuntime
<1>15. ASSUME NEW c \in Clients, Connect(c) PROVE Shape'
  BY <1>15 DEF Connect, SetConn
<1>16. ASSUME NEW c \in Clients, Accept(c) PROVE Shape'
  BY <1>16 DEF Accept, SetConn
<1>17. ASSUME NEW c \in Clients, HandshakeDone(c) PROVE Shape'
  BY <1>17 DEF HandshakeDone, Handshake, SetConn
<1>18. ASSUME NEW c \in Clients, HandshakeFails(c) PROVE Shape'
  BY <1>18 DEF HandshakeFails, Handshake, SetConn
<1>19. ASSUME NEW c \in Clients, TaskStarts(c) PROVE Shape'
  BY <1>19 DEF TaskStarts, SetConn
<1>20. ASSUME NEW c \in Clients, Upgrade(c) PROVE Shape'
  BY <1>20 DEF Upgrade, SetClient
<1>21. ASSUME NEW c \in Clients, HandOver(c) PROVE Shape'
  BY <1>21 DEF HandOver, SetConn, SetClient
<1>22. ASSUME NEW c \in Clients, CloseConn(c) PROVE Shape'
  BY <1>22 DEF CloseConn, SetConn, SetClient
<1>23. ASSUME NEW c \in Clients, CloseTold(c) PROVE Shape'
  BY <1>23 DEF CloseTold, CloseConn, SetConn, SetClient
<1>24. ASSUME NEW c \in Clients, SpawnHandler(c) PROVE Shape'
  BY <1>24 DEF SpawnHandler, SetClient
<1>25. ASSUME NEW c \in Clients, ReportUInput(c) PROVE Shape'
  BY <1>25 DEF ReportUInput, SetClient
<1>26. ASSUME NEW c \in Clients, SendReport(c) PROVE Shape'
  BY <1>26 DEF SendReport, SetClient
<1>27. ASSUME NEW c \in Clients, PeerLeaves(c) PROVE Shape'
  BY <1>27 DEF PeerLeaves, ClientOnly, SetClient
<1>28. ASSUME NEW c \in Clients, SessionReleased(c) PROVE Shape'
  BY <1>28 DEF SessionReleased, PeerLeaves, ClientOnly, SetClient
<1>29. ASSUME NEW c \in Clients, HandlerPanics(c) PROVE Shape'
  BY <1>29 DEF HandlerPanics, SetClient
<1>30. ASSUME NEW c \in Clients, VideoEnds(c) PROVE Shape'
  BY <1>30 DEF VideoEnds
<1>31. ASSUME NEW c \in Clients, JoinVideo(c) PROVE Shape'
  BY <1>31 DEF JoinVideo, ClientOnly, SetClient
<1>32. ASSUME NEW c \in Clients, CountOut(c) PROVE Shape'
  BY <1>32 DEF CountOut, SetClient
<1>33. ASSUME NEW c \in Clients, NotifyDisconnect(c) PROVE Shape'
  BY <1>33 DEF NotifyDisconnect, SetClient
<1>34. CASE UiTakes
  BY <1>34 DEF UiTakes
<1>35. CASE UiEnds
  BY <1>35 DEF UiEnds
<1>36. CASE UNCHANGED vars
  BY <1>36 DEF vars
<1> QED
  BY <1>1, <1>2, <1>3, <1>4, <1>5, <1>6, <1>7, <1>8, <1>9, <1>10, <1>11, <1>12, <1>13, <1>14, <1>15, <1>16, <1>17, <1>18, <1>19, <1>20, <1>21, <1>22, <1>23, <1>24, <1>25, <1>26, <1>27, <1>28, <1>29, <1>30, <1>31, <1>32, <1>33, <1>34, <1>35, <1>36
     DEF Next, MainNext, WebNext, ConnNext, ClientNext

--------------------------------------------------------------------------------
(* Counting clients.                                                       *)

CountedStates == {"pending", "ready", "failed", "ended"} \cup InSession

(* The clients to be counted out, for the client states f.                 *)
CountedIn(f) == {c \in Clients : f[c] \in CountedStates}

(* Setting one client's state adds it to those to be counted out, removes  *)
(* it from them, or leaves them alone.                                     *)
LEMMA CountedAfterSet ==
  ASSUME NEW f \in [Clients -> ClientStates], NEW c \in Clients, NEW s
  PROVE  LET g == [f EXCEPT ![c] = s]
         IN  /\ IsFiniteSet(CountedIn(f)) /\ Cardinality(CountedIn(f)) \in Nat
             /\ (f[c] \in CountedStates <=> s \in CountedStates) =>
                   CountedIn(g) = CountedIn(f)
             /\ f[c] \notin CountedStates /\ s \in CountedStates =>
                   Cardinality(CountedIn(g)) = Cardinality(CountedIn(f)) + 1
             /\ f[c] \in CountedStates /\ s \notin CountedStates =>
                   /\ Cardinality(CountedIn(g)) = Cardinality(CountedIn(f)) - 1
                   /\ Cardinality(CountedIn(f)) > 0
<1> DEFINE g == [f EXCEPT ![c] = s]
<1>1. /\ g[c] = s
      /\ \A d \in Clients : d # c => g[d] = f[d]
  OBVIOUS
<1>2. IsFiniteSet(CountedIn(f))
  BY LifecycleAssumption, FS_Subset DEF LifecycleAssumption, CountedIn
<1>3. Cardinality(CountedIn(f)) \in Nat
  BY <1>2, FS_CardinalityType
<1> HIDE DEF g
<1>4. (f[c] \in CountedStates <=> s \in CountedStates) => CountedIn(g) = CountedIn(f)
  BY <1>1 DEF CountedIn
<1>5. ASSUME f[c] \notin CountedStates, s \in CountedStates
      PROVE  Cardinality(CountedIn(g)) = Cardinality(CountedIn(f)) + 1
  <2>1. CountedIn(g) = CountedIn(f) \cup {c} /\ c \notin CountedIn(f)
    BY <1>1, <1>5 DEF CountedIn
  <2> QED
    BY <1>2, <2>1, FS_AddElement
<1>6. ASSUME f[c] \in CountedStates, s \notin CountedStates
      PROVE  /\ Cardinality(CountedIn(g)) = Cardinality(CountedIn(f)) - 1
             /\ Cardinality(CountedIn(f)) > 0
  <2>1. CountedIn(g) = CountedIn(f) \ {c} /\ c \in CountedIn(f)
    BY <1>1, <1>6 DEF CountedIn
  <2>2. Cardinality(CountedIn(g)) = Cardinality(CountedIn(f)) - 1
    BY <1>2, <2>1, FS_RemoveElement
  <2>3. Cardinality(CountedIn(f)) # 0
    BY <1>2, <2>1, FS_EmptySet
  <2> QED
    BY <1>3, <2>2, <2>3
<1> QED
  BY <1>2, <1>3, <1>4, <1>5, <1>6 DEF g

(* num_clients keeps its meaning in every step.                            *)
LEMMA CountKept ==
  ASSUME IInv, [Next]_vars
  PROVE  numClients' \in Nat /\ CountInv'
<1> USE DEF IInv, TypeOK, CountInv
<1>1. Counted = CountedIn(client) /\ Counted' = CountedIn(client')
  BY DEF Counted, CountedIn, CountedStates
<1>2. Cardinality(Counted) \in Nat /\ IsFiniteSet(Counted)
  BY LifecycleAssumption, FS_Subset, FS_CardinalityType DEF LifecycleAssumption, Counted
<1>3. ASSUME Counted' = Counted, numClients' = numClients,
             web' \notin {"none", "failed", "done"} => web \notin {"none", "failed", "done"}
      PROVE  numClients' \in Nat /\ CountInv'
  BY <1>2, <1>3
<1>4. ASSUME NEW c \in Clients, NEW s, client' = [client EXCEPT ![c] = s],
             client[c] \in CountedStates <=> s \in CountedStates,
             numClients' = numClients,
             web' \notin {"none", "failed", "done"} => web \notin {"none", "failed", "done"}
      PROVE  numClients' \in Nat /\ CountInv'
  <2>1. Counted' = Counted
    BY <1>1, <1>4, CountedAfterSet
  <2> QED
    BY <1>3, <1>4, <2>1
<1> USE DEF webVars, connVars, countVars, sessionVars
<1>5. CASE MainNext
  <2>1. CASE Start
    <3>1. Counted' = {}
      BY <2>1, ClickedAt DEF Start, Counted, InSession, ThreadsInStep, NoTasksWithoutRuntime,
                  NoSessionsWithoutServer, RuntimeUp
    <3>2. Cardinality(Counted') = 0
      BY <3>1, FS_EmptySet
    <3> QED
      BY <2>1, <3>2 DEF Start
  <2>2. ASSUME Started \/ StartFailed \/ Stop \/ JoinWeb \/ JoinUi \/ Exit
        PROVE  /\ client' = client /\ numClients' = numClients
               /\ web' = web \/ web' = "none"
    BY <2>2 DEF Started, StartFailed, Stop, JoinWeb, JoinUi, Exit
  <2> QED
    BY <1>1, <1>3, <1>5, <2>1, <2>2 DEF MainNext
<1>6. CASE WebNext
  <2>1. CASE DropRuntime
    <3>1. Counted' \subseteq Counted
      BY <2>1 DEF DropRuntime, Counted, InSession
    <3>2. Cardinality(Counted') <= Cardinality(Counted) /\ Cardinality(Counted') \in Nat
      BY <1>2, <3>1, FS_Subset, FS_CardinalityType
    <3> QED
      BY <1>2, <2>1, <3>2 DEF DropRuntime
  <2>2. ASSUME WebNext, ~DropRuntime
        PROVE  /\ client' = client /\ numClients' = numClients
               /\ web \notin {"none", "failed", "done"}
    BY <2>2 DEF WebNext, Bind, WebOnly, ShutdownSeen, FirstPermits, AddPermits,
                LoadClients, WaitForDisconnect, TimerFires
  <2> QED
    BY <1>1, <1>3, <1>6, <2>1, <2>2
<1>7. ASSUME NEW c \in Clients, ConnNext(c)
      PROVE  numClients' \in Nat /\ CountInv'
  <2>1. CASE Upgrade(c)
    <3>1. Cardinality(Counted') = Cardinality(Counted) + 1
      BY <1>1, <2>1, CountedAfterSet DEF Upgrade, SetClient, CountedStates, InSession
    <3> QED
      BY <1>2, <2>1, <3>1 DEF Upgrade
  <2>2. CASE HandOver(c)
    BY <1>4, <2>2 DEF HandOver, SetClient, CountedStates, InSession
  <2>3. CASE CloseConn(c) \/ CloseTold(c)
    BY <1>4, <2>3 DEF CloseTold, CloseConn, SetClient, CountedStates, InSession
  <2>4. ASSUME \/ Connect(c) \/ Accept(c) \/ HandshakeDone(c) \/ HandshakeFails(c)
               \/ TaskStarts(c)
        PROVE  /\ client' = client /\ numClients' = numClients
               /\ web' = web \/ web \in {"accept", "handshake"}
    BY <2>4 DEF Connect, Accept, HandshakeDone, HandshakeFails, Handshake, TaskStarts
  <2> QED
    BY <1>1, <1>3, <1>7, <2>1, <2>2, <2>3, <2>4 DEF ConnNext
<1>8. ASSUME NEW c \in Clients, ClientNext(c)
      PROVE  numClients' \in Nat /\ CountInv'
  <2>1. CASE CountOut(c)
    <3>a. /\ client' = [client EXCEPT ![c] = "counted"]
          /\ client[c] \in CountedStates /\ "counted" \notin CountedStates
      BY <2>1 DEF CountOut, SetClient, CountedStates, InSession
    <3>1. /\ Cardinality(Counted') = Cardinality(Counted) - 1
          /\ Cardinality(Counted) > 0
      BY <1>1, <3>a, CountedAfterSet
    <3> QED
      BY <1>2, <2>1, <3>1 DEF CountOut
  <2>2. CASE NotifyDisconnect(c)
    BY <1>4, <2>2 DEF NotifyDisconnect, SetClient, CountedStates, InSession
  <2>3. CASE VideoEnds(c)
    BY <1>1, <1>3, <2>3 DEF VideoEnds
  <2>4. CASE SpawnHandler(c) \/ ReportUInput(c) \/ SendReport(c) \/ HandlerPanics(c)
    BY <1>4, <2>4 DEF SpawnHandler, ReportUInput, SendReport, HandlerPanics, SetClient,
                      CountedStates, InSession
  <2>5. CASE PeerLeaves(c) \/ SessionReleased(c) \/ JoinVideo(c)
    BY <1>4, <2>5 DEF PeerLeaves, SessionReleased, JoinVideo, ClientOnly, SetClient,
                      CountedStates, InSession
  <2> QED
    BY <1>8, <2>1, <2>2, <2>3, <2>4, <2>5 DEF ClientNext
<1>9. CASE UiTakes \/ UiEnds \/ UNCHANGED vars
  BY <1>1, <1>3, <1>9 DEF UiTakes, UiEnds, vars
<1> QED
  BY <1>5, <1>6, <1>7, <1>8, <1>9 DEF Next

--------------------------------------------------------------------------------
(* The inductive invariant is invariant.                                   *)

(* The types are kept, that of num_clients excepted.                       *)
LEMMA TypesKept ==
  ASSUME TypeOK, numClients' \in Nat, [Next]_vars
  PROVE  TypeOK'
<1> USE DEF TypeOK, MainStates, WebStates, ConnStates, ClientStates, mainVars, webVars,
        connVars, countVars, sessionVars, uiVars, SetConn, SetClient
<1>0. MaxStarts \in Nat /\ UiCapacity \in Nat
  BY LifecycleAssumption DEF LifecycleAssumption
<1>1. CASE Start
  <2>1. starts' \in 0 .. MaxStarts /\ uiQueue' \in 0 .. UiCapacity
    BY <1>0, <1>1 DEF Start
  <2>2. client' \in [Clients -> ClientStates]
    BY <1>1 DEF Start
  <2> QED
    BY <1>1, <2>1, <2>2 DEF Start
<1>2. CASE Started \/ StartFailed \/ Stop \/ JoinWeb \/ JoinUi \/ Exit
  BY <1>2 DEF Started, StartFailed, Stop, JoinWeb, JoinUi, Exit
<1>3. CASE WebNext
  BY <1>3 DEF WebNext, Bind, WebOnly, ShutdownSeen, FirstPermits, AddPermits,
              LoadClients, WaitForDisconnect, TimerFires, DropRuntime
<1>4. ASSUME NEW c \in Clients, ConnNext(c) PROVE TypeOK'
  BY <1>4 DEF ConnNext, Connect, Accept, HandshakeDone, HandshakeFails, Handshake,
              TaskStarts, Upgrade, HandOver, CloseConn, CloseTold
<1>5. ASSUME NEW c \in Clients, ClientNext(c) PROVE TypeOK'
  BY <1>0, <1>5 DEF ClientNext, SpawnHandler, ReportUInput, SendReport, PeerLeaves,
              SessionReleased, HandlerPanics, VideoEnds, JoinVideo, CountOut,
              NotifyDisconnect, ClientOnly
<1>6. CASE UiTakes \/ UiEnds \/ UNCHANGED vars
  BY <1>0, <1>6 DEF UiTakes, UiEnds, vars
<1> QED
  BY <1>1, <1>2, <1>3, <1>4, <1>5, <1>6 DEF Next, MainNext

(* IInv is an invariant of the server (start, stop, run_server, serve).    *)
THEOREM Invariance == Spec => []IInv
<1>1. IInv /\ [Next]_vars => IInv'
  BY CountKept, TypesKept, ShapeKept DEF IInv, Shape
<1> QED
  BY <1>1, InitEstablishesIInv, PTL DEF Spec

--------------------------------------------------------------------------------
(* What the inductive invariant gives.                                     *)

(* The variables of the server keep their types (start, stop, run_server). *)
THEOREM TypeCorrect == Spec => []TypeOK
<1>1. IInv => TypeOK
  BY DEF IInv
<1> QED
  BY <1>1, Invariance, PTL

(* num_clients counts the clients run_server has to wait for, whatever     *)
(* threads count them in and out and however they end (serve, run_server). *)
THEOREM CountIsExact == Spec => []ClientsCounted
<1>1. IInv => ClientsCounted
  BY DEF IInv, CountInv, ClientsCounted, Listening
<1> QED
  BY <1>1, Invariance, PTL

(* No session and no video thread outlives stop(), but for a video thread  *)
(* orphaned by a panic (stop, wait, run_server).                           *)
LEMMA NothingIsLeft == Spec => []StopLeavesNothing
<1>1. IInv => StopLeavesNothing
  BY DEF IInv, TypeOK, ThreadsInStep, NoSessionsWithoutServer, VideoOwned,
         StopLeavesNothing, Sessions
<1> QED
  BY <1>1, Invariance, PTL

(* A server that was started serves until stop() is called: no earlier     *)
(* notification ends it (notify_one in stop, notified in run_server).      *)
LEMMA NoStaleShutdown == Spec => []RunningMeansServing
<1>1. IInv => RunningMeansServing
  BY DEF IInv, ThreadsInStep, RunningMeansServing
<1> QED
  BY <1>1, Invariance, PTL

(* What Rylus shows is so: started, it serves; stopped, nothing is left    *)
(* (StateIsShown).                                                         *)
THEOREM StopIsComplete == Spec => []StateIsShown
<1>1. RunningMeansServing /\ StopLeavesNothing => StateIsShown
  BY DEF StateIsShown
<1> QED
  BY <1>1, NothingIsLeft, NoStaleShutdown, PTL

--------------------------------------------------------------------------------
(* The refinement.                                                         *)

(* A step that moves no client in or out of its session leaves Sessions.   *)
LEMMA SessionsAfterSet ==
  ASSUME TypeOK, NEW c \in Clients, NEW s, client' = [client EXCEPT ![c] = s]
  PROVE  /\ (client[c] \in InSession <=> s \in InSession) => Sessions' = Sessions
         /\ s \in InSession => Sessions' = Sessions \cup {c}
         /\ s \notin InSession => Sessions' = Sessions \ {c}
  BY DEF TypeOK, Sessions

(* Every step of the server is a step of ServerService or leaves it alone. *)
LEMMA StepRefines ==
  ASSUME IInv, [Next]_vars
  PROVE  [Service!Next]_(Service!vars)
<1> USE DEF IInv, TypeOK, ThreadsInStep, mainVars, webVars, connVars, countVars,
            sessionVars, uiVars
<1>1. ASSUME Power' = Power, Sessions' = Sessions PROVE [Service!Next]_(Service!vars)
  BY <1>1 DEF Service!vars
<1>2. ASSUME client' = client PROVE Sessions' = Sessions
  BY <1>2 DEF Sessions
<1>3. CASE MainNext
  <2>1. CASE Start
    <3>1. Sessions' = Sessions
      BY <2>1 DEF Start, Sessions, InSession
    <3>2. Power' = Power
      BY <2>1, ClickedAt DEF Start, Power, Listening
    <3> QED
      BY <1>1, <3>1, <3>2
  <2>2. CASE Started \/ StartFailed \/ JoinWeb \/ Exit
    <3>1. Power' = Power /\ client' = client
      BY <2>2 DEF Started, StartFailed, JoinWeb, Exit, Power, Listening
    <3> QED
      BY <1>1, <1>2, <3>1
  <2>3. CASE Stop
    <3>1. Power = "on" /\ Power' = "stopping" /\ client' = client
      BY <2>3, ClickedAt DEF Stop, Power
    <3> QED
      BY <1>2, <3>1 DEF Service!Next, Service!Stop
  <2>4. CASE JoinUi
    <3>1. Power = "stopping" /\ Power' = "off" /\ client' = client
      BY <2>4 DEF JoinUi, Power
    <3>2. Sessions = {}
      BY <2>4 DEF JoinUi, UiInStep, SenderHeld, Sessions
    <3> QED
      BY <1>2, <3>1, <3>2 DEF Service!Next, Service!Stopped
  <2> QED
    BY <1>3, <2>1, <2>2, <2>3, <2>4 DEF MainNext
<1>4. CASE WebNext
  <2>1. CASE Bind
    <3>a. web = "bind" /\ main = "starting"
      BY <2>1 DEF Bind, MainStates, Listening
    <3>1. /\ client' = client /\ main' = main /\ main = "starting" /\ web = "bind"
          /\ web' \in {"accept", "failed"}
      BY <2>1, <3>a DEF Bind, WebOnly
    <3>2. Power = "off"
      BY <3>1 DEF Power, Listening
    <3>3. Power' \in {"off", "on"}
      BY <3>1 DEF Power, Listening
    <3> QED
      BY <1>1, <1>2, <3>1, <3>2, <3>3 DEF Service!Next, Service!Start
  <2>2. CASE DropRuntime
    <3>1. Sessions' = Sessions
      BY <2>2 DEF DropRuntime, Sessions, InSession
    <3>2. Power' = Power
      BY <2>2 DEF DropRuntime, Power, Listening
    <3> QED
      BY <1>1, <3>1, <3>2
  <2>3. CASE ShutdownSeen \/ FirstPermits \/ LoadClients \/ WaitForDisconnect \/ TimerFires
    <3>1. Power' = Power /\ client' = client
      BY <2>3 DEF ShutdownSeen, FirstPermits, LoadClients, WaitForDisconnect, TimerFires,
                  WebOnly, AddPermits, Power, Listening, PermitIsForThisServer
    <3> QED
      BY <1>1, <1>2, <3>1
  <2> QED
    BY <1>4, <2>1, <2>2, <2>3 DEF WebNext
<1>5. ASSUME NEW c \in Clients, ConnNext(c) PROVE [Service!Next]_(Service!vars)
  <2>1. Power' = Power
    BY <1>5 DEF ConnNext, Connect, Accept, HandshakeDone, HandshakeFails, Handshake,
                TaskStarts, Upgrade, HandOver, CloseConn, CloseTold, Power, Listening
  <2>2. client' = client \/ \E s \in {"pending", "ready", "failed", client[c]} :
                              /\ client' = [client EXCEPT ![c] = s]
                              /\ client[c] \in InSession <=> s \in InSession
    BY <1>5 DEF ConnNext, Connect, Accept, HandshakeDone, HandshakeFails, Handshake,
                TaskStarts, Upgrade, HandOver, CloseConn, CloseTold, SetClient, InSession
  <2> QED
    BY <1>1, <1>2, <2>1, <2>2, SessionsAfterSet
<1>6. ASSUME NEW c \in Clients, ClientNext(c) PROVE [Service!Next]_(Service!vars)
  <2>1. Power' = Power
    BY <1>6 DEF ClientNext, SpawnHandler, ReportUInput, SendReport, PeerLeaves,
                SessionReleased, HandlerPanics, VideoEnds, JoinVideo, CountOut,
                NotifyDisconnect, ClientOnly, Power, Listening
  <2>2. CASE SpawnHandler(c)
    <3>1. c \notin Sessions /\ Sessions' = Sessions \cup {c}
      BY <2>2, SessionsAfterSet DEF SpawnHandler, SetClient, InSession, Sessions
    <3>2. Power # "off"
      BY <2>2 DEF SpawnHandler, RuntimeUp, Power, Listening, MainStates
    <3> QED
      BY <2>1, <3>1, <3>2 DEF Service!Next, Service!Begin
  <2>3. CASE HandlerPanics(c) \/ JoinVideo(c)
    <3>1. c \in Sessions /\ Sessions' = Sessions \ {c}
      BY <2>3, SessionsAfterSet DEF HandlerPanics, JoinVideo, ClientOnly, SetClient,
                                    InSession, Sessions
    <3> QED
      BY <2>1, <3>1 DEF Service!Next, Service!End
  <2>4. CASE VideoEnds(c)
    BY <1>1, <1>2, <2>1, <2>4 DEF VideoEnds
  <2>5. CASE \/ ReportUInput(c) \/ SendReport(c) \/ PeerLeaves(c) \/ SessionReleased(c)
             \/ CountOut(c) \/ NotifyDisconnect(c)
    <3>1. \E s \in {"reporting", "running", "joining", "counted", "gone"} :
             /\ client' = [client EXCEPT ![c] = s]
             /\ client[c] \in InSession <=> s \in InSession
      BY <2>5 DEF ReportUInput, SendReport, PeerLeaves, SessionReleased, CountOut,
                  NotifyDisconnect, ClientOnly, SetClient, InSession
    <3> QED
      BY <1>1, <2>1, <3>1, SessionsAfterSet
  <2> QED
    BY <1>6, <2>2, <2>3, <2>4, <2>5 DEF ClientNext
<1>7. CASE UiTakes \/ UiEnds \/ UNCHANGED vars
  <2>1. Power' = Power /\ client' = client
    BY <1>7 DEF UiTakes, UiEnds, vars, Power
  <2> QED
    BY <1>1, <1>2, <2>1
<1> QED
  BY <1>3, <1>4, <1>5, <1>6, <1>7 DEF Next

(* Rylus and run_server implement ServerService: when stop() has returned  *)
(* there is no session, and none begins before the next start.             *)
THEOREM ImplementsService == Spec => ServiceRefines
<1>1. Init => Service!Init
  BY DEF Init, Service!Init, Power, Sessions, InSession
<1>2. IInv /\ [Next]_vars => [Service!Next]_(Service!vars)
  BY StepRefines
<1> QED
  BY <1>1, <1>2, Invariance, PTL DEF Spec, ServiceRefines, Service!Spec
================================================================================
