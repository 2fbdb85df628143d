-------------------------- MODULE ClientSessionProofs --------------------------
(***************************************************************************)
(* Theorems about Reconnect, for any number of attempts and any names of   *)
(* sockets, and about ClientSession, which adds to it what the page and    *)
(* the server tell each other: for any windows and any number of messages  *)
(* under way.                                                              *)
(***************************************************************************)
EXTENDS ClientSession, TLAPS, SequenceTheorems, FiniteSetTheorems

--------------------------------------------------------------------------------
(* The inductive invariant of Reconnect.                                   *)

(* The count never passes the limit while an attempt may still come.       *)
CountInv == reconnecting => attempt \in 1 .. MaxAttempts

(* As long as the page's first socket lives there is nothing to reconnect. *)
FirstNeedsNoRetry == Alive(First) => ~reconnecting /\ banner = "none"

(* The variable knows of every interval, and an open socket has one.       *)
BeatInv ==
  /\ beats = IF heartbeat THEN 1 ELSE 0
  /\ socket[active] = "open" => heartbeat

IInv ==
  /\ TypeOK
  /\ OneSocket
  /\ BannerTellsTheState
  /\ CountInv
  /\ FirstNeedsNoRetry
  /\ BeatInv
  /\ NoLoopLeftOver

(* IInv holds initially.                                                   *)
LEMMA InitEstablishesIInv == Init => IInv
<1> USE ReconnectAssumption
<1> SUFFICES ASSUME Init PROVE IInv
  OBVIOUS
<1>1. TypeOK
  <2>1. socket \in [Sockets -> {"unused", "connecting", "open", "closed"}]
    BY DEF Init
  <2>2. active \in Sockets /\ attempt \in 0 .. MaxAttempts + 1
    BY DEF Init, Sockets
  <2> QED
    BY <2>1, <2>2 DEF Init, TypeOK
<1>2. OneSocket
  BY DEF Init, OneSocket, Alive, Sockets
<1>3. BannerTellsTheState
  BY DEF Init, BannerTellsTheState, Alive, Sockets
<1>4. CountInv /\ FirstNeedsNoRetry /\ NoLoopLeftOver
  BY DEF Init, CountInv, FirstNeedsNoRetry, NoLoopLeftOver
<1>5. BeatInv
  BY DEF Init, BeatInv, Sockets
<1> QED
  BY <1>1, <1>2, <1>3, <1>4, <1>5 DEF IInv

--------------------------------------------------------------------------------
(* What an action does to the parts of the invariant it does not touch.    *)

(* The connection, the reconnection and the heartbeat are as they were.    *)
LEMMA OnlyPainterChanges ==
  ASSUME IInv,
         UNCHANGED <<connVars, retryVars, beatVars>>,
         NewPointerHandler(energysaving'),
         connected' \in BOOLEAN, energysaving' \in BOOLEAN
  PROVE  IInv'
<1> USE ReconnectAssumption DEF IInv, connVars, retryVars, beatVars
<1>1. TypeOK' /\ NoLoopLeftOver'
  BY DEF TypeOK, NewPointerHandler, NoLoopLeftOver
<1>2. OneSocket' /\ FirstNeedsNoRetry' /\ BannerTellsTheState'
  BY DEF OneSocket, FirstNeedsNoRetry, BannerTellsTheState, Alive
<1>3. CountInv' /\ BeatInv'
  BY DEF CountInv, BeatInv
<1> QED
  BY <1>1, <1>2, <1>3

(* A new attempt is scheduled after the last connection or attempt ended.  *)
LEMMA ScheduleKeeps ==
  ASSUME TypeOK, NEW tried \in 0 .. MaxAttempts,
         Schedule(tried), ~Alive(active)',
         \A s \in Sockets : ~Alive(s)'
  PROVE  /\ attempt' \in 0 .. MaxAttempts + 1 /\ reconnecting' \in BOOLEAN
         /\ timer' \in BOOLEAN /\ banner' \in {"countdown", "failed"} /\ dismissed' = FALSE
         /\ OneSocket' /\ BannerTellsTheState' /\ CountInv' /\ FirstNeedsNoRetry'
<1> USE ReconnectAssumption DEF Schedule
<1>1. OneSocket' /\ FirstNeedsNoRetry'
  BY DEF OneSocket, FirstNeedsNoRetry, Alive, Sockets
<1>2. BannerTellsTheState'
  BY DEF BannerTellsTheState, Alive
<1>3. CountInv'
  BY DEF CountInv, TypeOK
<1>4. attempt' \in 0 .. MaxAttempts + 1
  OBVIOUS
<1>5. CASE tried + 1 > MaxAttempts
  BY <1>1, <1>2, <1>3, <1>4, <1>5
<1>6. CASE ~(tried + 1 > MaxAttempts)
  BY <1>1, <1>2, <1>3, <1>4, <1>6
<1> QED
  BY <1>5, <1>6

(* attempt_reconnect keeps IInv: it runs only when no socket is alive.     *)
LEMMA AttemptKeeps ==
  ASSUME IInv, AttemptReconnect, timer \/ banner = "countdown"
  PROVE  IInv'
<1> USE ReconnectAssumption DEF IInv
<1>1. timer /\ reconnecting /\ banner = "countdown" /\ \A s \in Sockets : ~Alive(s)
  BY DEF BannerTellsTheState, OneSocket, TypeOK
<1>2. PICK s \in Later : /\ s # active /\ ~Alive(s)
                         /\ socket' = [socket EXCEPT ![s] = "connecting"]
                         /\ active' = s
  BY DEF AttemptReconnect
<1>3. /\ banner' = "trying" /\ timer' = FALSE
      /\ UNCHANGED <<attempt, reconnecting, dismissed, heartbeat, beats, connected,
                     painter, loops, energysaving>>
  BY DEF AttemptReconnect, ShowTrying, beatVars, painterVars
<1>4. TypeOK'
  BY <1>2, <1>3 DEF TypeOK, Sockets
<1>5. OneSocket'
  BY <1>1, <1>2, <1>3, <1>4 DEF OneSocket, Alive, TypeOK, Sockets
<1>6. socket'[active'] = "connecting"
  BY <1>2 DEF TypeOK, Sockets
<1>7. BannerTellsTheState' /\ BeatInv'
  BY <1>1, <1>3, <1>6 DEF BannerTellsTheState, BeatInv, Alive
<1>8. FirstNeedsNoRetry'
  BY <1>1, <1>2 DEF FirstNeedsNoRetry, Alive, TypeOK, Sockets
<1>9. CountInv' /\ NoLoopLeftOver'
  BY <1>3 DEF CountInv, NoLoopLeftOver
<1> QED
  BY <1>4, <1>5, <1>7, <1>8, <1>9

--------------------------------------------------------------------------------
(* The callbacks of the sockets.                                           *)

(* onopen keeps IInv, of the first socket and of a later one.              *)
LEMMA OpenKeeps ==
  ASSUME IInv, FirstOpens \/ \E s \in Later : LaterOpens(s)
  PROVE  IInv'
<1> USE ReconnectAssumption DEF IInv
<1>1. PICK s \in Sockets :
        /\ socket[s] = "connecting"
        /\ socket' = [socket EXCEPT ![s] = "open"]
        /\ active' = s /\ active = s
        /\ reconnecting' = FALSE /\ banner' = "none" /\ timer' = FALSE
        /\ attempt' \in 0 .. MaxAttempts + 1 /\ dismissed' \in BOOLEAN
  <2>1. CASE FirstOpens
    BY <2>1 DEF FirstOpens, OneSocket, FirstNeedsNoRetry, Alive, TypeOK, Sockets,
                retryVars, BannerTellsTheState
  <2>2. ASSUME NEW s \in Later, LaterOpens(s)
        PROVE  /\ s \in Sockets /\ socket[s] = "connecting"
               /\ socket' = [socket EXCEPT ![s] = "open"]
               /\ active' = s /\ active = s
               /\ reconnecting' = FALSE /\ banner' = "none" /\ timer' = FALSE
               /\ attempt' \in 0 .. MaxAttempts + 1 /\ dismissed' \in BOOLEAN
    <3>1. dismissed' = FALSE
      BY <2>2 DEF LaterOpens
    <3>2. dismissed' \in BOOLEAN
      BY <3>1
    <3>3. attempt' \in 0 .. MaxAttempts + 1 /\ banner' = "none" /\ active' = s
          /\ socket' = [socket EXCEPT ![s] = "open"] /\ timer' = FALSE
          /\ reconnecting' = FALSE
      BY <2>2 DEF LaterOpens
    <3>4. s \in Sockets /\ socket[s] = "connecting" /\ active = s
      BY <2>2 DEF LaterOpens, OneSocket, Alive, Sockets
    <3> QED
      BY <3>2, <3>3, <3>4
  <2> QED
    BY <2>1, <2>2
<1>2. StartHeartbeat /\ UNCHANGED <<connected, painter, loops, energysaving>>
  BY DEF FirstOpens, LaterOpens, painterVars
<1>3. BeatInv'
  BY <1>2 DEF BeatInv, StartHeartbeat, TypeOK
<1>4. TypeOK'
  <2>1. socket' \in [Sockets -> {"unused", "connecting", "open", "closed"}]
    BY <1>1 DEF TypeOK
  <2>2. heartbeat' \in BOOLEAN /\ beats' \in Nat
    BY <1>2 DEF StartHeartbeat, BeatInv
  <2> QED
    BY <1>1, <1>2, <2>1, <2>2 DEF TypeOK
<1>5. OneSocket'
  BY <1>1 DEF OneSocket, Alive, TypeOK
<1>6. BannerTellsTheState' /\ CountInv' /\ FirstNeedsNoRetry'
  BY <1>1 DEF BannerTellsTheState, CountInv, FirstNeedsNoRetry, TypeOK, Alive
<1>7. NoLoopLeftOver'
  BY <1>2 DEF NoLoopLeftOver
<1> QED
  BY <1>3, <1>4, <1>5, <1>6, <1>7

(* The first socket's close keeps IInv: it was the only one, and its loss  *)
(* starts the count.                                                       *)
LEMMA FirstCloseKeeps ==
  ASSUME IInv, FirstCloses
  PROVE  IInv'
<1> USE ReconnectAssumption DEF IInv
<1>1. /\ active = First /\ ~reconnecting /\ active' = First
      /\ socket' = [socket EXCEPT ![First] = "closed"]
      /\ Schedule(0)
  BY DEF FirstCloses, OneSocket, FirstNeedsNoRetry, Sockets
<1>2. \A s \in Sockets : ~Alive(s)'
  BY <1>1 DEF OneSocket, Alive, TypeOK
<1>3. /\ attempt' \in 0 .. MaxAttempts + 1 /\ reconnecting' \in BOOLEAN
      /\ timer' \in BOOLEAN /\ banner' \in {"countdown", "failed"} /\ dismissed' = FALSE
      /\ OneSocket' /\ BannerTellsTheState' /\ CountInv' /\ FirstNeedsNoRetry'
  <2>1. 0 \in 0 .. MaxAttempts /\ ~Alive(active)'
    BY <1>1, <1>2 DEF Sockets
  <2> QED
    BY <1>1, <1>2, <2>1, ScheduleKeeps
<1>4. StopHeartbeat /\ DestroyPainter /\ UNCHANGED <<connected, energysaving>>
  BY DEF FirstCloses
<1>5. BeatInv'
  <2>1. socket'[active'] = "closed"
    BY <1>1 DEF TypeOK, Sockets
  <2> QED
    BY <1>4, <2>1 DEF BeatInv, StopHeartbeat, TypeOK
<1>6. NoLoopLeftOver'
  BY <1>4 DEF NoLoopLeftOver, DestroyPainter, TypeOK
<1>7. TypeOK'
  <2>1. socket' \in [Sockets -> {"unused", "connecting", "open", "closed"}]
    BY <1>1 DEF TypeOK
  <2>2. heartbeat' = FALSE /\ beats' = 0
    BY <1>4 DEF StopHeartbeat, BeatInv, TypeOK
  <2>3. painter' \in {"none", "running", "destroyed"} /\ loops' \in Nat
    BY <1>4, <1>6 DEF DestroyPainter, NoLoopLeftOver
  <2> QED
    BY <1>1, <1>3, <1>4, <2>1, <2>2, <2>3 DEF TypeOK
<1> QED
  BY <1>3, <1>5, <1>6, <1>7

(* A later socket's close keeps IInv: an attempt that failed is counted on *)
(* top of those before it.                                                 *)
LEMMA LaterCloseKeeps ==
  ASSUME IInv, NEW s \in Later, LaterCloses(s)
  PROVE  IInv'
<1> USE ReconnectAssumption DEF IInv
<1>1. /\ active = s /\ active' = s
      /\ socket' = [socket EXCEPT ![s] = "closed"]
      /\ Schedule(TriedSoFar)
      /\ UNCHANGED <<heartbeat, beats, connected, painter, loops, energysaving>>
  BY DEF LaterCloses, OneSocket, Sockets, beatVars, painterVars
<1>2. \A r \in Sockets : ~Alive(r)'
  BY <1>1 DEF OneSocket, Alive, TypeOK
<1>3. /\ attempt' \in 0 .. MaxAttempts + 1 /\ reconnecting' \in BOOLEAN
      /\ timer' \in BOOLEAN /\ banner' \in {"countdown", "failed"} /\ dismissed' = FALSE
      /\ OneSocket' /\ BannerTellsTheState' /\ CountInv' /\ FirstNeedsNoRetry'
  <2>1. TriedSoFar \in 0 .. MaxAttempts
    BY DEF TriedSoFar, CountInv
  <2>2. ~Alive(active)'
    BY <1>1, <1>2 DEF Sockets
  <2> QED
    BY <1>1, <1>2, <2>1, <2>2, ScheduleKeeps
<1>4. socket'[active'] = "closed"
  BY <1>1 DEF TypeOK, Sockets
<1>5. BeatInv' /\ NoLoopLeftOver'
  BY <1>1, <1>4 DEF BeatInv, NoLoopLeftOver
<1>6. TypeOK'
  BY <1>1, <1>3 DEF TypeOK
<1> QED
  BY <1>3, <1>5, <1>6

--------------------------------------------------------------------------------
(* Every step keeps IInv.                                                  *)
LEMMA NextKeepsIInv == IInv /\ [Next]_vars => IInv'
<1> USE ReconnectAssumption
<1> SUFFICES ASSUME IInv, [Next]_vars PROVE IInv'
  OBVIOUS
<1>1. CASE FirstOpens \/ \E s \in Later : LaterOpens(s)
  BY <1>1, OpenKeeps
<1>2. CASE FirstCloses
  BY <1>2, FirstCloseKeeps
<1>3. CASE \E s \in Later : LaterCloses(s)
  BY <1>3, LaterCloseKeeps
<1>4. CASE TimerFires \/ RetryNow
  BY <1>4, AttemptKeeps DEF TimerFires, RetryNow
<1>5. CASE TryAgain
  <2>1. /\ Schedule(0) /\ UNCHANGED <<socket, active, heartbeat, beats, connected,
                                      painter, loops, energysaving>>
    BY <1>5 DEF TryAgain, connVars, beatVars, painterVars
  <2>2. ~Alive(active)' /\ \A s \in Sockets : ~Alive(s)'
    BY <1>5, <2>1 DEF TryAgain, IInv, BannerTellsTheState, OneSocket, Alive
  <2>3. /\ attempt' \in 0 .. MaxAttempts + 1 /\ reconnecting' \in BOOLEAN
        /\ timer' \in BOOLEAN /\ banner' \in {"countdown", "failed"} /\ dismissed' = FALSE
        /\ OneSocket' /\ BannerTellsTheState' /\ CountInv' /\ FirstNeedsNoRetry'
    <3>1. 0 \in 0 .. MaxAttempts
      OBVIOUS
    <3> QED
      BY <2>1, <2>2, <3>1, ScheduleKeeps DEF IInv
  <2>4. TypeOK' /\ BeatInv' /\ NoLoopLeftOver'
    BY <2>1, <2>3 DEF IInv, TypeOK, BeatInv, NoLoopLeftOver
  <2> QED
    BY <2>3, <2>4 DEF IInv
<1>6. CASE Dismiss
  BY <1>6 DEF Dismiss, IInv, TypeOK, OneSocket, BannerTellsTheState, CountInv,
              FirstNeedsNoRetry, BeatInv, NoLoopLeftOver, Alive, connVars,
              beatVars, painterVars
<1>7. ASSUME NEW s \in Sockets, ConfigOk(s) PROVE IInv'
  <2>1. /\ UNCHANGED <<connVars, retryVars, beatVars>>
        /\ energysaving' = energysaving
        /\ energysaving' \in BOOLEAN /\ connected' \in BOOLEAN
    BY <1>7 DEF ConfigOk, IInv, TypeOK
  <2>2. CASE NewPointerHandler(energysaving)
    BY <2>1, <2>2, OnlyPainterChanges
  <2>3. CASE UNCHANGED <<painter, loops>>
    BY <2>1, <2>3 DEF IInv, TypeOK, OneSocket, BannerTellsTheState, CountInv,
              FirstNeedsNoRetry, BeatInv, NoLoopLeftOver, Alive, connVars,
              retryVars, beatVars
  <2> QED
    BY <1>7, <2>2, <2>3 DEF ConfigOk
<1>8. CASE PointerTypeToggled \/ EnergySavingToggled
  BY <1>8, OnlyPainterChanges DEF PointerTypeToggled, EnergySavingToggled, IInv, TypeOK
<1>9. CASE UNCHANGED vars
  BY <1>9 DEF vars, IInv, TypeOK, OneSocket, BannerTellsTheState, CountInv,
              FirstNeedsNoRetry, BeatInv, NoLoopLeftOver, Alive, connVars,
              retryVars, beatVars, painterVars
<1> QED
  BY <1>1, <1>2, <1>3, <1>4, <1>5, <1>6, <1>7, <1>8, <1>9 DEF Next, SocketSettles

LEMMA IInvHolds == Spec => []IInv
  BY InitEstablishesIInv, NextKeepsIInv, PTL DEF Spec

--------------------------------------------------------------------------------
(* Theorems.                                                               *)

(* Every variable keeps its type; the attempts stay within the limit       *)
(* (schedule_reconnect).                                                   *)
THEOREM TypeCorrect == Spec => []TypeOK
<1>1. IInv => TypeOK
  BY DEF IInv
<1> QED
  BY <1>1, IInvHolds, PTL

(* No two sockets live at once, and no timer is set that would open        *)
(* another (remove_reconnect_banner, attempt_reconnect).                   *)
THEOREM OnlyOneSocket == Spec => []OneSocket
<1>1. IInv => OneSocket
  BY DEF IInv
<1> QED
  BY <1>1, IInvHolds, PTL

(* The banner says what the reconnection is doing, and there is one unless *)
(* the connection lives or the user dismissed it.                          *)
THEOREM BannerIsTrue == Spec => []BannerTellsTheState
<1>1. IInv => BannerTellsTheState
  BY DEF IInv
<1> QED
  BY <1>1, IInvHolds, PTL

(* One heartbeat runs on an open connection, and never two                 *)
(* (start_heartbeat, stop_heartbeat).                                      *)
THEOREM OneHeartbeatRuns == Spec => []OneHeartbeat
<1>1. IInv => OneHeartbeat
  BY DEF IInv, BeatInv, OneHeartbeat
<1> QED
  BY <1>1, IInvHolds, PTL

(* No render loop is left over from a painter that was replaced            *)
(* (PointerHandler's constructor, handle_disconnect).                      *)
THEOREM LoopsAreOwned == Spec => []NoLoopLeftOver
<1>1. IInv => NoLoopLeftOver
  BY DEF IInv
<1> QED
  BY <1>1, IInvHolds, PTL

(* What each connection and each change of the settings starts anew runs   *)
(* once: OneOfEach (start_heartbeat, PointerHandler's constructor).        *)
THEOREM OneOfEachRuns == Spec => []OneOfEach
<1>1. OneHeartbeat /\ NoLoopLeftOver => OneOfEach
  BY DEF OneOfEach
<1> QED
  BY <1>1, OneHeartbeatRuns, LoopsAreOwned, PTL

--------------------------------------------------------------------------------
(* The messages under way.                                                 *)

(* Some message of q is of a type in K; the last such message is m.        *)
Has(q, K) == \E i \in DOMAIN q : q[i].type \in K

IsLast(q, K, m) ==
  \E i \in DOMAIN q :
    /\ q[i] = m
    /\ m.type \in K
    /\ \A j \in DOMAIN q : i < j => q[j].type \notin K

LEMMA NoMessages == \A K : ~Has(<<>>, K)
  BY EmptySeq DEF Has

(* What sending a message does.                                            *)
LEMMA Sent ==
  ASSUME NEW S, NEW q \in Seq(S), NEW e \in S, NEW K
  PROVE  /\ Append(q, e) \in Seq(S)
         /\ Has(Append(q, e), K) <=> Has(q, K) \/ e.type \in K
         /\ e.type \in K => IsLast(Append(q, e), K, e)
         /\ e.type \notin K => \A m : IsLast(q, K, m) => IsLast(Append(q, e), K, m)
         /\ \A m : IsLast(Append(q, e), K, m) /\ e.type \in K => m = e
         /\ \A m : IsLast(Append(q, e), K, m) /\ e.type \notin K => IsLast(q, K, m)
<1> DEFINE r == Append(q, e)
           n == Len(q)
<1>1. /\ r \in Seq(S) /\ n \in Nat
      /\ DOMAIN q = 1 .. n /\ DOMAIN r = 1 .. n + 1
      /\ r[n + 1] = e
      /\ \A i \in 1 .. n : r[i] = q[i]
  BY AppendProperties, LenProperties
<1>2. \A i \in 1 .. n + 1 : i \in 1 .. n \/ i = n + 1
  BY <1>1
<1>3. n + 1 \in 1 .. n + 1 /\ \A i \in 1 .. n : i \in 1 .. n + 1 /\ i < n + 1
  BY <1>1
<1> HIDE DEF r, n
<1>4. Has(r, K) <=> Has(q, K) \/ e.type \in K
  BY <1>1, <1>2, <1>3 DEF Has
<1>5. e.type \in K => IsLast(r, K, e)
  BY <1>1, <1>2, <1>3 DEF IsLast
<1>6. ASSUME e.type \notin K, NEW m, IsLast(q, K, m) PROVE IsLast(r, K, m)
  BY <1>1, <1>2, <1>3, <1>6 DEF IsLast
<1>7. ASSUME e.type \in K, NEW m, IsLast(r, K, m) PROVE m = e
  BY <1>1, <1>2, <1>3, <1>7 DEF IsLast
<1>8. ASSUME e.type \notin K, NEW m, IsLast(r, K, m) PROVE IsLast(q, K, m)
  BY <1>1, <1>2, <1>3, <1>8 DEF IsLast
<1> QED
  BY <1>1, <1>4, <1>5, <1>6, <1>7, <1>8 DEF r

(* What taking a message does.                                             *)
LEMMA Taken ==
  ASSUME NEW S, NEW q \in Seq(S), q # <<>>, NEW K
  PROVE  /\ Head(q) \in S /\ Tail(q) \in Seq(S)
         /\ Has(q, K) <=> Head(q).type \in K \/ Has(Tail(q), K)
         /\ Has(Tail(q), K) => \A m : IsLast(q, K, m) => IsLast(Tail(q), K, m)
         /\ \A m : IsLast(Tail(q), K, m) => IsLast(q, K, m)
         /\ ~Has(Tail(q), K) => \A m : IsLast(q, K, m) => m = Head(q)
         /\ ~Has(Tail(q), K) /\ Head(q).type \in K => IsLast(q, K, Head(q))
<1> DEFINE t == Tail(q)
           n == Len(q)
           h == Head(q)
<1>1. /\ h \in S /\ h = q[1] /\ t \in Seq(S)
      /\ n \in Nat \ {0}
      /\ DOMAIN q = 1 .. n /\ DOMAIN t = 1 .. n - 1
      /\ \A i \in 1 .. n - 1 : t[i] = q[i + 1]
  BY HeadTailProperties, LenProperties, EmptySeq
<1>2. \A i \in 1 .. n : i = 1 \/ (i - 1 \in 1 .. n - 1 /\ q[i] = t[i - 1])
  BY <1>1
<1>3. 1 \in 1 .. n /\ \A i \in 1 .. n - 1 : i + 1 \in 1 .. n
  BY <1>1
<1> HIDE DEF t, n, h
<1>4. Has(q, K) <=> h.type \in K \/ Has(t, K)
  BY <1>1, <1>2, <1>3 DEF Has
<1>5. ASSUME Has(t, K), NEW m, IsLast(q, K, m) PROVE IsLast(t, K, m)
  <2> PICK i \in 1 .. n : /\ q[i] = m
                          /\ m.type \in K
                          /\ \A j \in 1 .. n : i < j => q[j].type \notin K
    BY <1>1, <1>5 DEF IsLast
  <2>1. i # 1
    <3> SUFFICES ASSUME i = 1 PROVE FALSE
      OBVIOUS
    <3> PICK k \in 1 .. n - 1 : t[k].type \in K
      BY <1>1, <1>5 DEF Has
    <3> QED
      BY <1>1, <1>3
  <2>2. i - 1 \in 1 .. n - 1 /\ t[i - 1] = m
    BY <1>2, <2>1
  <2>3. \A j \in 1 .. n - 1 : i - 1 < j => t[j].type \notin K
    BY <1>1, <1>3
  <2> QED
    BY <1>1, <2>2, <2>3 DEF IsLast
<1>6. ASSUME NEW m, IsLast(t, K, m) PROVE IsLast(q, K, m)
  <2> PICK i \in 1 .. n - 1 : /\ t[i] = m
                              /\ m.type \in K
                              /\ \A j \in 1 .. n - 1 : i < j => t[j].type \notin K
    BY <1>1, <1>6 DEF IsLast
  <2>1. i + 1 \in 1 .. n /\ q[i + 1] = m
    BY <1>1, <1>3
  <2>2. \A j \in 1 .. n : i + 1 < j => q[j].type \notin K
    BY <1>1, <1>2
  <2> QED
    BY <1>1, <2>1, <2>2 DEF IsLast
<1>7. ASSUME ~Has(t, K), NEW m, IsLast(q, K, m) PROVE m = h
  BY ZenonT(60), <1>1, <1>2, <1>7 DEF IsLast, Has
<1>8. ASSUME ~Has(t, K), h.type \in K PROVE IsLast(q, K, h)
  <2>1. \A j \in 1 .. n - 1 : t[j].type \notin K
    BY <1>1, <1>8 DEF Has
  <2>2. \A j \in 1 .. n : 1 < j => q[j].type \notin K
    BY <1>1, <1>2, <2>1
  <2> QED
    BY <1>1, <1>3, <1>8, <2>2 DEF IsLast
<1>9. h \in S /\ t \in Seq(S)
  BY <1>1
<1> USE DEF t, h
<1> QED
  BY <1>4, <1>5, <1>6, <1>7, <1>8, <1>9

(* The kinds of messages.                                                  *)
Asked == {GetList, Pause, Resume} \cup {Config(id) : id \in Nat}
Answers ==
  {Answer("ConfigOk"), Answer("Error")} \cup {CapturableList(names) : names \in Seq(Nat)}
Orders == {Pause, Resume} \cup {Start(source) : source \in Nat}

LEMMA Kinds ==
  /\ GetList.type = "GetCapturableList"
  /\ Pause.type = "PauseVideo" /\ Resume.type = "ResumeVideo" /\ Pause # Resume
  /\ \A id : Config(id).type = "Config" /\ Config(id).id = id
  /\ \A source : Start(source).type = "Start" /\ Start(source).source = source
  /\ \A names : /\ CapturableList(names).type = "CapturableList"
                /\ CapturableList(names).names = names
  /\ \A type : Answer(type).type = type
<1> USE DEF GetList, Pause, Resume, Config, Start, CapturableList, Answer
<1>1. Pause.type # Resume.type
  OBVIOUS
<1> QED
  BY <1>1

LEMMA Members ==
  /\ GetList \in Asked /\ Pause \in Asked /\ Resume \in Asked
  /\ \A id \in Nat : Config(id) \in Asked
  /\ Answer("ConfigOk") \in Answers /\ Answer("Error") \in Answers
  /\ \A names \in Seq(Nat) : CapturableList(names) \in Answers
  /\ Pause \in Orders /\ Resume \in Orders
  /\ \A source \in Nat : Start(source) \in Orders
  /\ \A m \in Asked : \/ m \in {GetList, Pause, Resume}
                      \/ \E id \in Nat : m = Config(id)
  /\ \A m \in Answers : \/ m \in {Answer("ConfigOk"), Answer("Error")}
                        \/ \E names \in Seq(Nat) : m = CapturableList(names)
  /\ \A m \in Orders : \/ m \in {Pause, Resume}
                       \/ \E source \in Nat : m = Start(source)
  BY DEF Asked, Answers, Orders

--------------------------------------------------------------------------------
(* The connection.                                                         *)

(* Each step of the session is one of the connection, or none of its.      *)
LEMMA StepsAreTheConnections ==
  ASSUME TypeOK, [SessionNext]_allVars
  PROVE  [Next]_vars
<1>1. CASE ConnectionOpens
  BY <1>1 DEF ConnectionOpens, Next, SocketSettles
<1>2. CASE ConnectionCloses
  BY <1>2 DEF ConnectionCloses, Next, SocketSettles
<1>3. CASE ConnectionRetried \/ ConnectionButton
  BY <1>3 DEF ConnectionRetried, ConnectionButton, Next
<1>4. CASE HearsConfigOk
  BY <1>4 DEF HearsConfigOk, TypeOK, Next
<1>5. CASE EnergySaved
  BY <1>5 DEF EnergySaved, Next
<1>6. CASE UNCHANGED vars
  BY <1>6
<1>7. CASE \/ \E i \in 1 .. Cardinality(Fixed \cup Transient) + 1 : Select(i)
           \/ Refresh \/ VideoToggled \/ VisibilityChanges
           \/ HearsList \/ HearsError \/ GetsList \/ GetsConfig \/ GetsSwitch
           \/ VideoStarts \/ VideoSwitches \/ GivesUp \/ WindowOpensOrCloses
  <2>1. UNCHANGED vars
    BY <1>7 DEF Select, Refresh, VideoToggled, VisibilityChanges, HearsList, HearsError,
       GetsList, GetsConfig, GetsSwitch, VideoStarts, VideoSwitches, GivesUp,
       WindowOpensOrCloses
  <2> QED
    BY <2>1
<1>8. CASE UNCHANGED allVars
  BY <1>8 DEF allVars
<1> QED
  BY <1>1, <1>2, <1>3, <1>4, <1>5, <1>7, <1>8 DEF SessionNext

(* The connection's invariant holds of the session.                        *)
LEMMA ConnectionInvariant == SessionSpec => []IInv
<1>1. SessionInit => IInv
  BY InitEstablishesIInv DEF SessionInit
<1>2. IInv /\ [SessionNext]_allVars => IInv'
  BY StepsAreTheConnections, NextKeepsIInv DEF IInv
<1> QED
  BY <1>1, <1>2, PTL DEF SessionSpec

(* The session implements the connection: what is proved of Reconnect      *)
(* holds under whatever a client and its session say to each other         *)
(* (ts/lib.ts init, attempt_reconnect).                                    *)
THEOREM SessionImplementsConnection == SessionSpec => Spec
<1>1. SessionInit => Init
  BY DEF SessionInit
<1>2. IInv /\ [SessionNext]_allVars => [Next]_vars
  BY StepsAreTheConnections DEF IInv
<1> QED
  BY <1>1, <1>2, ConnectionInvariant, PTL DEF SessionSpec, Spec

(* With the fairness of Reconnect it implements that, too, so that a loss  *)
(* is resolved if Reconnect resolves it (schedule_reconnect).              *)
THEOREM SessionImplementsLiveConnection == SessionLiveSpec => LiveSpec
  BY SessionImplementsConnection DEF SessionLiveSpec, LiveSpec

(* One socket at a time in the session, as well                            *)
(* (attempt_reconnect, onclose).                                           *)
THEOREM SessionHasOneSocket == SessionSpec => []OneSocket
<1>1. IInv => OneSocket
  BY DEF IInv
<1> QED
  BY <1>1, ConnectionInvariant, PTL

(* The server is told nothing, and knows nothing, while the connection is  *)
(* not open.                                                               *)
ClosedKnowsNothing ==
  ~Open => /\ up = <<>> /\ down = <<>> /\ cmds = <<>>
           /\ device = Nothing /\ recorder = Nothing
           /\ paused = FALSE

(* When the connection opens or closes.                                    *)
LEMMA OpenChanges ==
  ASSUME IInv, SessionNext
  PROVE  \/ ConnectionOpens /\ ~Open /\ Open'
         \/ ConnectionCloses /\ ~Open'
         \/ ~ConnectionOpens /\ ~ConnectionCloses /\ (Open' <=> Open)
<1> USE DEF Open
<1>1. ASSUME ConnectionOpens PROVE ~Open /\ Open'
  <2>1. PICK s \in Sockets : /\ socket[s] = "connecting"
                             /\ socket' = [socket EXCEPT ![s] = "open"]
                             /\ active' \in {active, s}
    BY <1>1 DEF ConnectionOpens, FirstOpens, LaterOpens, Sockets
  <2>2. s = active /\ socket \in [Sockets -> {"unused", "connecting", "open", "closed"}]
    BY <2>1 DEF IInv, TypeOK, OneSocket, Alive
  <2> QED
    BY <2>1, <2>2
<1>2. ASSUME ConnectionCloses PROVE ~Open'
  <2>1. PICK s \in Sockets : /\ Alive(s)
                             /\ socket' = [socket EXCEPT ![s] = "closed"]
                             /\ active' = active
    BY <1>2 DEF ConnectionCloses, FirstCloses, LaterCloses, Sockets
  <2>2. s = active /\ socket \in [Sockets -> {"unused", "connecting", "open", "closed"}]
    BY <2>1 DEF IInv, TypeOK, OneSocket
  <2> QED
    BY <2>1, <2>2
<1>3. ASSUME AttemptReconnect, timer PROVE ~Open /\ ~Open'
  <2>1. ~Open
    BY <1>3 DEF IInv, TypeOK, OneSocket, Alive
  <2>2. PICK s \in Later : socket' = [socket EXCEPT ![s] = "connecting"] /\ active' = s
    BY <1>3 DEF AttemptReconnect
  <2>3. socket \in [Sockets -> {"unused", "connecting", "open", "closed"}] /\ s \in Sockets
    BY DEF IInv, TypeOK, Sockets
  <2> QED
    BY <2>1, <2>2, <2>3
<1>4. ASSUME ConnectionRetried \/ ConnectionButton PROVE Open' <=> Open
  <2>1. CASE TimerFires \/ RetryNow
    BY <1>3, <2>1 DEF TimerFires, RetryNow, IInv, BannerTellsTheState
  <2>2. CASE TryAgain \/ Dismiss \/ PointerTypeToggled
    BY <2>2 DEF TryAgain, Dismiss, PointerTypeToggled, connVars
  <2> QED
    BY <1>4, <2>1, <2>2 DEF ConnectionRetried, ConnectionButton
<1>5. CASE HearsConfigOk \/ EnergySaved
  <2>1. UNCHANGED connVars
    BY <1>5 DEF HearsConfigOk, ConfigOk, EnergySaved, EnergySavingToggled
  <2> QED
    BY <1>1, <1>2, <2>1 DEF connVars
<1>6. CASE \/ \E i \in 1 .. Cardinality(Fixed \cup Transient) + 1 : Select(i)
           \/ Refresh \/ VideoToggled \/ VisibilityChanges
           \/ HearsList \/ HearsError \/ GetsList \/ GetsConfig \/ GetsSwitch
           \/ VideoStarts \/ VideoSwitches \/ GivesUp \/ WindowOpensOrCloses
  <2>1. UNCHANGED vars
    BY <1>6 DEF Select, Refresh, VideoToggled, VisibilityChanges, HearsList, HearsError,
       GetsList, GetsConfig, GetsSwitch, VideoStarts, VideoSwitches, GivesUp,
       WindowOpensOrCloses
  <2> QED
    BY <1>1, <1>2, <2>1 DEF vars, connVars
<1> QED
  BY <1>1, <1>2, <1>4, <1>5, <1>6 DEF SessionNext

--------------------------------------------------------------------------------
(* The types, of the messages under way as well.                           *)

Types ==
  /\ SessionTypeOK
  /\ up \in Seq(Asked) /\ down \in Seq(Answers) /\ cmds \in Seq(Orders)

(* What is sent is of its type.                                            *)
LEMMA SentByPage ==
  ASSUME Types
  PROVE  /\ \A m \in Asked : WsSend(<<m>>) => up' \in {up, Append(up, m)}
         /\ WsSend(<<>>) => up' = up
         /\ \A m \in Asked : Open /\ WsSend(<<m>>) => up' = Append(up, m)
         /\ \A m \in Asked : Append(up, m) \in Seq(Asked)
<1>1. \A m \in Asked : up \o <<m>> = Append(up, m)
  BY AppendIsConcat DEF Types
<1>2. up \o <<>> = up
  BY ConcatEmptySeq DEF Types
<1>3. \A m \in Asked : Append(up, m) \in Seq(Asked)
  BY AppendProperties DEF Types
<1> QED
  BY <1>1, <1>2, <1>3 DEF WsSend

(* The configuration that the page sends names the option by its place.    *)
LEMMA ConfigOf ==
  ASSUME NEW options \in Seq(Nat), NEW selected \in 0 .. Len(options)
  PROVE  LET id == IF selected = 0 THEN 0 ELSE selected - 1
         IN  /\ id \in Nat /\ Config(id) \in Asked
             /\ options # <<>> => ServerConfig(options, selected) = <<Config(id)>>
             /\ options = <<>> => ServerConfig(options, selected) = <<>>
<1>1. Len(options) \in Nat
  BY LenProperties
<1>2. (IF selected = 0 THEN 0 ELSE selected - 1) \in Nat
  BY <1>1
<1> QED
  BY <1>2, Members DEF ServerConfig

(* What the window manager's list is.                                      *)
LEMMA CapturablesType ==
  ASSUME windows \subseteq Transient
  PROVE  Capturables \subseteq Seq(Nat)
<1> USE SessionAssumption
<1>1. <<Desktop>> \in Seq(Nat) /\ <<>> \in Seq(Nat)
  BY DEF Desktop
<1>2. ASSUME NEW W \in ClientLists, NEW r \in Sorted(W)
      PROVE  <<Desktop>> \o r \in Seq(Nat)
  <2>1. W \in SUBSET (Fixed \cup Transient)
    BY DEF ClientLists
  <2>2. W \subseteq Nat /\ IsFiniteSet(W)
    BY <2>1, FS_Subset
  <2>3. Cardinality(W) \in Nat
    BY <2>2, FS_CardinalityType
  <2>4. r \in [1 .. Cardinality(W) -> Nat]
    BY <2>2 DEF Sorted
  <2>5. r \in Seq(Nat)
    BY <2>3, <2>4, SeqDef
  <2> QED
    BY <1>1, <2>5, ConcatProperties
<1>3. ASSUME NEW found \in X11Capturables PROVE found \in Seq(Nat)
  <2>1. PICK W \in ClientLists : found \in {<<Desktop>> \o r : r \in Sorted(W)}
    BY <1>3 DEF X11Capturables
  <2>2. PICK r \in Sorted(W) : found = <<Desktop>> \o r
    BY <2>1
  <2> QED
    BY <1>2, <2>2
<1> QED
  BY <1>1, <1>3 DEF Capturables

(* What the page selects is an option.                                     *)
LEMMA ReselectedType ==
  ASSUME NEW names \in Seq(Nat)
  PROVE  Reselected(names) \subseteq 0 .. Len(names)
<1>1. Len(names) \in Nat /\ DOMAIN names = 1 .. Len(names)
  BY LenProperties
<1>2. names # <<>> => Len(names) # 0
  BY <1>1, EmptySeq
<1> QED
  BY <1>1, <1>2 DEF Reselected, Positions

LEMMA GreetingType ==
  ASSUME Types
  PROVE  /\ Greeting \in Seq(Asked)
         /\ Has(Greeting, {"GetCapturableList"})
         /\ IF enabled THEN ~Has(Greeting, {"PauseVideo", "ResumeVideo"})
                       ELSE IsLast(Greeting, {"PauseVideo", "ResumeVideo"}, Pause)
<1> DEFINE K == {"PauseVideo", "ResumeVideo"}
           start == <<GetList>>
           switched == IF enabled THEN start ELSE Append(start, Pause)
<1>1. /\ start \in Seq(Asked)
      /\ Has(start, {"GetCapturableList"}) /\ ~Has(start, K)
  BY Members, Kinds DEF Has
<1>2. /\ switched \in Seq(Asked)
      /\ Has(switched, {"GetCapturableList"})
      /\ IF enabled THEN ~Has(switched, K) ELSE IsLast(switched, K, Pause)
  <2> HIDE DEF start
  <2> QED
    BY <1>1, Sent, Members, Kinds
<1>3. <<GetList>> \o (IF enabled THEN <<>> ELSE <<Pause>>) = switched
  <2> HIDE DEF start
  <2>2. start \o <<>> = start /\ start \o <<Pause>> = Append(start, Pause)
    BY <1>1, ConcatEmptySeq, AppendIsConcat, Members
  <2> QED
    BY <2>2 DEF start
<1> HIDE DEF start, switched
<1> DEFINE id == IF sel = 0 THEN 0 ELSE sel - 1
<1>4. Greeting = IF opts = <<>> THEN switched ELSE Append(switched, Config(id))
  <2>1. Config(id) \in Asked
    BY ConfigOf DEF Types, SessionTypeOK
  <2>2. switched \o <<>> = switched /\ switched \o <<Config(id)>> = Append(switched, Config(id))
    BY <1>2, <2>1, ConcatEmptySeq, AppendIsConcat
  <2> QED
    BY <1>3, <2>2 DEF Greeting, ServerConfig
<1>5. Config(id) \in Asked /\ Config(id).type = "Config"
  BY ConfigOf, Kinds DEF Types, SessionTypeOK
<1> HIDE DEF id
<1>6. CASE opts = <<>>
  BY <1>2, <1>4, <1>6
<1>7. CASE opts # <<>>
  <2>1. Greeting = Append(switched, Config(id))
    BY <1>4, <1>7
  <2>2. "Config" \notin K /\ "Config" \notin {"GetCapturableList"}
    OBVIOUS
  <2> HIDE DEF K
  <2>3. /\ Greeting \in Seq(Asked)
        /\ Has(Greeting, {"GetCapturableList"})
    BY <1>2, <1>5, <2>1, <2>2, Sent
  <2>4. IF enabled THEN ~Has(Greeting, K) ELSE IsLast(Greeting, K, Pause)
    BY <1>2, <1>5, <2>1, <2>2, Sent
  <2> QED
    BY <2>3, <2>4 DEF K
<1> QED
  BY <1>6, <1>7

--------------------------------------------------------------------------------
(* The inductive invariant.  What is under way decides what will be: the   *)
(* last message of a kind in each direction stands for the state that it   *)
(* will lead to.                                                           *)

Switches == {"PauseVideo", "ResumeVideo"}

(* Whether the video is going to be paused.                                *)
WillPause ==
  IF Has(up, Switches) THEN IsLast(up, Switches, Pause)
  ELSE IF Has(cmds, Switches) THEN IsLast(cmds, Switches, Pause)
  ELSE paused

SwitchHeard ==
  Open => /\ ~enabled => WillPause
          /\ WillPause => ~enabled \/ hidden

(* The device is mapped to what is going to be recorded.                   *)
DeviceHeard ==
  device # Nothing =>
    IF Has(cmds, {"Start"}) THEN IsLast(cmds, {"Start"}, Start(device))
                            ELSE recorder \in {Nothing, device}

(* The page is going to show the server's list.                            *)
ListHeard ==
  Open => \/ Has(up, {"GetCapturableList"})
          \/ IF Has(down, {"CapturableList"})
               THEN IsLast(down, {"CapturableList"}, CapturableList(list))
               ELSE list = opts

(* Something is under way that the page will answer, or the user knows.    *)
Unsettled ==
  \/ told \/ Has(down, {"Error"})
  \/ Has(down, {"CapturableList"}) \/ Has(up, {"GetCapturableList"})

(* What is selected is what is going to be recorded.                       *)
ChoiceHeard ==
  Open /\ sel # 0 =>
    \/ Unsettled
    \/ IF Has(up, {"Config"}) THEN IsLast(up, {"Config"}, Config(sel - 1))
       ELSE IF Has(cmds, {"Start"}) THEN IsLast(cmds, {"Start"}, Start(opts[sel]))
       ELSE recorder = opts[sel]

Heard == SwitchHeard /\ DeviceHeard /\ ListHeard /\ ChoiceHeard

SInv == IInv /\ Types /\ ClosedKnowsNothing /\ Heard

LEMMA SInvInit == SessionInit => SInv
<1> SUFFICES ASSUME SessionInit PROVE SInv
  OBVIOUS
<1>1. IInv /\ TypeOK
  BY InitEstablishesIInv DEF SessionInit, IInv
<1>2. Types
  <2>1. \A S : <<>> \in Seq(S)
    BY EmptySeq
  <2>2. opts = <<>> /\ sel \in 0 .. Len(opts)
    BY DEF SessionInit
  <2> QED
    BY <1>1, <2>1, <2>2 DEF SessionInit, Types, SessionTypeOK, Nothing
<1>3. ~Open
  BY DEF SessionInit, Init, Open, Sockets
<1>4. ClosedKnowsNothing /\ Heard
  BY <1>3 DEF SessionInit, ClosedKnowsNothing, Heard, SwitchHeard, DeviceHeard, ListHeard,
     ChoiceHeard
<1> QED
  BY <1>1, <1>2, <1>4 DEF SInv

(* What a step leaves alone keeps.                                         *)
LEMMA NothingHeard ==
  ASSUME SInv, IInv', UNCHANGED sessionVars, Open' <=> Open
  PROVE  SInv'
<1> USE DEF sessionVars, pageVars, serverVars, videoVars
<1>1. Types'
  BY DEF SInv, IInv, Types, SessionTypeOK
<1>2. ClosedKnowsNothing'
  BY DEF SInv, ClosedKnowsNothing
<1>3. SwitchHeard'
  BY DEF SInv, Heard, SwitchHeard, WillPause
<1>4. DeviceHeard'
  BY DEF SInv, Heard, DeviceHeard
<1>5. ListHeard'
  BY DEF SInv, Heard, ListHeard
<1>6. ChoiceHeard'
  BY DEF SInv, Heard, ChoiceHeard, Unsettled
<1> QED
  BY <1>1, <1>2, <1>3, <1>4, <1>5, <1>6 DEF SInv, Heard

LEMMA OpensKeeps ==
  ASSUME SInv, IInv', ConnectionOpens, ~Open, Open'
  PROVE  SInv'
<1>1. /\ up' = Greeting /\ down' = <<>> /\ cmds' = <<>>
      /\ device' = Nothing /\ paused' = FALSE /\ recorder' = Nothing
      /\ told' \in BOOLEAN
      /\ UNCHANGED <<windows, opts, sel, enabled, hidden, list>>
  BY DEF ConnectionOpens, SInv, ClosedKnowsNothing, Types, SessionTypeOK, serverVars, videoVars
<1>2. Types'
  BY <1>1, GreetingType, EmptySeq DEF SInv, IInv, Types, SessionTypeOK, Nothing
<1>3. /\ Has(up', {"GetCapturableList"})
      /\ IF enabled THEN ~Has(up', Switches) ELSE IsLast(up', Switches, Pause)
  BY <1>1, GreetingType DEF SInv, Switches
<1>4. Has(up', Switches) => ~enabled
  BY <1>3
<1>5. ~enabled => Has(up', Switches)
  BY <1>3 DEF Has, IsLast
<1>6. SwitchHeard'
  BY <1>1, <1>3, <1>4, <1>5, NoMessages DEF SwitchHeard, WillPause
<1>7. DeviceHeard' /\ ListHeard' /\ ChoiceHeard'
  BY <1>1, <1>3 DEF DeviceHeard, ListHeard, ChoiceHeard, Unsettled
<1> QED
  BY <1>2, <1>6, <1>7 DEF SInv, Heard, ClosedKnowsNothing

LEMMA ClosesKeeps ==
  ASSUME SInv, IInv', ConnectionCloses, ~Open'
  PROVE  SInv'
<1>1. Types'
  BY EmptySeq DEF ConnectionCloses, SInv, IInv, Types, SessionTypeOK, Nothing, pageVars
<1>2. ClosedKnowsNothing' /\ Heard'
  BY DEF ConnectionCloses, ClosedKnowsNothing, Heard, SwitchHeard, DeviceHeard, ListHeard,
     ChoiceHeard
<1> QED
  BY <1>1, <1>2 DEF SInv

--------------------------------------------------------------------------------
(* The page sends.                                                         *)

(* What the page sends leaves the device as it is.                         *)
LEMMA PageLeavesDevice ==
  ASSUME SInv, UNCHANGED serverVars
  PROVE  DeviceHeard'
  BY DEF SInv, Heard, DeviceHeard, serverVars, videoVars

(* A switch is sent, or none needs to be.                                  *)
LEMMA SwitchKeeps ==
  ASSUME SInv, IInv', Open' <=> Open,
         NEW m \in {Pause, Resume},
         WsSend(<<m>>),
         enabled' \in BOOLEAN, hidden' \in BOOLEAN,
         m = Pause => ~enabled' \/ hidden',
         m = Resume => enabled',
         UNCHANGED <<windows, opts, sel, told, down, serverVars>>
  PROVE  SInv'
<1> USE DEF serverVars, videoVars
<1>1. m \in Asked /\ m.type \in Switches /\ m.type \notin {"Config"}
      /\ m.type \notin {"GetCapturableList"}
  BY Members, Kinds DEF Switches
<1>2. up' \in {up, Append(up, m)} /\ up' \in Seq(Asked) /\ up \in Seq(Asked)
  BY <1>1, SentByPage DEF SInv, Types
<1>3. /\ Open => up' = Append(up, m)
      /\ ~Open => up' = up
  BY <1>1, SentByPage DEF SInv, WsSend
<1>4. Types'
  BY <1>2 DEF SInv, IInv, Types, SessionTypeOK
<1>5. ClosedKnowsNothing'
  BY <1>3 DEF SInv, ClosedKnowsNothing
<1>6. SwitchHeard'
  <2> SUFFICES ASSUME Open PROVE SwitchHeard'
    BY DEF SwitchHeard
  <2>1. up' = Append(up, m)
    BY <1>3
  <2>2. Has(up', Switches) /\ IsLast(up', Switches, m)
    BY <1>1, <1>2, <2>1, Sent
  <2>3. IsLast(up', Switches, Pause) => m = Pause
    BY <1>1, <1>2, <2>1, Sent
  <2>4. m = Pause <=> m # Resume
    BY Kinds
  <2>5. WillPause' <=> m = Pause
    BY <2>2, <2>3 DEF WillPause
  <2> QED
    BY <2>4, <2>5 DEF SwitchHeard
<1>7. /\ Has(up', {"GetCapturableList"}) <=> Has(up, {"GetCapturableList"})
      /\ Has(up', {"Config"}) <=> Has(up, {"Config"})
      /\ \A c : IsLast(up, {"Config"}, c) => IsLast(up', {"Config"}, c)
  <2>1. CASE up' = up
    BY <2>1
  <2>2. CASE up' = Append(up, m)
    <3>1. Has(Append(up, m), {"GetCapturableList"}) <=> Has(up, {"GetCapturableList"})
      BY <1>1, <1>2, Sent
    <3>2. Has(Append(up, m), {"Config"}) <=> Has(up, {"Config"})
      BY <1>1, <1>2, Sent
    <3>3. \A c : IsLast(up, {"Config"}, c) => IsLast(Append(up, m), {"Config"}, c)
      BY <1>1, <1>2, Sent
    <3> QED
      BY <2>2, <3>1, <3>2, <3>3
  <2> QED
    BY <1>2, <2>1, <2>2
<1>8. ListHeard'
  BY <1>7 DEF SInv, Heard, ListHeard
<1>9. ChoiceHeard'
  BY <1>7 DEF SInv, Heard, ChoiceHeard, Unsettled
<1> QED
  BY <1>4, <1>5, <1>6, <1>8, <1>9, PageLeavesDevice DEF SInv, Heard

LEMMA SwitchedKeeps ==
  ASSUME SInv, IInv', Open' <=> Open,
         VideoToggled \/ EnergySaved \/ VisibilityChanges
  PROVE  SInv'
<1> USE DEF SInv, Types, SessionTypeOK, TypeOK
<1>1. CASE VideoToggled
  BY <1>1, SwitchKeeps, Kinds DEF VideoToggled
<1>2. CASE EnergySaved
  BY <1>2, SwitchKeeps, Kinds DEF EnergySaved
<1>3. CASE VisibilityChanges /\ ~hidden
  BY <1>3, SwitchKeeps, Kinds DEF VisibilityChanges
<1>4. CASE VisibilityChanges /\ hidden /\ enabled
  BY <1>4, SwitchKeeps, Kinds DEF VisibilityChanges
<1>5. CASE VisibilityChanges /\ hidden /\ ~enabled
  <2> USE <1>5 DEF VisibilityChanges, serverVars, videoVars
  <2>1. up' = up
    BY SentByPage
  <2>2. Types' /\ ClosedKnowsNothing'
    BY <2>1 DEF IInv, ClosedKnowsNothing
  <2>3. SwitchHeard'
    BY <2>1 DEF Heard, SwitchHeard, WillPause
  <2>4. ListHeard' /\ ChoiceHeard'
    BY <2>1 DEF Heard, ListHeard, ChoiceHeard, Unsettled
  <2> QED
    BY <2>2, <2>3, <2>4, PageLeavesDevice DEF Heard
<1> QED
  BY <1>1, <1>2, <1>3, <1>4, <1>5

(* Messages of another kind do not matter.                                 *)
LEMMA OtherSent ==
  ASSUME NEW S, NEW q \in Seq(S), NEW e \in S, NEW K, e.type \notin K
  PROVE  /\ Has(Append(q, e), K) <=> Has(q, K)
         /\ \A m : IsLast(Append(q, e), K, m) <=> IsLast(q, K, m)
  BY Sent

LEMMA OtherTaken ==
  ASSUME NEW S, NEW q \in Seq(S), q # <<>>, NEW K, Head(q).type \notin K
  PROVE  /\ Has(Tail(q), K) <=> Has(q, K)
         /\ \A m : IsLast(Tail(q), K, m) <=> IsLast(q, K, m)
<1>1. \A m : IsLast(q, K, m) => m.type \in K
  BY DEF IsLast
<1> QED
  BY <1>1, Taken

(* What a queue is when its first message is taken.                        *)
LEMMA QueueTypes ==
  ASSUME Types
  PROVE  /\ up # <<>> => Head(up) \in Asked /\ Tail(up) \in Seq(Asked)
         /\ down # <<>> => Head(down) \in Answers /\ Tail(down) \in Seq(Answers)
         /\ cmds # <<>> => Head(cmds) \in Orders /\ Tail(cmds) \in Seq(Orders)
         /\ \A m \in Answers : Append(down, m) \in Seq(Answers)
         /\ \A m \in Orders : Append(cmds, m) \in Seq(Orders)
<1> USE DEF Types
<1>1. up # <<>> => Head(up) \in Asked /\ Tail(up) \in Seq(Asked)
  BY HeadTailProperties
<1>2. down # <<>> => Head(down) \in Answers /\ Tail(down) \in Seq(Answers)
  BY HeadTailProperties
<1>3. cmds # <<>> => Head(cmds) \in Orders /\ Tail(cmds) \in Seq(Orders)
  BY HeadTailProperties
<1>4. \A m \in Answers : Append(down, m) \in Seq(Answers)
  BY AppendProperties
<1>5. \A m \in Orders : Append(cmds, m) \in Seq(Orders)
  BY AppendProperties
<1> QED
  BY <1>1, <1>2, <1>3, <1>4, <1>5

(* A configuration is sent for what is selected now.                       *)
LEMMA ConfigKeeps ==
  ASSUME SInv, IInv', Open', Open,
         opts' \in Seq(Nat), sel' \in 0 .. Len(opts'), told' \in BOOLEAN,
         WsSend(ServerConfig(opts', sel')),
         down' \in Seq(Answers), ListHeard',
         UNCHANGED <<windows, enabled, hidden, serverVars>>
  PROVE  SInv'
<1> USE DEF serverVars, videoVars
<1> DEFINE id == IF sel' = 0 THEN 0 ELSE sel' - 1
           m == Config(id)
<1>1. m \in Asked /\ m.type = "Config"
  BY ConfigOf, Kinds
<1>2. /\ opts' = <<>> => up' = up
      /\ opts' # <<>> => up' = Append(up, m)
  <2>1. /\ opts' # <<>> => ServerConfig(opts', sel') = <<m>>
        /\ opts' = <<>> => ServerConfig(opts', sel') = <<>>
    BY ConfigOf
  <2> HIDE DEF m, id
  <2> QED
    BY <1>1, <2>1, SentByPage DEF SInv
<1>3. sel' # 0 => opts' # <<>>
  <2>1. opts' = <<>> => Len(opts') = 0
    OBVIOUS
  <2> QED
    BY <2>1
<1>4. sel' # 0 => m = Config(sel' - 1)
  OBVIOUS
<1> HIDE DEF m, id
<1>5. up \in Seq(Asked) /\ up' \in Seq(Asked)
  BY <1>1, <1>2, SentByPage DEF SInv, Types
<1>6. Types'
  BY <1>5 DEF SInv, IInv, Types, SessionTypeOK
<1>7. /\ Has(up', Switches) <=> Has(up, Switches)
      /\ IsLast(up', Switches, Pause) <=> IsLast(up, Switches, Pause)
  <2>1. m.type \notin Switches
    BY <1>1 DEF Switches
  <2> QED
    BY <1>1, <1>2, <1>5, <2>1, OtherSent
<1>8. SwitchHeard'
  BY <1>7 DEF SInv, Heard, SwitchHeard, WillPause
<1>9. sel' # 0 => Has(up', {"Config"}) /\ IsLast(up', {"Config"}, Config(sel' - 1))
  <2> SUFFICES ASSUME sel' # 0
               PROVE  Has(up', {"Config"}) /\ IsLast(up', {"Config"}, m)
    BY <1>4
  <2>1. up' = Append(up, m)
    BY <1>2, <1>3
  <2>2. Has(Append(up, m), {"Config"}) /\ IsLast(Append(up, m), {"Config"}, m)
    BY <1>1, <1>5, Sent
  <2> QED
    BY <2>1, <2>2
<1>10. ChoiceHeard'
  BY <1>9 DEF ChoiceHeard
<1> QED
  BY <1>6, <1>8, <1>10, PageLeavesDevice DEF SInv, Heard, ClosedKnowsNothing

(* Where the page sends its configuration: its requests for the list are   *)
(* what they were.                                                         *)
LEMMA ConfigAsksNoList ==
  ASSUME Types, NEW options \in Seq(Nat), NEW selected \in 0 .. Len(options),
         WsSend(ServerConfig(options, selected))
  PROVE  Has(up', {"GetCapturableList"}) <=> Has(up, {"GetCapturableList"})
<1> DEFINE id == IF selected = 0 THEN 0 ELSE selected - 1
           m == Config(id)
<1>1. /\ m \in Asked /\ m.type = "Config"
      /\ ServerConfig(options, selected) \in {<<>>, <<m>>}
  BY ConfigOf, Kinds
<1> HIDE DEF m
<1>2. up' \in {up, Append(up, m)}
  BY <1>1, SentByPage
<1>3. Has(Append(up, m), {"GetCapturableList"}) <=> Has(up, {"GetCapturableList"})
  BY <1>1, OtherSent DEF Types
<1> QED
  BY <1>2, <1>3

LEMMA SelectKeeps ==
  ASSUME SInv, IInv', Open' <=> Open, NEW i, Select(i)
  PROVE  SInv'
<1> USE DEF Select, serverVars, videoVars
<1>1. /\ sel' \in 0 .. Len(opts') /\ opts' = opts /\ opts \in Seq(Nat)
      /\ told' \in BOOLEAN /\ down' = down /\ down \in Seq(Answers)
  BY LenProperties DEF SInv, Types, SessionTypeOK
<1>2. CASE Open
  <2>1. ListHeard'
    BY <1>1, <1>2, ConfigAsksNoList DEF SInv, Heard, ListHeard
  <2> QED
    BY <1>1, <1>2, <2>1, ConfigKeeps
<1>3. CASE ~Open
  <2>1. up' = up
    BY <1>3 DEF WsSend
  <2>2. Types'
    BY <1>1, <2>1 DEF SInv, IInv, Types, SessionTypeOK
  <2>3. ClosedKnowsNothing'
    BY <2>1 DEF SInv, ClosedKnowsNothing
  <2>4. SwitchHeard' /\ ListHeard' /\ ChoiceHeard'
    BY <1>3 DEF SwitchHeard, ListHeard, ChoiceHeard
  <2> QED
    BY <2>2, <2>3, <2>4, PageLeavesDevice DEF SInv, Heard
<1> QED
  BY <1>2, <1>3

LEMMA RefreshKeeps ==
  ASSUME SInv, IInv', Open' <=> Open, Refresh
  PROVE  SInv'
<1> USE DEF Refresh, pageVars, serverVars, videoVars
<1>1. up' = Append(up, GetList) /\ up \in Seq(Asked) /\ up' \in Seq(Asked)
  BY SentByPage, Members DEF SInv, Types
<1>2. GetList \in Asked /\ GetList.type = "GetCapturableList"
  BY Members, Kinds
<1>3. Types'
  BY <1>1 DEF SInv, IInv, Types, SessionTypeOK
<1>4. /\ Has(up', Switches) <=> Has(up, Switches)
      /\ IsLast(up', Switches, Pause) <=> IsLast(up, Switches, Pause)
  <2>1. GetList.type \notin Switches
    BY <1>2 DEF Switches
  <2> QED
    BY <1>1, <1>2, <2>1, OtherSent
<1>5. Has(up', {"GetCapturableList"})
  BY <1>1, <1>2, Sent
<1>6. SwitchHeard'
  BY <1>4 DEF SInv, Heard, SwitchHeard, WillPause
<1>7. ListHeard' /\ ChoiceHeard'
  BY <1>5 DEF ListHeard, ChoiceHeard, Unsettled
<1> QED
  BY <1>3, <1>6, <1>7, PageLeavesDevice DEF SInv, Heard, ClosedKnowsNothing

--------------------------------------------------------------------------------
(* The page hears.                                                         *)

(* Nothing is heard over a connection that is closed.                      *)
LEMMA OpenWhenUsed ==
  ASSUME SInv, \/ up # <<>> \/ down # <<>> \/ cmds # <<>> \/ recorder # Nothing
  PROVE  Open
  BY DEF SInv, ClosedKnowsNothing

LEMMA HearsListKeeps ==
  ASSUME SInv, IInv', Open' <=> Open, HearsList
  PROVE  SInv'
<1> USE DEF serverVars, videoVars
<1> DEFINE names == Head(down).names
<1>1. Open /\ Open'
  BY OpenWhenUsed DEF HearsList
<1>2. /\ down # <<>> /\ Head(down).type = "CapturableList"
      /\ Head(down) \in Answers /\ down \in Seq(Answers)
      /\ down' = Tail(down) /\ down' \in Seq(Answers)
  BY QueueTypes DEF HearsList, SInv, Types
<1>3. names \in Seq(Nat) /\ Head(down) = CapturableList(names)
  BY <1>2, Members, Kinds
<1>4. /\ opts' = names
      /\ sel' \in Reselected(names) /\ told' = (told /\ names = <<>>)
      /\ WsSend(ServerConfig(names, sel'))
      /\ UNCHANGED <<windows, enabled, hidden, serverVars>>
  BY DEF HearsList, AfterList
<1>5. sel' \in 0 .. Len(names)
  BY <1>3, <1>4, ReselectedType
<1>6. told' \in BOOLEAN
  BY <1>4
<1>7. Has(up', {"GetCapturableList"}) <=> Has(up, {"GetCapturableList"})
  BY <1>3, <1>4, <1>5, ConfigAsksNoList DEF SInv
<1>8. ListHeard'
  <2> SUFFICES ASSUME ~Has(up, {"GetCapturableList"}) PROVE ListHeard'
    BY <1>7 DEF ListHeard
  <2>1. Has(down, {"CapturableList"})
    BY <1>2, Taken
  <2>2. IsLast(down, {"CapturableList"}, CapturableList(list))
    BY <1>1, <2>1 DEF SInv, Heard, ListHeard
  <2>3. CASE Has(Tail(down), {"CapturableList"})
    <3>1. IsLast(Tail(down), {"CapturableList"}, CapturableList(list))
      BY <1>2, <2>2, <2>3, Taken
    <3> QED
      BY <1>2, <1>4, <2>3, <3>1 DEF ListHeard
  <2>4. CASE ~Has(Tail(down), {"CapturableList"})
    <3>1. CapturableList(list) = Head(down)
      BY <1>2, <2>2, <2>4, Taken
    <3>2. list = names
      BY <3>1, Kinds
    <3> QED
      BY <1>2, <1>4, <2>4, <3>2 DEF ListHeard
  <2> QED
    BY <2>3, <2>4
<1> HIDE DEF names
<1> QED
  BY <1>1, <1>2, <1>3, <1>4, <1>5, <1>6, <1>8, ConfigKeeps

LEMMA HearsOtherKeeps ==
  ASSUME SInv, IInv', Open' <=> Open, HearsConfigOk \/ HearsError
  PROVE  SInv'
<1> USE DEF pageVars, serverVars, videoVars
<1>1. /\ down # <<>> /\ down' = Tail(down)
      /\ down \in Seq(Answers) /\ down' \in Seq(Answers)
      /\ Head(down).type \in {"ConfigOk", "Error"}
      /\ told' = TRUE \/ (told' = told /\ Head(down).type = "ConfigOk")
      /\ UNCHANGED <<windows, opts, sel, enabled, hidden, up, serverVars>>
  BY QueueTypes DEF HearsConfigOk, HearsError, SInv, Types
<1>2. Open /\ Open'
  BY <1>1, OpenWhenUsed
<1>3. Types'
  BY <1>1 DEF SInv, IInv, Types, SessionTypeOK
<1>4. /\ Has(down', {"CapturableList"}) <=> Has(down, {"CapturableList"})
      /\ \A m : IsLast(down', {"CapturableList"}, m) <=> IsLast(down, {"CapturableList"}, m)
  BY <1>1, OtherTaken
<1>5. told' = TRUE \/ (Has(down', {"Error"}) <=> Has(down, {"Error"}))
  BY <1>1, OtherTaken
<1>6. SwitchHeard'
  BY <1>1, <1>2 DEF SInv, Heard, SwitchHeard, WillPause
<1>7. ListHeard'
  BY <1>1, <1>2, <1>4 DEF SInv, Heard, ListHeard
<1>8. ChoiceHeard'
  BY <1>1, <1>2, <1>4, <1>5 DEF SInv, Heard, ChoiceHeard, Unsettled
<1>9. DeviceHeard'
  BY <1>1, PageLeavesDevice
<1> QED
  BY <1>2, <1>3, <1>6, <1>7, <1>8, <1>9 DEF SInv, Heard, ClosedKnowsNothing

--------------------------------------------------------------------------------
(* The session.                                                            *)

LEMMA GetsListKeeps ==
  ASSUME SInv, IInv', Open' <=> Open, GetsList
  PROVE  SInv'
<1> USE DEF pageVars, videoVars
<1> PICK found \in Capturables : list' = found /\ down' = Append(down, CapturableList(found))
  BY DEF GetsList
<1>1. /\ up # <<>> /\ up' = Tail(up) /\ up \in Seq(Asked) /\ up' \in Seq(Asked)
      /\ Head(up).type = "GetCapturableList"
      /\ UNCHANGED <<windows, opts, sel, enabled, hidden, told, device, cmds, recorder, paused>>
  BY QueueTypes DEF GetsList, SInv, Types
<1>2. found \in Seq(Nat) /\ CapturableList(found) \in Answers
  BY CapturablesType, Members DEF SInv, Types, SessionTypeOK
<1>3. Open /\ Open'
  BY <1>1, OpenWhenUsed
<1>4. Types'
  BY <1>1, <1>2, QueueTypes DEF SInv, IInv, Types, SessionTypeOK
<1>5. /\ Has(up', Switches) <=> Has(up, Switches)
      /\ \A m : IsLast(up', Switches, m) <=> IsLast(up, Switches, m)
  <2>1. Head(up).type \notin Switches
    BY <1>1 DEF Switches
  <2> QED
    BY <1>1, <2>1, OtherTaken
<1>6. SwitchHeard'
  BY <1>1, <1>3, <1>5 DEF SInv, Heard, SwitchHeard, WillPause
<1>7. /\ Has(down', {"CapturableList"})
      /\ IsLast(down', {"CapturableList"}, CapturableList(list'))
  BY <1>2, Sent, Kinds DEF SInv, Types
<1>8. ListHeard' /\ ChoiceHeard'
  BY <1>7 DEF ListHeard, ChoiceHeard, Unsettled
<1>9. DeviceHeard'
  BY <1>1 DEF SInv, Heard, DeviceHeard
<1> QED
  BY <1>3, <1>4, <1>6, <1>8, <1>9 DEF SInv, Heard, ClosedKnowsNothing

LEMMA GetsSwitchKeeps ==
  ASSUME SInv, IInv', Open' <=> Open, GetsSwitch
  PROVE  SInv'
<1> USE DEF pageVars, videoVars
<1> DEFINE h == Head(up)
<1>1. /\ up # <<>> /\ up' = Tail(up) /\ up \in Seq(Asked) /\ up' \in Seq(Asked)
      /\ h \in Asked /\ h.type \in {"PauseVideo", "ResumeVideo"}
      /\ cmds' = Append(cmds, h) /\ cmds \in Seq(Orders)
      /\ UNCHANGED <<windows, opts, sel, enabled, hidden, told, down, list, device, recorder,
                     paused>>
  BY QueueTypes DEF GetsSwitch, SInv, Types
<1>2. h \in {Pause, Resume} /\ h \in Orders /\ h.type \in Switches
  BY <1>1, Members, Kinds DEF Switches
<1>3. Open /\ Open'
  BY <1>1, OpenWhenUsed
<1>4. Types'
  BY <1>1, <1>2, QueueTypes DEF SInv, IInv, Types, SessionTypeOK
<1> HIDE DEF h
<1>5. WillPause' <=> WillPause
  <2>1. Has(up, Switches)
    BY <1>1, <1>2, Taken DEF h
  <2>2. CASE Has(Tail(up), Switches)
    <3>1. IsLast(up, Switches, Pause) <=> IsLast(Tail(up), Switches, Pause)
      BY <1>1, <2>2, Taken
    <3> QED
      BY <1>1, <2>1, <2>2, <3>1 DEF WillPause
  <2>3. CASE ~Has(Tail(up), Switches)
    <3>1. IsLast(up, Switches, Pause) <=> h = Pause
      BY <1>1, <1>2, <2>3, Taken DEF h
    <3>2. Has(cmds', Switches) /\ (IsLast(cmds', Switches, Pause) <=> h = Pause)
      BY <1>1, <1>2, Sent
    <3> QED
      BY <1>1, <2>1, <2>3, <3>1, <3>2 DEF WillPause
  <2> QED
    BY <2>2, <2>3
<1>6. SwitchHeard'
  BY <1>1, <1>3, <1>5 DEF SInv, Heard, SwitchHeard
<1>7. /\ Has(cmds', {"Start"}) <=> Has(cmds, {"Start"})
      /\ \A m : IsLast(cmds', {"Start"}, m) <=> IsLast(cmds, {"Start"}, m)
  BY <1>1, <1>2, OtherSent
<1>8. /\ Has(up', {"Config"}) <=> Has(up, {"Config"})
      /\ \A m : IsLast(up', {"Config"}, m) <=> IsLast(up, {"Config"}, m)
  BY <1>1, OtherTaken DEF h
<1>9. Has(up', {"GetCapturableList"}) <=> Has(up, {"GetCapturableList"})
  BY <1>1, OtherTaken DEF h
<1>10. DeviceHeard'
  BY <1>1, <1>7 DEF SInv, Heard, DeviceHeard
<1>11. ListHeard'
  BY <1>1, <1>3, <1>9 DEF SInv, Heard, ListHeard
<1>12. ChoiceHeard'
  BY <1>1, <1>3, <1>7, <1>8, <1>9 DEF SInv, Heard, ChoiceHeard, Unsettled
<1> QED
  BY <1>3, <1>4, <1>6, <1>10, <1>11, <1>12 DEF SInv, Heard, ClosedKnowsNothing

LEMMA GetsConfigKeeps ==
  ASSUME SInv, IInv', Open' <=> Open, GetsConfig
  PROVE  SInv'
<1> USE DEF pageVars, videoVars
<1>1. /\ up # <<>> /\ up' = Tail(up) /\ up \in Seq(Asked) /\ up' \in Seq(Asked)
      /\ Head(up) \in Asked /\ Head(up).type = "Config"
      /\ UNCHANGED <<windows, opts, sel, enabled, hidden, told, list, recorder, paused>>
  BY QueueTypes DEF GetsConfig, SInv, Types
<1> PICK id \in Nat : Head(up) = Config(id)
  BY <1>1, Members, Kinds
<1>2. Open /\ Open'
  BY <1>1, OpenWhenUsed
<1>3. \/ /\ id < Len(list)
         /\ device' = list[id + 1] /\ cmds' = Append(cmds, Start(list[id + 1]))
         /\ down' = down
      \/ /\ down' = Append(down, Answer("Error"))
         /\ device' = device /\ cmds' = cmds
  <2>1. Head(up).id = id
    BY Kinds
  <2> QED
    BY <2>1 DEF GetsConfig, MapsAndStarts, NoDevice
<1>4. /\ Has(up', Switches) <=> Has(up, Switches)
      /\ \A m : IsLast(up', Switches, m) <=> IsLast(up, Switches, m)
  <2>1. Head(up).type \notin Switches
    BY <1>1 DEF Switches
  <2> QED
    BY <1>1, <2>1, OtherTaken
<1>5. Has(up', {"GetCapturableList"}) <=> Has(up, {"GetCapturableList"})
  BY <1>1, OtherTaken
<1>6. Has(up, {"Config"})
  BY <1>1, Taken
<1>7. CASE /\ id < Len(list)
           /\ device' = list[id + 1] /\ cmds' = Append(cmds, Start(list[id + 1]))
           /\ down' = down
  <2> DEFINE m == Start(list[id + 1])
  <2>1. list[id + 1] \in Nat
    <3>1. list \in Seq(Nat) /\ Len(list) \in Nat
      BY LenProperties DEF SInv, Types, SessionTypeOK
    <3>2. id + 1 \in 1 .. Len(list)
      BY <1>7, <3>1
    <3> QED
      BY <3>1, <3>2, ElementOfSeq
  <2>2. m \in Orders /\ m.type = "Start" /\ cmds \in Seq(Orders) /\ cmds' = Append(cmds, m)
    BY <1>7, <2>1, Members, Kinds DEF SInv, Types
  <2>3. Types'
    BY <1>1, <1>7, <2>1, <2>2, QueueTypes DEF SInv, IInv, Types, SessionTypeOK
  <2>10. m = Start(device')
    BY <1>7
  <2> HIDE DEF m
  <2>4. /\ Has(cmds', Switches) <=> Has(cmds, Switches)
        /\ \A n : IsLast(cmds', Switches, n) <=> IsLast(cmds, Switches, n)
    <3>1. m.type \notin Switches
      BY <2>2 DEF Switches
    <3> QED
      BY <2>2, <3>1, OtherSent
  <2>5. SwitchHeard'
    BY <1>1, <1>2, <1>4, <2>4 DEF SInv, Heard, SwitchHeard, WillPause
  <2>6. Has(cmds', {"Start"}) /\ IsLast(cmds', {"Start"}, m)
    BY <2>2, Sent
  <2>7. DeviceHeard'
    BY <2>6, <2>10 DEF DeviceHeard
  <2>8. ListHeard'
    BY <1>1, <1>2, <1>5, <1>7 DEF SInv, Heard, ListHeard
  <2>9. ChoiceHeard'
    <3> SUFFICES ASSUME sel # 0, ~Unsettled PROVE ChoiceHeard'
      BY <1>1, <1>2, <1>5, <1>7 DEF ChoiceHeard, Unsettled
    <3>1. IsLast(up, {"Config"}, Config(sel - 1))
      BY <1>2, <1>6 DEF SInv, Heard, ChoiceHeard
    <3>2. CASE Has(Tail(up), {"Config"})
      <4>1. IsLast(Tail(up), {"Config"}, Config(sel - 1))
        BY <1>1, <3>1, <3>2, Taken
      <4> QED
        BY <1>1, <3>2, <4>1 DEF ChoiceHeard
    <3>3. CASE ~Has(Tail(up), {"Config"})
      <4>1. Config(sel - 1) = Config(id)
        BY <1>1, <3>1, <3>3, Taken
      <4>2. sel = id + 1
        <5>1. sel - 1 = id
          BY <4>1, Kinds
        <5>2. sel \in Int
          BY LenProperties DEF SInv, Types, SessionTypeOK
        <5> QED
          BY <5>1, <5>2
      <4>3. list = opts
        BY <1>2 DEF SInv, Heard, ListHeard, Unsettled
      <4>4. m = Start(opts'[sel'])
        BY <1>1, <4>2, <4>3 DEF m
      <4> QED
        BY <1>1, <2>6, <3>3, <4>4 DEF ChoiceHeard
    <3> QED
      BY <3>2, <3>3
  <2> QED
    BY <1>2, <2>3, <2>5, <2>7, <2>8, <2>9 DEF SInv, Heard, ClosedKnowsNothing
<1>8. CASE /\ down' = Append(down, Answer("Error"))
           /\ device' = device /\ cmds' = cmds
  <2>1. Answer("Error") \in Answers /\ Answer("Error").type = "Error" /\ down \in Seq(Answers)
    BY Members, Kinds DEF SInv, Types
  <2>2. Types'
    BY <1>1, <1>8, <2>1, QueueTypes DEF SInv, IInv, Types, SessionTypeOK
  <2>3. SwitchHeard'
    BY <1>1, <1>2, <1>4, <1>8 DEF SInv, Heard, SwitchHeard, WillPause
  <2>4. DeviceHeard'
    BY <1>1, <1>8 DEF SInv, Heard, DeviceHeard
  <2>5. /\ Has(down', {"CapturableList"}) <=> Has(down, {"CapturableList"})
        /\ \A n : IsLast(down', {"CapturableList"}, n) <=> IsLast(down, {"CapturableList"}, n)
    BY <1>8, <2>1, OtherSent
  <2>6. ListHeard'
    BY <1>1, <1>2, <1>5, <2>5 DEF SInv, Heard, ListHeard
  <2>7. Has(down', {"Error"})
    BY <1>8, <2>1, Sent
  <2>8. ChoiceHeard'
    BY <2>7 DEF ChoiceHeard, Unsettled
  <2> QED
    BY <1>2, <2>2, <2>3, <2>4, <2>6, <2>8 DEF SInv, Heard, ClosedKnowsNothing
<1> QED
  BY <1>3, <1>7, <1>8

--------------------------------------------------------------------------------
(* The video thread.                                                       *)

(* It answers: the lists that are under way to the page stay the same.     *)
LEMMA Answered ==
  ASSUME Types, NEW type \in {"ConfigOk", "Error"}, down' = Append(down, Answer(type))
  PROVE  /\ down' \in Seq(Answers)
         /\ Has(down', {"CapturableList"}) <=> Has(down, {"CapturableList"})
         /\ \A m : IsLast(down', {"CapturableList"}, m) <=> IsLast(down, {"CapturableList"}, m)
         /\ type = "Error" => Has(down', {"Error"})
         /\ Has(down, {"Error"}) => Has(down', {"Error"})
<1>1. /\ Answer(type) \in Answers /\ Answer(type).type = type
      /\ down \in Seq(Answers)
  BY Members, Kinds DEF Types
<1>2. Answer(type).type \notin {"CapturableList"}
  BY <1>1
<1>3. down' \in Seq(Answers)
  BY <1>1, AppendProperties
<1>4. /\ Has(down', {"CapturableList"}) <=> Has(down, {"CapturableList"})
      /\ \A m : IsLast(down', {"CapturableList"}, m) <=> IsLast(down, {"CapturableList"}, m)
  BY <1>1, <1>2, OtherSent
<1>5. /\ type = "Error" => Has(down', {"Error"})
      /\ Has(down, {"Error"}) => Has(down', {"Error"})
  BY <1>1, Sent
<1> QED
  BY <1>3, <1>4, <1>5

LEMMA VideoStartsKeeps ==
  ASSUME SInv, IInv', Open' <=> Open, VideoStarts
  PROVE  SInv'
<1> USE DEF pageVars
<1>1. /\ cmds # <<>> /\ cmds' = Tail(cmds) /\ cmds \in Seq(Orders) /\ cmds' \in Seq(Orders)
      /\ Head(cmds) \in Orders /\ Head(cmds).type = "Start"
      /\ UNCHANGED <<windows, opts, sel, enabled, hidden, told, up, list, device, paused>>
  BY QueueTypes DEF VideoStarts, SInv, Types
<1> PICK source \in Nat : Head(cmds) = Start(source)
  BY <1>1, Members, Kinds
<1>2. Open /\ Open'
  BY <1>1, OpenWhenUsed
<1>3. \/ recorder' = source /\ down' = Append(down, Answer("ConfigOk"))
      \/ recorder' = Nothing /\ down' = Append(down, Answer("Error"))
  <2>1. Head(cmds).source = source
    BY Kinds
  <2> QED
    BY <2>1 DEF VideoStarts
<1>4. /\ down' \in Seq(Answers)
      /\ Has(down', {"CapturableList"}) <=> Has(down, {"CapturableList"})
      /\ \A m : IsLast(down', {"CapturableList"}, m) <=> IsLast(down, {"CapturableList"}, m)
      /\ recorder' = source \/ Has(down', {"Error"})
      /\ Has(down, {"Error"}) => Has(down', {"Error"})
  BY <1>3, Answered DEF SInv
<1>5. Types'
  BY <1>1, <1>3, <1>4 DEF SInv, IInv, Types, SessionTypeOK
<1>6. /\ Has(cmds', Switches) <=> Has(cmds, Switches)
      /\ \A m : IsLast(cmds', Switches, m) <=> IsLast(cmds, Switches, m)
  <2>1. Head(cmds).type \notin Switches
    BY <1>1 DEF Switches
  <2> QED
    BY <1>1, <2>1, OtherTaken
<1>7. SwitchHeard'
  BY <1>1, <1>2, <1>6 DEF SInv, Heard, SwitchHeard, WillPause
<1>8. ListHeard'
  BY <1>1, <1>2, <1>4 DEF SInv, Heard, ListHeard
<1>9. Has(cmds, {"Start"})
  BY <1>1, Taken
<1>10. ASSUME NEW s, IsLast(cmds, {"Start"}, Start(s))
       PROVE  IF Has(cmds', {"Start"}) THEN IsLast(cmds', {"Start"}, Start(s)) ELSE s = source
  <2>1. CASE Has(Tail(cmds), {"Start"})
    BY <1>1, <1>10, <2>1, Taken
  <2>2. CASE ~Has(Tail(cmds), {"Start"})
    <3>1. Start(s) = Start(source)
      BY <1>1, <1>10, <2>2, Taken
    <3> QED
      BY <1>1, <2>2, <3>1, Kinds
  <2> QED
    BY <2>1, <2>2
<1>11. DeviceHeard'
  BY <1>1, <1>3, <1>9, <1>10 DEF SInv, Heard, DeviceHeard
<1>12. ChoiceHeard'
  <2> SUFFICES ASSUME sel # 0, ~Unsettled, ~Has(up, {"Config"}), recorder' = source
               PROVE  ChoiceHeard'
    BY <1>1, <1>2, <1>4 DEF SInv, Heard, ChoiceHeard, Unsettled
  <2>1. IsLast(cmds, {"Start"}, Start(opts[sel]))
    BY <1>2, <1>9 DEF SInv, Heard, ChoiceHeard
  <2> QED
    BY <1>1, <1>10, <2>1 DEF ChoiceHeard
<1> QED
  BY <1>2, <1>5, <1>7, <1>8, <1>11, <1>12 DEF SInv, Heard, ClosedKnowsNothing

LEMMA VideoSwitchesKeeps ==
  ASSUME SInv, IInv', Open' <=> Open, VideoSwitches
  PROVE  SInv'
<1> USE DEF pageVars
<1> DEFINE h == Head(cmds)
<1>1. /\ cmds # <<>> /\ cmds' = Tail(cmds) /\ cmds \in Seq(Orders) /\ cmds' \in Seq(Orders)
      /\ h \in Orders /\ h.type # "Start"
      /\ UNCHANGED <<windows, opts, sel, enabled, hidden, told, up, down, list, device, recorder>>
  BY QueueTypes DEF VideoSwitches, SInv, Types
<1>2. h \in {Pause, Resume} /\ h.type \in Switches /\ (h = Pause <=> h.type = "PauseVideo")
  BY <1>1, Members, Kinds DEF Switches
<1>3. Open /\ Open'
  BY <1>1, OpenWhenUsed
<1>4. paused' \in BOOLEAN /\ (paused' <=> h = Pause)
  BY <1>2 DEF VideoSwitches
<1>5. Types'
  BY <1>1, <1>4 DEF SInv, IInv, Types, SessionTypeOK
<1> HIDE DEF h
<1>6. WillPause' <=> WillPause
  <2>1. CASE Has(up, Switches)
    BY <1>1, <2>1 DEF WillPause
  <2>2. CASE ~Has(up, Switches) /\ Has(Tail(cmds), Switches)
    <3>1. Has(cmds, Switches)
      BY <1>1, <2>2, Taken
    <3>2. IsLast(cmds, Switches, Pause) <=> IsLast(Tail(cmds), Switches, Pause)
      BY <1>1, <2>2, Taken
    <3> QED
      BY <1>1, <2>2, <3>1, <3>2 DEF WillPause
  <2>3. CASE ~Has(up, Switches) /\ ~Has(Tail(cmds), Switches)
    <3>1. Has(cmds, Switches)
      BY <1>1, <1>2, Taken DEF h
    <3>2. IsLast(cmds, Switches, Pause) <=> h = Pause
      BY <1>1, <1>2, <2>3, Taken DEF h
    <3> QED
      BY <1>1, <1>4, <2>3, <3>1, <3>2 DEF WillPause
  <2> QED
    BY <2>1, <2>2, <2>3
<1>7. SwitchHeard'
  BY <1>1, <1>3, <1>6 DEF SInv, Heard, SwitchHeard
<1>8. /\ Has(cmds', {"Start"}) <=> Has(cmds, {"Start"})
      /\ \A m : IsLast(cmds', {"Start"}, m) <=> IsLast(cmds, {"Start"}, m)
  BY <1>1, OtherTaken DEF h
<1>9. DeviceHeard'
  BY <1>1, <1>8 DEF SInv, Heard, DeviceHeard
<1>10. ListHeard'
  BY <1>1, <1>3 DEF SInv, Heard, ListHeard
<1>11. ChoiceHeard'
  BY <1>1, <1>3, <1>8 DEF SInv, Heard, ChoiceHeard, Unsettled
<1> QED
  BY <1>3, <1>5, <1>7, <1>9, <1>10, <1>11 DEF SInv, Heard, ClosedKnowsNothing

LEMMA GivesUpKeeps ==
  ASSUME SInv, IInv', Open' <=> Open, GivesUp
  PROVE  SInv'
<1> USE DEF GivesUp, pageVars
<1>1. Open /\ Open'
  BY OpenWhenUsed
<1>2. /\ down' \in Seq(Answers)
      /\ Has(down', {"CapturableList"}) <=> Has(down, {"CapturableList"})
      /\ \A m : IsLast(down', {"CapturableList"}, m) <=> IsLast(down, {"CapturableList"}, m)
      /\ Has(down', {"Error"})
  BY Answered DEF SInv
<1>3. Types'
  BY <1>2 DEF SInv, IInv, Types, SessionTypeOK
<1>4. SwitchHeard'
  BY <1>1 DEF SInv, Heard, SwitchHeard, WillPause
<1>5. DeviceHeard'
  BY DEF SInv, Heard, DeviceHeard
<1>6. ListHeard'
  BY <1>1, <1>2 DEF SInv, Heard, ListHeard
<1>7. ChoiceHeard'
  BY <1>2 DEF ChoiceHeard, Unsettled
<1> QED
  BY <1>1, <1>3, <1>4, <1>5, <1>6, <1>7 DEF SInv, Heard, ClosedKnowsNothing

LEMMA WindowsKeep ==
  ASSUME SInv, IInv', Open' <=> Open, WindowOpensOrCloses
  PROVE  SInv'
<1> USE DEF WindowOpensOrCloses, pageVars, serverVars, videoVars
<1>1. windows' \subseteq Transient
  BY DEF SInv, Types, SessionTypeOK
<1>2. Types'
  BY <1>1 DEF SInv, IInv, Types, SessionTypeOK
<1>3. ClosedKnowsNothing' /\ SwitchHeard' /\ DeviceHeard' /\ ListHeard' /\ ChoiceHeard'
  BY DEF SInv, Heard, ClosedKnowsNothing, SwitchHeard, WillPause, DeviceHeard, ListHeard,
     ChoiceHeard, Unsettled
<1> QED
  BY <1>2, <1>3 DEF SInv, Heard

--------------------------------------------------------------------------------
LEMMA SInvStep == SInv /\ [SessionNext]_allVars => SInv'
<1> SUFFICES ASSUME SInv, [SessionNext]_allVars PROVE SInv'
  OBVIOUS
<1>1. IInv /\ IInv'
  BY StepsAreTheConnections, NextKeepsIInv DEF SInv, IInv
<1>2. CASE UNCHANGED allVars
  <2>1. UNCHANGED sessionVars /\ (Open' <=> Open)
    BY <1>2 DEF allVars, vars, connVars, Open
  <2> QED
    BY <1>1, <2>1, NothingHeard
<1>3. CASE SessionNext
  <2>1. \/ ConnectionOpens /\ ~Open /\ Open'
        \/ ConnectionCloses /\ ~Open'
        \/ ~ConnectionOpens /\ ~ConnectionCloses /\ (Open' <=> Open)
    BY <1>1, <1>3, OpenChanges
  <2>2. CASE ConnectionOpens /\ ~Open /\ Open'
    BY <1>1, <2>2, OpensKeeps
  <2>3. CASE ConnectionCloses /\ ~Open'
    BY <1>1, <2>3, ClosesKeeps
  <2>4. CASE ~ConnectionOpens /\ ~ConnectionCloses /\ (Open' <=> Open)
    <3>1. CASE ConnectionRetried \/ ConnectionButton
      <4>1. UNCHANGED sessionVars
        BY <3>1 DEF ConnectionRetried, ConnectionButton, sessionVars
      <4> QED
        BY <1>1, <2>4, <4>1, NothingHeard
    <3>2. ASSUME NEW i \in 1 .. Cardinality(Fixed \cup Transient) + 1, Select(i) PROVE SInv'
      BY <1>1, <2>4, <3>2, SelectKeeps
    <3>3. CASE Refresh
      BY <1>1, <2>4, <3>3, RefreshKeeps
    <3>4. CASE VideoToggled \/ EnergySaved \/ VisibilityChanges
      BY <1>1, <2>4, <3>4, SwitchedKeeps
    <3>5. CASE HearsList
      BY <1>1, <2>4, <3>5, HearsListKeeps
    <3>6. CASE HearsConfigOk \/ HearsError
      BY <1>1, <2>4, <3>6, HearsOtherKeeps
    <3>7. CASE GetsList
      BY <1>1, <2>4, <3>7, GetsListKeeps
    <3>8. CASE GetsConfig
      BY <1>1, <2>4, <3>8, GetsConfigKeeps
    <3>9. CASE GetsSwitch
      BY <1>1, <2>4, <3>9, GetsSwitchKeeps
    <3>10. CASE VideoStarts
      BY <1>1, <2>4, <3>10, VideoStartsKeeps
    <3>11. CASE VideoSwitches
      BY <1>1, <2>4, <3>11, VideoSwitchesKeeps
    <3>12. CASE GivesUp
      BY <1>1, <2>4, <3>12, GivesUpKeeps
    <3>13. CASE WindowOpensOrCloses
      BY <1>1, <2>4, <3>13, WindowsKeep
    <3> QED
      BY <1>3, <2>4, <3>1, <3>2, <3>3, <3>4, <3>5, <3>6, <3>7, <3>8, <3>9, <3>10, <3>11,
         <3>12, <3>13 DEF SessionNext
  <2> QED
    BY <2>1, <2>2, <2>3, <2>4
<1> QED
  BY <1>2, <1>3

LEMMA SInvHolds == SessionSpec => []SInv
  BY SInvInit, SInvStep, PTL DEF SessionSpec

(* The variables keep their types (the page's settings,                    *)
(* RylusClientHandler).                                                    *)
THEOREM SessionTypeCorrect == SessionSpec => []SessionTypeOK
<1>1. SInv => SessionTypeOK
  BY DEF SInv, Types
<1> QED
  BY <1>1, SInvHolds, PTL

(* What the page shows as selected is what is recorded when nothing is     *)
(* under way, or the user was told (onCapturableList, update_config).      *)
THEOREM ChoiceIsCaptured == SessionSpec => []ShownIsCaptured
<1>1. SInv => ShownIsCaptured
  BY NoMessages DEF SInv, Heard, ChoiceHeard, Unsettled, ShownIsCaptured, Settled
<1> QED
  BY <1>1, SInvHolds, PTL

(* The input device is mapped to what is recorded, or about to be          *)
(* (update_config).                                                        *)
THEOREM InputActsOnVideo == SessionSpec => []InputFollowsVideo
<1>1. SInv => InputFollowsVideo
  <2> SUFFICES ASSUME SInv, device # Nothing PROVE InputFollowsVideo
    BY DEF InputFollowsVideo
  <2> DEFINE starts == {i \in DOMAIN cmds : cmds[i].type = "Start"}
  <2>1. CASE Has(cmds, {"Start"})
    <3>1. IsLast(cmds, {"Start"}, Start(device))
      BY <2>1 DEF SInv, Heard, DeviceHeard
    <3> PICK i \in DOMAIN cmds : /\ cmds[i] = Start(device)
                                 /\ \A j \in DOMAIN cmds : i < j => cmds[j].type # "Start"
      BY <3>1 DEF IsLast
    <3>2. i \in starts /\ cmds[i].source = device
      BY Kinds
    <3>3. \A j \in starts : j <= i
      BY LenProperties DEF SInv, Types
    <3> QED
      BY <3>2, <3>3 DEF InputFollowsVideo
  <2>2. CASE ~Has(cmds, {"Start"})
    <3>1. starts = {} /\ recorder \in {Nothing, device}
      BY <2>2 DEF SInv, Heard, DeviceHeard, Has
    <3> QED
      BY <3>1 DEF InputFollowsVideo
  <2> QED
    BY <2>1, <2>2
<1> QED
  BY <1>1, SInvHolds, PTL

(* When nothing is under way, a server whose page has switched the video   *)
(* off is paused, and one that is paused has a page that switched it off   *)
(* or is hidden (enable_video, onvisibilitychange).  That a hidden page is *)
(* paused is not claimed: one that connects while it is hidden is not.     *)
THEOREM PauseIsWanted == SessionSpec => []PauseFollowsSwitch
<1>1. SInv => PauseFollowsSwitch
  BY NoMessages DEF SInv, Heard, SwitchHeard, WillPause, PauseFollowsSwitch, Settled
<1> QED
  BY <1>1, SInvHolds, PTL
================================================================================
