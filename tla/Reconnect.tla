------------------------------- MODULE Reconnect -------------------------------
(***************************************************************************)
(* How the browser keeps its connection: init(), the reconnection state    *)
(* machine and the callbacks of its sockets (ts/lib.ts), with what belongs *)
(* to a connection or outlives it: the heartbeat, the input handlers, the  *)
(* painter.                                                                *)
(*                                                                         *)
(* The browser runs one callback at a time, so an action is a callback: of *)
(* a socket, of a timer, of a button, or of a message.  The close of a     *)
(* socket may be preceded by its error in the same task; the handler of    *)
(* the page's first socket then runs twice, the second time to no effect,  *)
(* and the other sockets' does nothing.                                    *)
(***************************************************************************)
EXTENDS Naturals, FiniteSets

CONSTANTS
  First,          \* the socket that init() opens
  Later,          \* those that attempt_reconnect() opens
  MaxAttempts     \* RECONNECT_MAX_ATTEMPTS

(* A socket that is closed is never heard of again, so its name is used    *)
(* for a new one; a second name tells the new one from the last.           *)
ASSUME ReconnectAssumption ==
  /\ First \notin Later
  /\ \E a, b \in Later : a # b
  /\ MaxAttempts \in Nat \ {0}

VARIABLES
  socket,         \* readyState of each socket
  active,         \* activeWebSocket
  attempt,        \* reconnect_attempt
  reconnecting,   \* is_reconnecting
  timer,          \* reconnect_timer is set
  banner,         \* reconnect_banner
  dismissed,      \* history: the user dismissed the last banner
  heartbeat,      \* heartbeat_timer is set
  beats,          \* intervals that run
  connected,      \* is_connected: the first socket's handlers are made
  painter,        \* active_painter
  loops,          \* render loops that run
  energysaving    \* the checkbox

connVars    == <<socket, active>>
retryVars   == <<attempt, reconnecting, timer, banner, dismissed>>
beatVars    == <<heartbeat, beats>>
painterVars == <<painter, loops, energysaving>>
vars == <<connVars, retryVars, beatVars, connected, painterVars>>

Sockets == {First} \cup Later

Init ==
  /\ socket = [s \in Sockets |-> IF s = First THEN "connecting" ELSE "unused"]
  /\ active = First
  /\ attempt = 0 /\ reconnecting = FALSE /\ timer = FALSE
  /\ banner = "none" /\ dismissed = FALSE
  /\ heartbeat = FALSE /\ beats = 0
  /\ connected = FALSE
  /\ painter = "none" /\ loops = 0 /\ energysaving \in BOOLEAN

Alive(s) == socket[s] \in {"connecting", "open"}

--------------------------------------------------------------------------------
(* Heartbeat.                                                              *)

(* Clearing an interval ends one if the variable knows of it.              *)
StopHeartbeat ==
  /\ heartbeat' = FALSE
  /\ beats' = IF heartbeat THEN beats - 1 ELSE beats

(* A plausible slip: the interval of the last connection is not cleared.   *)
StartAnotherHeartbeat == heartbeat' = TRUE /\ beats' = beats + 1

(* start_heartbeat, which stops the last one first.                        *)
StartHeartbeat ==
  /\ heartbeat' = TRUE
  /\ beats' = (IF heartbeat THEN beats - 1 ELSE beats) + 1

--------------------------------------------------------------------------------
(* Painter.                                                                *)

(* Painter.destroy, which may be called again.                             *)
DestroyPainter ==
  /\ painter' = IF painter = "none" THEN "none" ELSE "destroyed"
  /\ loops' = IF painter = "running" THEN loops - 1 ELSE loops

(* PointerHandler's constructor: the last painter is destroyed, and there  *)
(* is a new one unless the user saves energy.                              *)
NewPointerHandler(saving) ==
  LET left == IF painter = "running" THEN loops - 1 ELSE loops
  IN  IF saving THEN painter' = "none" /\ loops' = left
      ELSE painter' = "running" /\ loops' = left + 1

--------------------------------------------------------------------------------
(* Reconnection.                                                           *)

(* schedule_reconnect, after so many attempts.                             *)
Schedule(tried) ==
  /\ attempt' = tried + 1 /\ dismissed' = FALSE
  /\ IF tried + 1 > MaxAttempts
       THEN reconnecting' = FALSE /\ banner' = "failed" /\ timer' = FALSE
       ELSE reconnecting' = TRUE /\ banner' = "countdown" /\ timer' = TRUE

(* A plausible slip: remove_reconnect_banner leaves the timer.             *)
KeepTimer == banner' = "trying" /\ UNCHANGED timer

(* remove_reconnect_banner, and then the new banner.                       *)
ShowTrying == banner' = "trying" /\ timer' = FALSE

(* attempt_reconnect                                                       *)
AttemptReconnect ==
  /\ ShowTrying
  /\ \E s \in Later :
       /\ s # active /\ ~Alive(s)
       /\ socket' = [socket EXCEPT ![s] = "connecting"]
       /\ active' = s
  /\ UNCHANGED <<attempt, reconnecting, dismissed, beatVars, connected,
                 painterVars>>

TimerFires == timer /\ AttemptReconnect

(* "Retry now"                                                             *)
RetryNow == banner = "countdown" /\ AttemptReconnect

(* "Try again"                                                             *)
TryAgain ==
  /\ banner = "failed"
  /\ Schedule(0)
  /\ UNCHANGED <<connVars, beatVars, connected, painterVars>>

Dismiss ==
  /\ banner = "failed"
  /\ banner' = "none" /\ dismissed' = TRUE
  /\ UNCHANGED <<connVars, attempt, reconnecting, timer, beatVars, connected, painterVars>>

--------------------------------------------------------------------------------
(* The sockets.                                                            *)

FirstOpens ==
  /\ socket[First] = "connecting"
  /\ socket' = [socket EXCEPT ![First] = "open"]
  /\ StartHeartbeat
  /\ UNCHANGED <<active, retryVars, connected, painterVars>>

(* onopen of a later socket: the state machine is reset.                   *)
LaterOpens(s) ==
  /\ socket[s] = "connecting"
  /\ socket' = [socket EXCEPT ![s] = "open"]
  /\ active' = s
  /\ attempt' = 0 /\ reconnecting' = FALSE
  /\ banner' = "none" /\ timer' = FALSE /\ dismissed' = FALSE
  /\ StartHeartbeat
  /\ UNCHANGED <<connected, painterVars>>

(* handle_disconnect, for the first socket alone.                          *)
FirstCloses ==
  /\ Alive(First)
  /\ socket' = [socket EXCEPT ![First] = "closed"]
  /\ StopHeartbeat
  /\ DestroyPainter
  /\ IF reconnecting THEN UNCHANGED retryVars ELSE Schedule(0)
  /\ UNCHANGED <<active, connected, energysaving>>

(* A plausible slip: each failed attempt starts the count again.           *)
TriedSoFarReset == 0

(* onclose of a later socket: the count goes on if it was an attempt.      *)
TriedSoFar == IF reconnecting THEN attempt ELSE 0

(* A plausible slip, as in handle_disconnect: no more than once.           *)
LaterClosesOnce(s) ==
  /\ Alive(s)
  /\ socket' = [socket EXCEPT ![s] = "closed"]
  /\ IF s # active \/ reconnecting THEN UNCHANGED retryVars ELSE Schedule(0)
  /\ UNCHANGED <<active, beatVars, connected, painterVars>>

LaterCloses(s) ==
  /\ Alive(s)
  /\ socket' = [socket EXCEPT ![s] = "closed"]
  /\ IF s # active THEN UNCHANGED retryVars ELSE Schedule(TriedSoFar)
  /\ UNCHANGED <<active, beatVars, connected, painterVars>>

(* ConfigOk: the first socket makes its handlers once, a later one each    *)
(* time.                                                                   *)
ConfigOk(s) ==
  /\ socket[s] = "open"
  /\ IF s = First /\ connected
       THEN UNCHANGED <<painter, loops>>
       ELSE NewPointerHandler(energysaving)
  /\ connected' = (connected \/ s = First)
  /\ UNCHANGED <<connVars, retryVars, beatVars, energysaving>>

--------------------------------------------------------------------------------
(* The settings panel, which is there whatever the connection does.        *)

(* upd_pointer: mouse, stylus or touch switched on or off.                 *)
PointerTypeToggled ==
  /\ NewPointerHandler(energysaving)
  /\ UNCHANGED <<connVars, retryVars, beatVars, connected, energysaving>>

EnergySavingToggled ==
  /\ energysaving' = ~energysaving
  /\ NewPointerHandler(~energysaving)
  /\ UNCHANGED <<connVars, retryVars, beatVars, connected>>

--------------------------------------------------------------------------------
SocketSettles ==
  \/ FirstOpens \/ FirstCloses
  \/ \E s \in Later : LaterOpens(s) \/ LaterCloses(s)

Next ==
  \/ SocketSettles
  \/ TimerFires \/ RetryNow \/ TryAgain \/ Dismiss
  \/ \E s \in Sockets : ConfigOk(s)
  \/ PointerTypeToggled \/ EnergySavingToggled

Spec == Init /\ [][Next]_vars

(* A timer fires, and a connection attempt succeeds or fails.              *)
Connecting == \E s \in Sockets : socket[s] = "connecting"

Fairness ==
  /\ WF_vars(TimerFires)
  /\ WF_vars(Connecting /\ SocketSettles)

LiveSpec == Spec /\ Fairness

--------------------------------------------------------------------------------
(* Properties.                                                             *)

TypeOK ==
  /\ socket \in [Sockets -> {"unused", "connecting", "open", "closed"}]
  /\ active \in Sockets
  /\ attempt \in 0 .. MaxAttempts + 1
  /\ reconnecting \in BOOLEAN /\ timer \in BOOLEAN
  /\ banner \in {"none", "countdown", "trying", "failed"} /\ dismissed \in BOOLEAN
  /\ heartbeat \in BOOLEAN /\ beats \in Nat
  /\ connected \in BOOLEAN
  /\ painter \in {"none", "running", "destroyed"} /\ loops \in Nat
  /\ energysaving \in BOOLEAN

(* The page never has two connections: whatever socket is connecting or    *)
(* open is the active one, and no timer is left to open another.           *)
OneSocket ==
  \A s \in Sockets : Alive(s) => s = active /\ ~timer

(* What the banner says is so: it counts down to a timer that is set, it   *)
(* says that it is trying while a socket connects, that it failed when     *)
(* nothing is tried any more, and it is silent only over a live connection *)
(* or after the user dismissed it: no loss goes unnoticed.                 *)
BannerTellsTheState ==
  /\ banner = "countdown" <=> timer
  /\ banner = "trying" <=> reconnecting /\ socket[active] = "connecting"
  /\ banner = "failed" => ~reconnecting /\ ~Alive(active)
  /\ reconnecting <=> banner \in {"countdown", "trying"}
  /\ banner = "none" => Alive(active) \/ dismissed

(* Exactly one heartbeat runs while the connection is open, and never two, *)
(* however often it was lost; the server would drop a silent one.          *)
OneHeartbeat == beats <= 1 /\ (socket[active] = "open" => beats = 1)

(* A render loop that runs is the active painter's: none is left over from *)
(* a handler that was replaced.                                            *)
NoLoopLeftOver == loops = IF painter = "running" THEN 1 ELSE 0

(* What is started anew on each connection and each change of the settings *)
(* runs once: the heartbeat's interval and the render loop.                *)
OneOfEach == OneHeartbeat /\ NoLoopLeftOver

(* A lost connection is found again, or the user is told that it is not    *)
(* (and dismisses that): however many attempts fail, none is the last      *)
(* without a word, and they do not go on for ever.                         *)
LossIsResolved ==
  ~Alive(active) ~> (socket[active] = "open" \/ banner = "failed" \/ dismissed)
================================================================================
