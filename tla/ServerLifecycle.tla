---------------------------- MODULE ServerLifecycle ----------------------------
(***************************************************************************)
(* Starting and stopping the server: crates/rylus-server/src/rylus.rs      *)
(* (Rylus), web.rs (run_server and the /ws branch of serve) and            *)
(* session.rs (the life of a RylusClientHandler).                          *)
(*                                                                         *)
(* The main thread (GUI button or signal handler) starts a web thread and  *)
(* a ui thread, and stop() joins both.  The web thread runs a tokio        *)
(* runtime: run_server's accept loop, one task per connection, one task    *)
(* per WebSocket upgrade.  Every upgraded client gets a handler thread,    *)
(* which owns a video thread.  What ties their ends together is            *)
(*   notify_shutdown     a Notify: main -> accept loop, remembered         *)
(*   broadcast_shutdown  a Notify: accept loop -> connection tasks that    *)
(*                       are already waiting, not remembered               *)
(*   semaphore           run_server -> the reader tasks of all sessions    *)
(*   num_clients         clients counted in and out by many threads        *)
(*   notify_disconnect   a Notify: clients -> run_server if it waits       *)
(*   sender_ui           the ui thread ends when the last clone is dropped *)
(***************************************************************************)
EXTENDS Naturals, FiniteSets

CONSTANTS
  Clients,     \* TCP connections that may be made in a behaviour
  UiCapacity,  \* capacity of the sender_ui channel
  MaxStarts    \* bound: calls of Rylus::start in a behaviour

ASSUME LifecycleAssumption ==
  /\ IsFiniteSet(Clients)
  /\ UiCapacity \in Nat \ {0}
  /\ MaxStarts \in Nat

VARIABLES
  main,       \* where the thread that owns Rylus is
  starts,     \* calls of start so far
  permit,     \* notify_shutdown holds a notification nobody has taken
  web,        \* where the web thread is
  conn,       \* the TCP connection and its task, per client
  told,       \* connection tasks broadcast_shutdown has reached
  numClients, \* num_clients
  released,   \* the shutdown semaphore has permits
  client,     \* the client's upgrade task, then its handler thread
  video,      \* clients whose video thread is alive
  panicked,   \* clients whose handler thread has panicked
  reported,   \* clients that have reported UInputInaccessible
  ui,         \* where the ui thread is
  uiQueue     \* messages in the sender_ui channel

mainVars    == <<main, starts>>
webVars     == <<permit, web>>
connVars    == <<conn, told>>
countVars   == <<numClients, released>>
sessionVars == <<client, video, panicked, reported>>
uiVars      == <<ui, uiQueue>>
vars == <<mainVars, webVars, connVars, countVars, sessionVars, uiVars>>

(* idle: no server; exited: Rylus has been dropped.                        *)
MainStates == {"idle", "starting", "running", "joinWeb", "joinUi", "exited"}

(* failed: the bind failed; loaded: num_clients was read and is not zero;  *)
(* returned: run_server is over, the runtime is about to be dropped.       *)
WebStates == {"none", "bind", "failed", "accept", "handshake", "permits",
              "load", "loaded", "wait", "returned", "done"}

(* spawned: the task has not been polled yet; open: it waits for a request *)
(* or for broadcast_shutdown.                                              *)
ConnStates == {"none", "backlog", "handshake", "spawned", "open", "closed"}

(* pending, ready, failed: on_upgrade.await; running: the handler thread   *)
(* is in its message loop; reporting: in blocking_send of UInputInaccessible;*)
(* joining: the loop is over; ended: run() is over; counted: num_clients   *)
(* has been lowered; gone: nothing is left.                                *)
ClientStates == {"none", "pending", "ready", "failed", "running", "reporting",
                 "joining", "ended", "counted", "gone"}

Listening == {"accept", "handshake", "permits", "load", "loaded", "wait"}

(* The runtime polls tasks until it is dropped.                            *)
RuntimeUp == web \notin {"none", "bind", "failed", "done"}

InSession == {"running", "reporting", "joining"}

Sessions == {c \in Clients : client[c] \in InSession}

Init ==
  /\ main = "idle" /\ starts = 0
  /\ permit = FALSE /\ web = "none"
  /\ conn = [c \in Clients |-> "none"] /\ told = {}
  /\ numClients = 0 /\ released = FALSE
  /\ client = [c \in Clients |-> "none"]
  /\ video = {} /\ panicked = {} /\ reported = {}
  /\ ui = "none" /\ uiQueue = 0

SetConn(c, s)   == conn' = [conn EXCEPT ![c] = s]
SetClient(c, s) == client' = [client EXCEPT ![c] = s]

--------------------------------------------------------------------------------
(* The thread that owns Rylus.                                             *)

(* The GUI's server_state, which follows the calls of start() and stop().  *)
ServerState ==
  CASE main = "starting" -> "Starting"
    [] main \in {"running", "joinWeb", "joinUi"} -> "Running"
    [] main \in {"idle", "exited"} -> "Stopped"

(* One button both starts and stops: by the state, and not while a call of *)
(* start() or stop() keeps the GUI's thread.  A signal stops a server that *)
(* was started without a GUI, likewise.                                    *)
Clicked(state) == ServerState = state /\ main \in {"idle", "running"}

(* start(): new counters and channels, and the web thread.  A client of an *)
(* earlier server may still be about to lower that server's counter or to  *)
(* notify it; nobody reads either any more.                                *)
Start ==
  /\ Clicked("Stopped") /\ starts < MaxStarts
  /\ main' = "starting" /\ starts' = starts + 1
  /\ web' = "bind"
  /\ told' = {} /\ numClients' = 0 /\ released' = FALSE
  /\ uiQueue' = 0
  /\ client' = [c \in Clients |->
                  IF client[c] \in {"ended", "counted"} THEN "gone" ELSE client[c]]
  /\ UNCHANGED <<permit, conn, video, panicked, reported, ui>>

(* The startup message arrives: start() spawns the ui thread.              *)
Started ==
  /\ main = "starting" /\ web \notin {"bind", "failed"}
  /\ main' = "running" /\ ui' = "running"
  /\ UNCHANGED <<starts, webVars, connVars, countVars, sessionVars, uiQueue>>

(* A plausible slip: a failed start cleans up with stop().                 *)
StartFailedStops ==
  /\ main = "starting" /\ web = "failed"
  /\ main' = "idle" /\ web' = "none" /\ permit' = TRUE
  /\ UNCHANGED <<starts, connVars, countVars, sessionVars, uiVars>>

StartFailed ==
  /\ main = "starting" /\ web = "failed"
  /\ main' = "idle" /\ web' = "none"
  /\ UNCHANGED <<starts, permit, connVars, countVars, sessionVars, uiVars>>

(* stop(): notify_one, then wait().                                        *)
Stop ==
  /\ Clicked("Running")
  /\ main' = "joinWeb" /\ permit' = TRUE
  /\ UNCHANGED <<starts, web, connVars, countVars, sessionVars, uiVars>>

(* A plausible slip: wait() joins the web thread only.                     *)
JoinWebOnly ==
  /\ main = "joinWeb" /\ web = "done"
  /\ main' = "idle" /\ web' = "none" /\ ui' = "none"
  /\ UNCHANGED <<starts, permit, connVars, countVars, sessionVars, uiQueue>>

JoinWeb ==
  /\ main = "joinWeb" /\ web = "done"
  /\ main' = "joinUi"
  /\ UNCHANGED <<starts, webVars, connVars, countVars, sessionVars, uiVars>>

JoinUi ==
  /\ main = "joinUi" /\ ui = "done"
  /\ main' = "idle" /\ web' = "none" /\ ui' = "none"
  /\ UNCHANGED <<starts, permit, connVars, countVars, sessionVars, uiQueue>>

(* Drop of an idle Rylus: stop() again, with nothing to join.  The drop of *)
(* a running one is Stop followed by this.                                 *)
Exit ==
  /\ main = "idle"
  /\ main' = "exited" /\ permit' = TRUE
  /\ UNCHANGED <<starts, web, connVars, countVars, sessionVars, uiVars>>

--------------------------------------------------------------------------------
(* run_server.                                                             *)

WebOnly(s) ==
  /\ web' = s
  /\ UNCHANGED <<mainVars, permit, connVars, countVars, sessionVars, uiVars>>

Bind == web = "bind" /\ (WebOnly("accept") \/ WebOnly("failed"))

(* The accept loop takes one connection and waits, without a timeout, for  *)
(* its TLS handshake (over plain TCP there is none, which is a handshake   *)
(* that succeeds at once).                                                 *)
Accept(c) ==
  /\ web = "accept" /\ conn[c] = "backlog"
  /\ web' = "handshake" /\ SetConn(c, "handshake")
  /\ UNCHANGED <<mainVars, permit, told, countVars, sessionVars, uiVars>>

Handshake(c, outcome) ==
  /\ web = "handshake" /\ conn[c] = "handshake"
  /\ web' = "accept" /\ SetConn(c, outcome)
  /\ UNCHANGED <<mainVars, permit, told, countVars, sessionVars, uiVars>>

HandshakeDone(c) == Handshake(c, "spawned")
HandshakeFails(c) == Handshake(c, "closed")

(* notify_waiters() reaches the connection tasks that have created their   *)
(* notified() future, and no others.                                       *)
ShutdownSeen ==
  /\ web = "accept" /\ permit
  /\ permit' = FALSE /\ web' = "permits"
  /\ told' = {c \in Clients : conn[c] = "open"}
  /\ UNCHANGED <<mainVars, conn, countVars, sessionVars, uiVars>>

(* The permits are never used up: acquire() in the reader's select! gives  *)
(* its permit back at once.  One permit therefore ends every session.      *)
AddPermits(from, to) ==
  /\ web = from /\ web' = to
  /\ released' = (released \/ numClients > 0)
  /\ UNCHANGED <<mainVars, permit, connVars, numClients, sessionVars, uiVars>>

FirstPermits == AddPermits("permits", "load")

LoadClients ==
  /\ web = "load"
  /\ WebOnly(IF numClients = 0 THEN "returned" ELSE "loaded")

(* notify_disconnect.notified() is created only here.                      *)
WaitForDisconnect == web = "loaded" /\ WebOnly("wait")

(* A plausible slip: the timer only has the count read again.              *)
TimerWithoutPermits == web = "wait" /\ WebOnly("load")

TimerFires == AddPermits("wait", "load")

(* The runtime is dropped: every task is cancelled, and with its reader    *)
(* and writer every session loses its channels.                            *)
DropRuntime ==
  /\ web = "returned" /\ web' = "done"
  /\ conn' = [c \in Clients |-> IF conn[c] = "none" THEN "none" ELSE "closed"]
  /\ client' = [c \in Clients |->
                  IF client[c] \in {"pending", "ready", "failed"} THEN "gone" ELSE client[c]]
  /\ UNCHANGED <<mainVars, permit, told, countVars, video, panicked, reported, uiVars>>

--------------------------------------------------------------------------------
(* Connection tasks.                                                       *)

Connect(c) ==
  /\ web \in Listening /\ conn[c] = "none"
  /\ SetConn(c, "backlog")
  /\ UNCHANGED <<mainVars, webVars, told, countVars, sessionVars, uiVars>>

(* First poll of the task: only now can a broadcast reach it.              *)
TaskStarts(c) ==
  /\ RuntimeUp /\ conn[c] = "spawned"
  /\ SetConn(c, "open")
  /\ UNCHANGED <<mainVars, webVars, told, countVars, sessionVars, uiVars>>

(* serve, /ws: counted before the upgrade task is spawned.                 *)
Upgrade(c) ==
  /\ RuntimeUp /\ conn[c] = "open" /\ client[c] = "none"
  /\ SetClient(c, "pending") /\ numClients' = numClients + 1
  /\ UNCHANGED <<mainVars, webVars, connVars, released, video, panicked, reported, uiVars>>

(* The response is out: hyper hands the socket to on_upgrade.              *)
HandOver(c) ==
  /\ RuntimeUp /\ conn[c] = "open" /\ client[c] = "pending"
  /\ SetConn(c, "closed") /\ SetClient(c, "ready")
  /\ UNCHANGED <<mainVars, webVars, told, countVars, video, panicked, reported, uiVars>>

(* The connection ends, and with it an upgrade that is not complete.       *)
CloseConn(c) ==
  /\ RuntimeUp /\ conn[c] = "open"
  /\ SetConn(c, "closed")
  /\ SetClient(c, IF client[c] = "pending" THEN "failed" ELSE client[c])
  /\ UNCHANGED <<mainVars, webVars, told, countVars, video, panicked, reported, uiVars>>

CloseTold(c) == c \in told /\ CloseConn(c)

--------------------------------------------------------------------------------
(* Upgrade tasks and handler threads.                                      *)

ClientOnly(c, s) ==
  /\ SetClient(c, s)
  /\ UNCHANGED <<mainVars, webVars, connVars, countVars, video, panicked, reported, uiVars>>

(* The handler thread, and in RylusClientHandler::new its video thread.    *)
SpawnHandler(c) ==
  /\ RuntimeUp /\ client[c] = "ready"
  /\ SetClient(c, "running") /\ video' = video \cup {c}
  /\ UNCHANGED <<mainVars, webVars, connVars, countVars, panicked, reported, uiVars>>

(* update_config without access to uinput: blocking_send to the ui thread. *)
ReportUInput(c) ==
  /\ client[c] = "running" /\ c \notin reported
  /\ SetClient(c, "reporting") /\ reported' = reported \cup {c}
  /\ UNCHANGED <<mainVars, webVars, connVars, countVars, video, panicked, uiVars>>

SendReport(c) ==
  /\ client[c] = "reporting" /\ uiQueue < UiCapacity
  /\ SetClient(c, "running") /\ uiQueue' = uiQueue + 1
  /\ UNCHANGED <<mainVars, webVars, connVars, countVars, video, panicked, reported, ui>>

(* The message loop of run() is over: the browser has left.                *)
PeerLeaves(c) == client[c] = "running" /\ ClientOnly(c, "joining")

(* ... or the reader task has been told to end, or cancelled.              *)
SessionReleased(c) == (released \/ web = "done") /\ PeerLeaves(c)

(* handle_video returns once run() has dropped video_sender.               *)
VideoEnds(c) ==
  /\ c \in video /\ client[c] \notin {"running", "reporting"}
  /\ video' = video \ {c}
  /\ UNCHANGED <<mainVars, webVars, connVars, countVars, client, panicked, reported, uiVars>>

JoinVideo(c) == client[c] = "joining" /\ c \notin video /\ ClientOnly(c, "ended")

(* A plausible slip: no catch_unwind, the thread dies with the panic.      *)
PanicUncaught(c) ==
  /\ client[c] = "running"
  /\ SetClient(c, "gone") /\ panicked' = panicked \cup {c}
  /\ UNCHANGED <<mainVars, webVars, connVars, countVars, video, reported, uiVars>>

(* A panic in the message loop unwinds to catch_unwind; the video thread   *)
(* is not joined but loses its command channel.                            *)
HandlerPanics(c) ==
  /\ client[c] = "running"
  /\ SetClient(c, "ended") /\ panicked' = panicked \cup {c}
  /\ UNCHANGED <<mainVars, webVars, connVars, countVars, video, reported, uiVars>>

(* fetch_sub, by the handler thread or by the failed upgrade's task.       *)
CountOut(c) ==
  /\ client[c] = "ended" \/ (client[c] = "failed" /\ RuntimeUp)
  /\ SetClient(c, "counted") /\ numClients' = numClients - 1
  /\ UNCHANGED <<mainVars, webVars, connVars, released, video, panicked, reported, uiVars>>

(* notify_waiters: lost unless run_server is waiting.                      *)
NotifyDisconnect(c) ==
  /\ client[c] = "counted"
  /\ SetClient(c, "gone")
  /\ web' = (IF web = "wait" THEN "load" ELSE web)
  /\ UNCHANGED <<mainVars, permit, connVars, countVars, video, panicked, reported, uiVars>>

--------------------------------------------------------------------------------
(* The ui thread.                                                          *)

(* Somebody holds a clone of sender_ui: run_server, a connection's task,   *)
(* an upgrade's task, or a handler until run() is over.                    *)
SenderHeld ==
  \/ web \notin {"returned", "done"}
  \/ \E c \in Clients : \/ conn[c] \in {"spawned", "open"}
                        \/ client[c] \in {"pending", "ready", "failed"} \cup InSession

UiTakes ==
  /\ ui = "running" /\ uiQueue > 0
  /\ uiQueue' = uiQueue - 1
  /\ UNCHANGED <<mainVars, webVars, connVars, countVars, sessionVars, ui>>

UiEnds ==
  /\ ui = "running" /\ uiQueue = 0 /\ ~SenderHeld
  /\ ui' = "done"
  /\ UNCHANGED <<mainVars, webVars, connVars, countVars, sessionVars, uiQueue>>

--------------------------------------------------------------------------------
MainNext == Start \/ Started \/ StartFailed \/ Stop \/ JoinWeb \/ JoinUi \/ Exit

WebNext ==
  \/ Bind \/ ShutdownSeen \/ FirstPermits \/ LoadClients
  \/ WaitForDisconnect \/ TimerFires \/ DropRuntime

ConnNext(c) ==
  \/ Connect(c) \/ Accept(c) \/ HandshakeDone(c) \/ HandshakeFails(c)
  \/ TaskStarts(c) \/ Upgrade(c) \/ HandOver(c) \/ CloseConn(c) \/ CloseTold(c)

ClientNext(c) ==
  \/ SpawnHandler(c) \/ ReportUInput(c) \/ SendReport(c)
  \/ PeerLeaves(c) \/ SessionReleased(c) \/ HandlerPanics(c)
  \/ VideoEnds(c) \/ JoinVideo(c) \/ CountOut(c) \/ NotifyDisconnect(c)

Next ==
  \/ MainNext \/ WebNext
  \/ \E c \in Clients : ConnNext(c) \/ ClientNext(c)
  \/ UiTakes \/ UiEnds

Spec == Init /\ [][Next]_vars

(* Fairness.  Threads run and the runtime polls tasks that can proceed.    *)
(* Beyond that it is assumed that a peer finishes or gives up its TLS      *)
(* handshake, that the 101 response of an upgrade goes out (or fails), and *)
(* that a session told to end gets to the end of its message loop.         *)
(* SF: blocking_send waits in the channel's fair queue.  Nobody has to     *)
(* start, stop, connect, report, leave or panic.                           *)
LiveSpec ==
  /\ Spec
  /\ WF_vars(Started \/ StartFailed \/ JoinWeb \/ JoinUi)
  /\ WF_vars(WebNext)
  /\ \A c \in Clients :
       /\ WF_vars(HandshakeDone(c) \/ HandshakeFails(c))
       /\ WF_vars(TaskStarts(c))
       /\ WF_vars(HandOver(c))
       /\ WF_vars(SpawnHandler(c))
       /\ SF_vars(SendReport(c))
       /\ WF_vars(SessionReleased(c))
       /\ WF_vars(VideoEnds(c))
       /\ WF_vars(JoinVideo(c))
       /\ WF_vars(CountOut(c) \/ NotifyDisconnect(c))
  /\ WF_vars(UiTakes)
  /\ WF_vars(UiEnds)

--------------------------------------------------------------------------------
(* Properties.                                                             *)

(* Type invariant of the threads, tasks and counters.                      *)
TypeOK ==
  /\ main \in MainStates /\ starts \in 0 .. MaxStarts
  /\ permit \in BOOLEAN /\ web \in WebStates
  /\ conn \in [Clients -> ConnStates] /\ told \subseteq Clients
  /\ numClients \in Nat /\ released \in BOOLEAN
  /\ client \in [Clients -> ClientStates]
  /\ video \subseteq Clients /\ panicked \subseteq Clients
  /\ reported \subseteq Clients
  /\ ui \in {"none", "running", "done"} /\ uiQueue \in 0 .. UiCapacity

(* num_clients is exactly the number of clients that still have to be      *)
(* waited for, whatever thread counted them in and however they end (serve,*)
(* the upgrade task, catch_unwind): while run_server waits, it neither     *)
(* leaves a client behind nor waits for one that is gone.                  *)
Counted == {c \in Clients : client[c] \in {"pending", "ready", "failed", "ended"} \cup InSession}
ClientsCounted == web \in Listening => numClients = Cardinality(Counted)

(* When stop() has returned, no handler thread is in its session and no    *)
(* video thread runs, except one whose handler panicked - even though      *)
(* run_server can return between two steps of an upgrade it did not count  *)
(* (wait joins the ui thread, which every session keeps alive).            *)
StopLeavesNothing ==
  main \in {"idle", "exited"} => Sessions = {} /\ video \subseteq panicked

(* While Rylus is started and nobody has called stop, the accept loop is   *)
(* running: no notification left by an earlier stop or drop shuts down a   *)
(* later server (notify_one in stop, notified in run_server).              *)
RunningMeansServing == main = "running" => web \in {"accept", "handshake"}

(* What Rylus shows is so: started, it serves; stopped, nothing is left.   *)
StateIsShown == RunningMeansServing /\ StopLeavesNothing

(* The state of ServerService a state of the server stands for.            *)
Power ==
  IF main = "running" \/ (main = "starting" /\ web \in Listening) THEN "on"
  ELSE IF main \in {"joinWeb", "joinUi"} THEN "stopping"
  ELSE "off"

(* Starting and stopping implement ServerService: it is down only when     *)
(* every session is over, and none begins before the next start.           *)
Service == INSTANCE ServerService WITH power <- Power, sessions <- Sessions
ServiceRefines == Service!Spec

(* stop() returns: however connections, upgrades, sessions and panics meet *)
(* the shutdown, every thread it waits for ends.  The timer in run_server's*)
(* last loop is what makes up for a notification sent too early and for a  *)
(* client that was upgraded after the permits were handed out.             *)
StopReturns == (main = "joinWeb") ~> (main = "idle")
================================================================================
