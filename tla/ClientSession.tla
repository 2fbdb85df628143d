----------------------------- MODULE ClientSession -----------------------------
(***************************************************************************)
(* What a client asks for and what its session does: the settings of the   *)
(* page (ts/lib.ts), the messages of its connection, the session's message *)
(* loop (RylusClientHandler::run, send_capturable_list, update_config) and *)
(* the recorder of the video thread (handle_video), composed with the      *)
(* page's connection (Reconnect): the page keeps its list, its selection   *)
(* and its switches from one connection to the next, the server starts     *)
(* afresh.                                                                 *)
(*                                                                         *)
(* A source is a number, its place in the alphabet; the desktop is 0 and   *)
(* always listed first.  Each direction of a connection is a queue, and    *)
(* what is in it is lost with the connection.                              *)
(***************************************************************************)
EXTENDS Reconnect, Integers, Sequences

CONSTANTS
  Fixed,          \* windows that are always there
  Transient,      \* windows that open and close
  MaxInFlight     \* no more is asked while so many messages are under way

ASSUME SessionAssumption ==
  /\ Fixed \subseteq Nat \ {0} /\ Transient \subseteq Nat \ {0}
  /\ IsFiniteSet(Fixed \cup Transient)
  /\ MaxInFlight \in Nat \ {0}

VARIABLES
  windows,        \* the transient windows there are
  opts,           \* capturable_select: the names it shows
  sel,            \* which of them is selected, or 0
  enabled,        \* the checkbox enable_video
  hidden,         \* document.hidden
  told,           \* an error was shown since the last Config
  up, down,       \* the messages under way
  list,           \* capturables
  device,         \* what the input device is mapped to
  cmds,           \* the channel to the video thread
  recorder,       \* what the video thread records
  paused

pageVars == <<opts, sel, enabled, hidden, told>>
videoVars == <<recorder, paused>>
serverVars == <<list, device, cmds, videoVars>>
sessionVars == <<windows, pageVars, up, down, serverVars>>
allVars == <<vars, sessionVars>>

Nothing == -1
Desktop == 0
Open == socket[active] = "open"

GetList == [type |-> "GetCapturableList"]
Pause == [type |-> "PauseVideo"]
Resume == [type |-> "ResumeVideo"]
Config(id) == [type |-> "Config", id |-> id]
Start(source) == [type |-> "Start", source |-> source]
CapturableList(names) == [type |-> "CapturableList", names |-> names]
Answer(type) == [type |-> type]

SessionInit ==
  /\ Init
  /\ windows = {}
  /\ opts = <<>> /\ sel = 0 /\ enabled \in BOOLEAN /\ (energysaving => ~enabled)
  /\ hidden = FALSE /\ told = FALSE
  /\ up = <<>> /\ down = <<>>
  /\ list = <<>> /\ device = Nothing /\ cmds = <<>>
  /\ recorder = Nothing /\ paused = FALSE

--------------------------------------------------------------------------------
(* The page.                                                               *)

Idle == Len(up) + Len(down) + Len(cmds) < MaxInFlight
AtThePage == ~hidden /\ Idle

(* wsSend, which drops what it is given when the socket is not open.       *)
WsSend(messages) == up' = IF Open THEN up \o messages ELSE up

(* send_server_config: the value of a select without a selection is the    *)
(* empty string, which Number turns into 0.                                *)
ServerConfig(options, selected) ==
  IF options = <<>> THEN <<>>
  ELSE <<Config(IF selected = 0 THEN 0 ELSE selected - 1)>>

(* A plausible slip: the switch is sent when it changes, and only then.    *)
GreetingUnpaused == <<GetList>> \o ServerConfig(opts, sel)

(* What a connection begins with.                                          *)
Greeting ==
  <<GetList>> \o (IF enabled THEN <<>> ELSE <<Pause>>) \o ServerConfig(opts, sel)

(* onopen: a new session on the server, which is told everything again.    *)
ConnectionOpens ==
  /\ FirstOpens \/ \E s \in Later : LaterOpens(s)
  /\ up' = Greeting
  /\ told' = IF opts = <<>> THEN told ELSE FALSE
  /\ UNCHANGED <<windows, opts, sel, enabled, hidden, down, serverVars>>

(* The connection is lost, or the attempt failed; the session ends.        *)
ConnectionCloses ==
  /\ FirstCloses \/ \E s \in Later : LaterCloses(s)
  /\ up' = <<>> /\ down' = <<>> /\ cmds' = <<>> /\ list' = <<>>
  /\ device' = Nothing /\ recorder' = Nothing /\ paused' = FALSE
  /\ UNCHANGED <<windows, pageVars>>

(* The rest of the connection's callbacks say nothing to the server.       *)
ConnectionRetried ==
  /\ TimerFires
  /\ UNCHANGED <<windows, pageVars, up, down, serverVars>>

ConnectionButton ==
  /\ ~hidden
  /\ RetryNow \/ TryAgain \/ Dismiss \/ PointerTypeToggled
  /\ UNCHANGED <<windows, pageVars, up, down, serverVars>>

(* capturable_select.onchange, and the settings that are the server's: the *)
(* size, the rate, the name, the input back end.                           *)
Select(i) ==
  /\ AtThePage /\ i \in DOMAIN opts
  /\ sel' = i
  /\ WsSend(ServerConfig(opts, i))
  /\ told' = (told /\ ~Open)
  /\ UNCHANGED <<vars, windows, opts, enabled, hidden, down, serverVars>>

Refresh ==
  /\ AtThePage /\ Open
  /\ WsSend(<<GetList>>)
  /\ UNCHANGED <<vars, windows, pageVars, down, serverVars>>

(* enable_video, which is disabled while the user saves energy.            *)
VideoToggled ==
  /\ AtThePage /\ ~energysaving
  /\ enabled' = ~enabled
  /\ WsSend(<<IF enabled THEN Pause ELSE Resume>>)
  /\ UNCHANGED <<vars, windows, opts, sel, hidden, told, down, serverVars>>

(* toggle_energysaving sets the switch and has it act.                     *)
EnergySaved ==
  /\ AtThePage
  /\ EnergySavingToggled
  /\ enabled' = energysaving
  /\ WsSend(<<IF energysaving THEN Resume ELSE Pause>>)
  /\ UNCHANGED <<windows, opts, sel, hidden, told, down, serverVars>>

(* onvisibilitychange                                                      *)
VisibilityChanges ==
  /\ Idle
  /\ hidden' = ~hidden
  /\ WsSend(IF ~hidden THEN <<Pause>> ELSE IF enabled THEN <<Resume>> ELSE <<>>)
  /\ UNCHANGED <<vars, windows, opts, sel, enabled, told, down, serverVars>>

--------------------------------------------------------------------------------
(* The page hears.                                                         *)

Positions(names, name) == {i \in DOMAIN names : names[i] = name}

(* onCapturableList: the selected name is looked for in the new list, and  *)
(* the last of that name selected; a select that had no selection selects  *)
(* its first option.                                                       *)
Reselected(names) ==
  IF sel = 0 THEN {IF names = <<>> THEN 0 ELSE 1}
  ELSE LET found == Positions(names, opts[sel])
       IN  IF found = {} THEN {0} ELSE {i \in found : \A j \in found : j <= i}

(* A plausible slip: the list is shown, and the choice left to the user.   *)
ShowOnly(names, selected) == <<>>

(* "Auto-send config now that capturables are available"                   *)
AfterList(names, selected) == ServerConfig(names, selected)

HearsList ==
  /\ down # <<>> /\ Head(down).type = "CapturableList"
  /\ LET names == Head(down).names
     IN  /\ opts' = names
         /\ sel' \in Reselected(names)
         /\ WsSend(AfterList(names, sel'))
         /\ told' = (told /\ names = <<>>)
  /\ down' = Tail(down)
  /\ UNCHANGED <<vars, windows, enabled, hidden, serverVars>>

(* ConfigOk: new input handlers.                                           *)
HearsConfigOk ==
  /\ down # <<>> /\ Head(down).type = "ConfigOk"
  /\ ConfigOk(active)
  /\ down' = Tail(down)
  /\ UNCHANGED <<windows, pageVars, up, serverVars>>

(* Error, ConfigError: a toast.                                            *)
HearsError ==
  /\ down # <<>> /\ Head(down).type = "Error"
  /\ told' = TRUE
  /\ down' = Tail(down)
  /\ UNCHANGED <<vars, windows, opts, sel, enabled, hidden, up, serverVars>>

--------------------------------------------------------------------------------
(* The session.                                                            *)

Sorted(names) ==
  LET n == Cardinality(names)
  IN  {s \in [1 .. n -> names] : \A i, j \in 1 .. n : i < j => s[i] < s[j]}

(* get_client_list: none if the window manager's list cannot be read.      *)
ClientLists == {{}, Fixed \cup windows}

(* X11Context::capturables: the desktop, then the windows by name.         *)
X11Capturables ==
  UNION {{<<Desktop>> \o s : s \in Sorted(names)} : names \in ClientLists}

(* get_capturables: nothing without an X server.                           *)
Capturables == {<<>>} \cup X11Capturables

(* send_capturable_list                                                    *)
GetsList ==
  /\ up # <<>> /\ Head(up).type = "GetCapturableList"
  /\ \E found \in Capturables :
       /\ list' = found
       /\ down' = Append(down, CapturableList(found))
  /\ up' = Tail(up)
  /\ UNCHANGED <<vars, windows, pageVars, device, cmds, videoVars>>

(* A plausible slip: the session goes on without an input device.          *)
NoDeviceGoesOn(source) ==
  /\ down' = Append(down, Answer("Error"))
  /\ cmds' = Append(cmds, Start(source))
  /\ UNCHANGED device

(* The uinput device cannot be made: an error, and an early return.        *)
NoDevice(source) ==
  /\ down' = Append(down, Answer("Error"))
  /\ UNCHANGED <<device, cmds>>

(* The device is made, or made again for a new name or back end, or mapped *)
(* to the source; then the video thread is told.                           *)
MapsAndStarts(source) ==
  /\ device' = source
  /\ cmds' = Append(cmds, Start(source))
  /\ UNCHANGED down

(* update_config: the id is an index into the list that was sent last.     *)
GetsConfig ==
  /\ up # <<>> /\ Head(up).type = "Config"
  /\ LET id == Head(up).id
     IN  IF id < Len(list)
           THEN MapsAndStarts(list[id + 1]) \/ NoDevice(list[id + 1])
           ELSE /\ down' = Append(down, Answer("Error"))
                /\ UNCHANGED <<device, cmds>>
  /\ up' = Tail(up)
  /\ UNCHANGED <<vars, windows, pageVars, list, videoVars>>

(* PauseVideo and ResumeVideo are passed on.                               *)
GetsSwitch ==
  /\ up # <<>> /\ Head(up).type \in {"PauseVideo", "ResumeVideo"}
  /\ cmds' = Append(cmds, Head(up))
  /\ up' = Tail(up)
  /\ UNCHANGED <<vars, windows, pageVars, down, list, device, videoVars>>

--------------------------------------------------------------------------------
(* The video thread.                                                       *)

(* The last recorder is dropped before a new one is made.                  *)
VideoStarts ==
  /\ cmds # <<>> /\ Head(cmds).type = "Start"
  /\ \/ recorder' = Head(cmds).source /\ down' = Append(down, Answer("ConfigOk"))
     \/ recorder' = Nothing /\ down' = Append(down, Answer("Error"))
  /\ cmds' = Tail(cmds)
  /\ UNCHANGED <<vars, windows, pageVars, up, list, device, paused>>

VideoSwitches ==
  /\ cmds # <<>> /\ Head(cmds).type # "Start"
  /\ paused' = (Head(cmds).type = "PauseVideo")
  /\ cmds' = Tail(cmds)
  /\ UNCHANGED <<vars, windows, pageVars, up, down, list, device, recorder>>

(* MAX_CAPTURE_FAILURES in a row; nothing is captured while paused.        *)
GivesUp ==
  /\ recorder # Nothing /\ ~paused
  /\ recorder' = Nothing
  /\ down' = Append(down, Answer("Error"))
  /\ UNCHANGED <<vars, windows, pageVars, up, list, device, cmds, paused>>

--------------------------------------------------------------------------------
WindowOpensOrCloses ==
  /\ Idle
  /\ \E w \in Transient :
       windows' = IF w \in windows THEN windows \ {w} ELSE windows \cup {w}
  /\ UNCHANGED <<vars, pageVars, up, down, serverVars>>

SessionNext ==
  \/ ConnectionOpens \/ ConnectionCloses
  \/ ConnectionRetried \/ ConnectionButton
  \/ \E i \in 1 .. Cardinality(Fixed \cup Transient) + 1 : Select(i)
  \/ Refresh \/ VideoToggled \/ EnergySaved \/ VisibilityChanges
  \/ HearsList \/ HearsConfigOk \/ HearsError
  \/ GetsList \/ GetsConfig \/ GetsSwitch
  \/ VideoStarts \/ VideoSwitches \/ GivesUp
  \/ WindowOpensOrCloses

SessionSpec == SessionInit /\ [][SessionNext]_allVars

(* Fairness of Reconnect: a timer fires, and a connection attempt ends.    *)
SessionLiveSpec == SessionSpec /\ Fairness

--------------------------------------------------------------------------------
(* Properties.                                                             *)

SessionTypeOK ==
  /\ TypeOK
  /\ windows \subseteq Transient
  /\ opts \in Seq(Nat) /\ sel \in 0 .. Len(opts)
  /\ enabled \in BOOLEAN /\ hidden \in BOOLEAN /\ told \in BOOLEAN
  /\ list \in Seq(Nat) /\ device \in Nat \cup {Nothing}
  /\ recorder \in Nat \cup {Nothing} /\ paused \in BOOLEAN

(* Nothing is under way.                                                   *)
Settled == Open /\ up = <<>> /\ down = <<>> /\ cmds = <<>>

(* Whatever was selected, refreshed and reconnected, in whatever order:    *)
(* when nothing is under way, what the page shows as selected is what is   *)
(* recorded, although messages name it by its place in a list that may     *)
(* have changed; or an error has said that it is not (onCapturableList,    *)
(* send_server_config, update_config).                                     *)
ShownIsCaptured == Settled /\ sel # 0 => recorder = opts[sel] \/ told

(* The pointer acts where the picture is from: the device is mapped to the *)
(* source that the video thread is about to start, or that it records      *)
(* (update_config returns before Start when there is no device).           *)
InputFollowsVideo ==
  LET starts == {i \in DOMAIN cmds : cmds[i].type = "Start"}
  IN  device # Nothing =>
        \/ starts = {} /\ recorder \in {Nothing, device}
        \/ \E i \in starts : cmds[i].source = device /\ \A j \in starts : j <= i

(* The server is paused when the user switched the video off, and paused   *)
(* only for that or because the page is hidden, over losses of the         *)
(* connection and in whatever order the page was hidden and switched.  A   *)
(* page that connects while it is hidden is not paused.                    *)
PauseFollowsSwitch ==
  Settled => /\ ~enabled => paused
             /\ paused => ~enabled \/ hidden
================================================================================
