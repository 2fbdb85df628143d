# Rylus in TLA+

Rylus shows a computer's screen, or one window of it, in a browser on a tablet
or phone, and turns what the browser's user does with pen, fingers, mouse and
keyboard into input on the computer. This directory holds a model of the
program's core in TLA+, the TLC configurations that check it on small instances,
and TLAPS proofs of what matters most for all sizes.

Paths below are relative to the repository; `session.rs`, `web.rs` and
`rylus.rs` are in `crates/rylus-server/src/`, `websocket.rs` in
`crates/rylus-transport/src/`, `uinput_device.rs` in `crates/rylus-input/src/`,
`x11.rs` and `pipewire.rs` in `crates/rylus-capture/src/`, the encoder in
`crates/rylus-encode/src/lib.rs`, the browser's code in `ts/lib.ts`.

## 1. The system

```
 browser (ts/lib.ts)                          server
 ┌───────────────────┐  WebSocket   ┌────────────────────────────────────────┐
 │ PointerHandler    │  messages    │ reader task ─inbound(32)─> handler     │
 │ settings          │ ───────────> │                            thread  ──┐ │
 │ heartbeat         │              │                     input device  ◄──┤ │
 │ reconnection      │              │                     portal sessions  │ │
 │                   │              │             commands (unbounded)     │ │
 │ handle_messages   │  control,    │ writer task                          ▼ │
 │ MSE or WebCodecs  │ <─────────── │   ▲   ▲                   capture thread
 └───────────────────┘  video       │   │   └─control(32)── encode (1 slot) │ │
                                    │   └─VideoQueue(4)─── thread  ◄────────┘ │
        login, settings             │                                        │
        ──────────────────────────> │ routes: sessions, rate limiter, config │
                                    └────────────────────────────────────────┘
```

### Components

| component | state it keeps | operations | talks to |
|---|---|---|---|
| **WebSocket transport** (`websocket.rs`) | drop-oldest `VideoQueue` with `Notify` and closed flag, control and inbound channels | `send_video`, `send_message`, `next`, the reader and the writer task | session threads, socket, shutdown semaphore |
| **Capture and encode threads** (`session.rs`: `handle_video`, `encode_thread`) | recorder, pace, pause, encoder sizes, pending keyframe and QP, failure count, recycled buffers; encoder | `VideoCommands`, a frame tick, `EncodeCommand`s | handler thread, transport |
| **Encoder** (`rylus-encode`) | codec contexts, filter graphs, hardware device and frames, muxer; forced-keyframe flag, QP | open with fall-back, encode, set quality, drop | encode thread; its muxer calls back into `send_video` |
| **Capture backends** (`rylus-capture`) | X11: shared-memory segment, sizes, cursor; PipeWire: format, frame, stride | list, record, capture, drop | capture thread; X server, PipeWire |
| **Portal sessions** (`pipewire.rs`) | cached session, acquisition lock, one `Arc` per user of a session | acquire, negotiate, clone, drop | desktop portal, all handler and capture threads |
| **Quality controller** (`session.rs`) | encode-time average, RTT and buffer windows, QP, cool-down | `record`, `decide`, `reset` | capture thread |
| **Handler thread** (`session.rs`: `RylusClientHandler`) | client capabilities, capturable list, devices | one method per message | inbound channel, capture thread, devices |
| **Server lifecycle** (`rylus.rs`, `web.rs`) | threads, `num_clients`, three notifications, semaphore | start, stop, wait, drop; accept loop; upgrade | GUI or signal handler, sessions |
| **Web routes** (`web.rs`, `config.rs`) | access code's hash, session tokens, rate limiter, configuration file | login, update of the settings, static files | browser, file system |
| **Pointer input** (`ts/lib.ts`, `uinput_device.rs`) | palm rejection window; slots, tool keys, pen flags | one arm per event type and device | browser, kernel |
| **Browser connection** (`ts/lib.ts`) | active socket, reconnection count, timer and banner, heartbeat, painter | socket, timer and button callbacks, `ConfigOk` | server, user |
| **Browser player** (`ts/lib.ts`, `ts/webcodecs.ts`) | media source, source buffer and its queue, probe, WebCodecs pipe | one callback per message, `sourceopen`, `updateend`, promises | server |
| **Browser settings** (`ts/lib.ts`) | widgets, capturable list, selection, visibility | change handlers, `onCapturableList` | server |
| **GUI**, mDNS, TLS, logging | widgets, registration, certificate | start/stop button | server lifecycle |

`PROJECT.json` lists every component with the state of its model, and, under
"hazards", what is hard to test in each, with the property that would notice.

### What is hard about it

* **Two kinds of traffic share one socket.** Video is preferred and may drop its
  oldest entries; control messages wait and must not be lost. The writer sleeps
  on a notification that can be remembered once only, next to a channel.
* **Ends that depend on each other.** A session is two tasks and three threads
  with five queues, and each of them ends because another one did. Three of the
  queues block when they are full.
* **The capture thread decides for an encoder it cannot see.** It keeps its own
  record of the encoder's sizes, offers frames that may be dropped, and must not
  lose a keyframe request with a dropped frame.
* **Starting and stopping.** `stop()` has to find every client, including those
  that are being upgraded while it runs, with notifications that reach only
  whoever is already waiting, and it must leave nothing behind that meets the
  next `start()`.
* **Page and server remember different things.** The page keeps its list,
  selection and switches over a reconnection, the server starts afresh; sources
  are named by their place in a list that changes.
* **Many owners of one portal session.** It is closed when the last thread of the
  last client lets go, wherever that is, and the user must not be asked twice. A
  negotiation waits for the user with everybody else waiting behind it. And the user
  may end a session at any time, which nobody is told.
* **Half-finished openings.** Encoders and recorders allocate through C libraries in
  many steps, each of which may fail and fall back to another.
* **Requests wait for their bodies.** What a login or an update has read may no
  longer be so when its body arrives.
* **The browser and the kernel each have their own idea of what is pressed.**
  Events are rejected, dropped or never fired, and keys must not stick.
* **Reconnection.** Callbacks of an old socket, timers and promises outlive the
  connection they belong to.

### What makes each component correct

* Transport: the queue holds the newest frames; each frame is sent, held, queued
  or counted as dropped; control messages are neither lost, repeated nor
  reordered; the newest frame is shown in the end; both tasks end.
* Pipeline: a frame fits the encoder it reaches; a keyframe that was asked for is
  encoded, unless the codec fails on that very frame; buffers are bounded; both threads end; the output is well-formed.
* Stream hand-over: an init segment is lost by the queue's dropping it and in no
  other way; no decoder is given chunks of a stream it was not configured for.
* Recorders and encoder: what `capture()` hands out lies in memory that is mapped,
  and is what it is said to be; every allocation has an owner, whatever failed.
* Portal: one dialog at a time and none without need; no answer is missed; who asks
  for the sources gets an answer, and no session stays shared for nobody.
* Connection and settings: one socket, one heartbeat, one render loop; the banner
  tells the truth and is not silent over a loss; a lost connection is found again or
  the user is told; what is selected is recorded, input goes where the picture is
  from, and a video that is switched off is paused.
* Lifecycle: the client count is exact; `stop()` returns, and leaves nothing; a
  server that was started serves until it is stopped.
* Web: wrong codes are bounded, a lockout ends, a new code ends the old sessions.
* Pointer input: nothing sticks, and the kernel's view agrees with the browser's
  wherever no event was lost.

## 2. Modules

| module | models | composes or implements |
|---|---|---|
| `LiveStream` | what the viewer is promised | abstract |
| `Transport` | `websocket.rs` | implements `LiveStream` |
| `EncodeOutput` | what the encode thread promises about its output | abstract |
| `VideoPipeline` | `handle_video`, `encode_thread`, the life of `VideoEncoder` | implements `EncodeOutput` |
| `Player` | `handle_messages` in the browser, for one connection | |
| `StreamSession` | an encode thread, the queue and writer, the browser's player | extends `Transport`, composes it with `EncodeOutput` and `Player` |
| `ServerService` | what `start` and `stop` promise | abstract |
| `ServerLifecycle` | `rylus.rs`, `run_server`, the `/ws` route, the life of a handler, the GUI's button | implements `ServerService` |
| `Reconnect` | the browser's sockets, reconnection, heartbeat and painter | |
| `ClientSession` | the page's settings, the messages both ways, the session's configuration and its recorder | extends `Reconnect` and implements it |
| `PortalSession` | portal sessions of all clients | |
| `X11Recorder`, `PipeWireRecorder` | the recorders of `x11.rs` and `pipewire.rs` | |
| `EncoderResources` | what opening and dropping a `VideoEncoder` allocates and frees | |
| `MediaThreads` | the recorder of a video thread, the encoder of an encode thread | composes the three above |
| `WebService` | `POST /auth`, `POST /api/config`, sessions, rate limiter, configuration file | |
| `PointerInput` | pointer events from the browser to uinput | |
| `StreamSessionProofs` (with `Transport`'s), `VideoPipelineProofs`, `ServerLifecycleProofs`, `ClientSessionProofs` (with `Reconnect`'s), `PortalSessionProofs`, `WebServiceProofs`, `PointerInputProofs`, `MediaThreadsProofs` | theorems | |
| `MC...` | the constants of the runs | |

A definition that stands for code names it in `PROJECT.json` "map". Definitions
introduced as "a plausible slip" are the wrong versions of the definition that
follows them. No specification uses them; each is there to show that some
property would notice it (where two slips break the same property, `PROJECT.json`
runs one).

### Transport

The writer task is cut at its suspension points and, because a push may come
between any two of its statements, between its drain, the two polls of its
`select!` and the check that follows a notification: `drain`, `frames`,
`select`, `check`, `recv`, `write`. The `Notify` is one Boolean: `notify_one`
sets it and a poll takes it. `close()` is two steps, the flag and then the
notification, since a writer on another worker thread can run between them.
The reader's `select!` loses its shutdown and idle branches while it waits for
room in the inbound channel (`forward`). Frames and messages are numbered in
the order in which they were queued.

### VideoPipeline and EncodeOutput

The capture thread is in its loop (`recv_timeout`), or in one of the blocking
sends. A tick is possible when no command is queued, the pace is finite and the
stream is not paused. The encode thread is in `recv`, in the codec, in a
callback of the muxer (`emit`), or in one of the steps of opening an encoder. A
size is one number, and a limit caps it. The failures the code handles are
switched on by the constant `Faults`. The encode thread may unwind: the channel
then has no receiver, which each of the capture thread's sends meets in its own
way. What the muxer may still put out while the thread unwinds is left out. The history
variable `keyframe` follows a request for a keyframe: asked for, encoded, or lost to a
failure of the codec after the encoder has taken its flag back.
The QP the controller decides on is arbitrary.

### Player and StreamSession

`Player` has an action per callback of `handle_messages`: a new media source for
each `NewVideo`, the codec from `VideoInit`, binary messages through the queue of
`upd_buf` to the source buffer, and, once the probe of `VideoInit` has resolved,
to the WebCodecs pipe, whose decoder waits for an init segment and then for a key
frame. A message is an init segment, a fragment with or without an IDR, or a
trailer. The decoder may fail at any time, which ends the pipe.

`StreamSession` extends `Transport`: the output of `EncodeOutput` goes through the
transport's own `SendVideo` and `SendMessage`, with the encode thread for a sender
and the reader idle, and arrives at `Player`. A behaviour of it is one of
`Transport`, which is proved, so that `Transport`'s theorems hold of it. The
refinement of `VideoPipeline` to `EncodeOutput`, proved as well, is what makes the
short abstract thread a fair stand-in for the two.

### ServerLifecycle

The thread that owns `Rylus`, the web thread with its accept loop and shutdown
loop, per client a connection task, an upgrade task and then a handler thread
with its video thread, and the ui thread. Each notification has the memory its
code gives it: `notify_shutdown` is remembered, `broadcast_shutdown` reaches the
connection tasks that are waiting at that moment, and `notify_disconnect`
reaches `run_server` only in its last `select!`. The count is read and acted on
in two steps. Dropping the runtime cancels every task. `start` and `stop` are
called by the GUI's button, which does what its `ServerState` says (`Clicked`).

### Reconnect

The browser runs one callback at a time, so an action is a callback: a socket's
`open` or `close`, the reconnection timer, the three buttons of the banner, a
`ConfigOk`, a change in the settings that makes a new `PointerHandler`. The first
socket and the later ones have different handlers in the code and so different
actions. A socket that has closed is never heard of again, and its name serves
for a new one; two names besides the first suffice to tell a socket from the one
before it. `beats` counts the intervals that run and `loops` the render loops,
which the code does not count: a handle that is overwritten leaves one running. `dismissed` remembers that the user has closed the banner of a
failure, until the next attempt.

### ClientSession

Reconnect's variables and actions, joined with what the page keeps and sends
(`opts`, `sel`, `enabled`, `hidden`), the messages under way in each direction
(`up`, `down`), and the session on the server: its list, what its input device is
mapped to, the commands to the video thread (`cmds`), recorder and pause. An open
socket begins a new session, and a lost one takes all of that with it, while the
page keeps what it has. Windows come and go; a source is a number, and a list is
sorted, so that an index names another window once an earlier one has gone.
`told` remembers that an error was shown since the last `Config`.

### PortalSession

Each client has a handler thread, whose place in `acquire_portal_session` and in the
negotiation is `pc`, and a video thread, which acts by itself. `held` says which
session each place of each client has an `Arc` to; every step that moves, clones or
drops one is `Hold` of the new assignment, which closes what nobody holds any more.
The portal, too, may end a session that is held (`PortalEnds`): nothing in the code
listens for `Session.Closed`, so the Arcs and the cache stay as they are.
A mismatch keeps its upgraded `Arc` to the end of the block that holds the cache
lock (`WrongMode`, `DropPeek`). A request is a match rule, a call and an answer,
which is heard only if the rule was installed before.

### MediaThreads, X11Recorder, PipeWireRecorder, EncoderResources

`X11Recorder` follows the shared-memory segments: the recorder's own, those the
server process has mapped, those the X server has attached (attaching is only
requested, so either), and those nobody names any more. `PipeWireRecorder` has the
stream's callbacks as actions that are possible while its main loop iterates, in
`new` and in `capture`, and what a frame really is next to what it is said to be. In
`EncoderResources` `heap` counts FFmpeg's live allocations by kind, while the
fields and locals that should own them are records; each back end of each
platform may fail after any of its steps.

`MediaThreads` puts them where they live. The video thread drops the old recorder
before it makes the new one and gives up after `MAX_CAPTURE_FAILURES`; the encode
thread makes the new encoder before it drops the old one. Commands and frames
between the two threads are `VideoPipeline`'s; of the rest they share nothing, so a
behaviour follows one of the two, chosen initially, and the other's state stays.

### WebService

A request is at the point where it waits for its body, and what it has read by then
stands in its record. Failed attempts are a sequence of ages, and `Tick` is time.
The configuration file may be unreadable or be truncated for a moment, as
`read_config` and `write_config` allow. A hash stands for its code.

### PointerInput

What an event does to the device is a function of the device's state, and no
answer comes back, so the browser's event and its handling are one step. A
finger goes through `over`/`enter`, `down`, moves, `up` and `out`/`leave`; a pen
hovers, touches with the tip or the eraser, and may vanish without an event. The
history variable `lost` records why an event has not reached its device (the palm
rejector, the device's own failure, no free slot, a mouse chord), so that a
property can say that two views agree until then.

## 3. Runs

All runs end within four minutes. "pass": TLC explores every state of the
instance.

| run | question | bounds |
|---|---|---|
| `transport_safety` | Is every frame and message accounted for, in order, in every interleaving, and does the transport implement `LiveStream`? | Capacity 2 and 4 frames: the queue overflows twice, once with a batch in the writer's hands. One control slot and two messages: a sender blocks. Two inbound messages and one slot: the reader blocks. |
| `transport_live` | Is the newest frame shown and every message sent, and do both tasks end, on a shutdown, a failed socket or a close frame? | two frames through one slot, one message, two inbound messages through one slot |
| `pipeline` | Do frames fit encoders, is a keyframe that was asked for encoded unless the codec loses it, are buffers bounded, do the threads end and is the output well-formed, with every failure the code handles? | two sizes, and a limit that changes one of them only; two failures in a row to lose the recorder; three commands; one QP, which no property depends on |
| `stream` | What survives a queue that drops, a channel that waits, and a player that changes hands? | three streams, five binary messages, a queue of two |
| `lifecycle` | Is the count exact, does `stop()` return and leave nothing, and does a second server start clean? | two clients, two starts: a client of the first server meets the second; one slot in the ui channel |
| `session` | Do page and server agree on source, input and pause after whatever was selected, switched and lost, and is there one socket, heartbeat and render loop, a true banner that is not silent over a loss, an end to each loss? | a window that stays and one that comes and goes before it in the list, so that an index can name either; two attempts: one fails or succeeds, one is the last; nothing new is asked while two messages are under way (answers to them may be more); two names for later sockets |
| `portal` | Is there one dialog at a time and none without need, is every answer heard, does everybody who asks get a list in the end, and does no session stay shared for nobody? | two clients and two sessions: a cursor mode displaces a session that another client still uses; one of the two clients starts videos (`Recording`), both list, change the mode and leave; the portal may end any session; the longest chain of requests |
| `media` | Is memory that is handed out mapped and described as it is, and does every allocation have an owner? | two sizes; cursors left of, in and right of the target; three segments; the hardware back ends of Linux, Windows and macOS; two encoders, so that one is opened while another is in use; two failures to lose a recorder |
| `web` | Are guesses bounded, does a lockout end, does a new code end old sessions? | two requests that overlap, two codes; a limit of three, a window of twice the lockout |
| `input` | Do the device's records agree with the keys it holds down whatever is lost, and with the browser until something is? | three fingers, two slots; two mouse buttons |

The constants that bound a run stand in the guards of the environment's actions
(`MaxFrames`, `MaxControl`, `MaxIncoming`, `MaxCommands`, `MaxStarts`, `MaxStreams`,
`MaxInFlight`, `Recording`) or of the step that uses up a name (`MaxSessions`, `MaxSegments`,
`MaxOpens`): once they are used up, the environment is silent and the program runs
on. They limit how often something happens, never in which order. The capacities
of the code (4 frames, 32 messages) are replaced by one or two, so that few steps
fill a queue; the theorems hold for all of them.

`CHECK_DEADLOCK FALSE` is set where the system may stop: a session ends, the
threads return, `Rylus` is dropped, the bound on segments or encoders is used up.
The other instances never stop and are checked for deadlock.

### Disagreements with comments and documents

Each "violation" run checks one sentence of a comment or a document and finds
behaviour of the code that contradicts it.

| run | the sentence | what the code does |
|---|---|---|
| `stream_new_video` | the client prepares a fresh session for `NewVideo` and then gets the stream | The init segment is pushed before the writer has sent `NewVideo`, goes to the old media source, and the new one never gets it. |
| `cursor` | "We only write within bounds guaranteed by the clamping above." (`x11.rs:870`) | With the cursor right of the captured area the first column is clamped to a negative number and the last to 0: columns outside the image are painted. |

More were met while modelling and are kept here without a run of their own. Where
a property would otherwise claim more than the code does, it names the case.

*Stream and codec.*

* `websocket.rs:212` says that the reader's `close()` releases the writer. A push
  that meets the close shares the one notification with it; the writer may spend
  it on that frame and then waits until the senders are dropped. The session
  drops them a moment later. `QuietCloseReleasesWriter` states what does hold.
* The writer has no timeout on a write.
* `session.rs:734-736` says that a client which asked for a keyframe "must get one",
  `docs/PROTOCOL.md` (3.3) that the encoder emits it "on its next output frame".
  `encode_frame` takes `force_keyframe` back before `avcodec_send_frame` may fail
  (`rylus-encode/src/lib.rs:1258-1270`): one failure of the codec loses the request,
  and nothing repeats it. `KeyframeServed` has this as an exception of its own
  (`keyframe = "lost"`).
* `docs/PROTOCOL.md` says of `ConfigOk` that capture and encode have started. It
  is sent when the recorder exists; the encoder is opened later and may fail.
* When `VideoEncoder::new` fails, the sizes recorded for it already match, so that
  no frame of the same size tries again: the stream stays silent until a resize,
  a `Config` or a `RestartVideo`. It is one of the exceptions of `KeyframeServed`.
* The blocking send of `Restart` waits for the slot, not for the encoder: the next
  frame finds the `Restart` still in the slot and is dropped.
* The comment at `session.rs:549` says that the default QP is used after an encoder
  restart. Only `RestartVideo` resets the controller; after a restart by a new size
  or a `Config` it keeps its QP while the encoder has the default, and a
  `pending_qp` survives the reset.
* `consecutive_capture_failures` is not reset by `Start` (`session.rs:753`): the
  recorder made after a loss is given up at its first failure (`GiveUp`).
* WebCodecs: when the probe of `VideoInit` resolves (`lib.ts:1261`), the stream's
  init segment has already gone to the media source; the new pipe has no decoder and
  discards the key frame it asked for and all that follow, until a restart. No property
  catches this: `DecoderFedItsStream` speaks of decoders that there are.
* The hardware back ends always encode H.264, while `codec_string` goes by the codec
  that was configured, and they ignore `all_intra`.
* The AVIO buffer is never freed: `avio_context_free` leaves it to the caller. The
  comment in the encoder's drop (1337) says that each allocation of `open_video` is
  freed exactly once. `HeapIsOwned` excepts it.

*Capture.*

* A format that is negotiated while a PipeWire frame waits gives that frame the next
  one's size (`pipewire.rs:400`). `ServedAsReceived` excepts it, so it would not notice
  this case getting worse.
* When no id can be had for a shared-memory segment, or, in `RecorderX11::new`, the
  attach request cannot be sent, the segment stays mapped and is forgotten
  (`lost`). A composite redirection is not undone.
* A monitor's `geometry()` comes from the enumeration at listing time, a capture asks
  anew (`x11.rs:125`, `587`): pointer input may be mapped to where it was.
* A portal session that another one, of the other cursor mode, has displaced in the
  cache is forgotten though somebody holds it: the user is asked again.
  `NoNeedlessDialog` speaks of the newest session.
* "The portal session (...) remains active on the compositor side until explicitly
  closed" (`pipewire.rs:77-78`). The user may stop sharing, and nothing listens for
  `Session.Closed`: the cache goes on offering the ended session as long as anybody has
  an `Arc` to it. A client that asks again is one of them through its own old list, so
  that it gets the ended session until every client has left or wants the other
  cursor mode (`PortalEnds`, then `Reuse`).
* A mismatched `Arc` that turns out to be the last is dropped under the lock of
  `PORTAL_CACHE`, which closes the session over D-Bus (up to 500 ms); a negotiation
  that fails never calls `Close` and leaves this to the end of its connection.

*Page, session and web.*

* When the selected window is gone the page selects nothing, and sends source 0, the
  desktop, at once (`lib.ts:447`, `309`). `ShownIsCaptured` speaks of a selection.
* Of several windows with the same title a new list selects the last.
* A page that reconnects while it is hidden is streamed to until it is hidden again
  (`lib.ts:1650`).
* `handle_disconnect` stops the render loop for the page's first socket; the later
  ones' `onclose` (`lib.ts:1628`) does not call it, against the comment at 1694.
* A `HelloNack` does not end the session on the server. A failed uinput device
  consumes `client_name_changed` (`session.rs:284`), so the next `Config` may not
  make a new one for the name.
* Whether the access code is new is decided against the file, not the hash in use
  (`web.rs:799`); updates that overlap lose one another's settings; a file that
  cannot be read for a moment is taken for the defaults and written back.
* The session of a login that was overtaken by a change of the code stays. It is
  `late` in `SessionsAreCurrent`, which therefore does not notice it; a socket that is
  already open stays too, and is not in the model.
* `docs/SECURITY-REVIEW.md:94-95` says that the limiter "bounds online brute-force
  attempts against the access code to 5 tries per 60-second window per source IP".
  It does not: attempts that pass the check before the fifth failure is recorded are
  all tried (`web.rs:443-507`), and after the 30 seconds of the lockout another
  attempt passes while the first five are still in the window, and another 30 seconds
  after that. `AttemptsBounded` states what the code keeps instead: within a lockout,
  fewer failures than the limit plus the requests under way.

*Input.*

* The palm rejector drops releases as well as presses (`lib.ts:989`): a finger that
  lifts during its window stays in its slot (`uinput_device.rs:512`).
* Once an event is lost, `KernelCountsFingers` promises nothing; only
  `LiftedMeansReleased` and `PenKeysFollow` speak of that case.
* `BTN_TOUCH` is released when any one of several fingers lifts
  (`uinput_device.rs:575`).
* The second button of a mouse chord is reported as a move, whose button is
  ignored on both sides (`uinput_device.rs:699`).

## 4. Fairness

Safety runs assume none. The others assume the following.

* *Transport.* The runtime polls a task that can proceed: weak fairness of the
  writer's and the reader's own steps and of the handler's `next()`. Sending over
  the socket is weakly fair as well; this is an assumption about the peer, which
  keeps reading until the connection breaks, since the writer has no write
  timeout. No fairness for the peer, the idle timer, the shutdown or the session
  threads: they may do nothing for ever.
* *VideoPipeline.* Weak fairness of each thread as a whole: one that can go on
  does. This includes that `recv_timeout` returns at its deadline and that the
  transport takes what a send carries. The handler owes nothing.
* *ServerLifecycle.* Threads and tasks run; a peer finishes or fails its TLS
  handshake, and takes the upgrade's response or goes; a session that was told
  to end ends. The accept loop awaits a handshake without a timeout, so that
  `stop()` cannot be shown to return without the first of these. Blocking sends
  to the ui channel are served in turn (strong fairness), as tokio's channel
  queues its senders. Nobody has to connect, leave, panic or call `stop()`.
* *Reconnect and ClientSession.* The timer fires, and a socket that is connecting
  opens or closes in the end, as browsers promise. No fairness for an open
  connection, which may last, for the user, or for messages. Under it
  `LossIsResolved` holds because the attempts are counted.
* *PortalSession.* A handler thread that can go on does, the end of its 300 rounds of
  waiting included. It is strong fairness because of the two mutexes, which others may
  take in between: parking_lot hands them over fairly in the end. The portal and its
  user may never answer.
* *WebService.* Time passes (weak fairness of `Tick`). Nobody has to log in or to
  stop trying: `LockoutLifted` holds against an address that never stops.

## 5. Proofs

The eight proof modules are checked by `tlapm`, leaf by leaf. They rest on the
assumptions named in the modules they are about (`TransportAssumption`,
`StreamAssumption`, `PipelineAssumption`, `LifecycleAssumption`,
`ReconnectAssumption`, `SessionAssumption`, `PortalAssumption`, `WebAssumption`,
`PointerAssumption`, `MediaAssumption`: capacities and limits are positive, sets of
clients, windows, requests and fingers that are counted are finite, a later socket
has a name other than the last one's, sizes are natural numbers and the cursor may be
anywhere, a build tries a subset of the four hardware back ends) and on the library's
theorems on sequences, finite sets and functions. Except for a few lemmas the
argument is the same each time: an invariant that is inductive, one lemma per action
for its preservation, and the properties as its consequences.

**Transport.** `TypeOK` is not inductive: that the writer has a message in hand
exactly when it is about to write one, and a batch exactly when it is sending
one, is needed to know that `Head` is applied to something. `TypeInv` adds this.
`VideoInv` says that the batch and the queue are runs of consecutive numbers,
the queue's ending with the newest frame, the batch's lying between the last
frame sent and the queue; `FramesKept` is its consequence. `StreamInv` says that
whatever lies between the last frame sent and the head of the batch, or between
the batch and the queue, has been displaced by `VideoCapacity` newer frames. With it
`WriterSendFrame` is a `Show` of `LiveStream`, `SendVideo` is a `Produce`, and
everything else stutters: `ImplementsLiveStream`. `ControlInv` and `InboundInv` say
which messages are owed, and give `MessagesInOrder`. `BurstsAreFinished` proves the
action property `NoFrameAbandoned`.

**StreamSession.** `SessionUsesTransport` and `SessionUsesEncoder` show that each
step is one of `Transport` and one of `EncodeOutput`, or a stutter, and carry what is
proved of them over; `SessionImplementsLiveStream` is an instance. The rest relates
a history the code does not keep, which part every binary message was, to both ends.
`PartsInOrder`: init segments and fragments were handed over stream by stream (a
trailer may follow the next stream's init segment), and an init segment before
anything else of its stream. `ArrivesOrDropped`: a message not newer than the last one
sent has been received or has been displaced by `VideoCapacity` newer ones.
`InitsAreLostOnlyByDrop` follows from the two. `DecoderFromInit`: a decoder was
configured by an init segment that was received, none was received after it, and
what the decoder was fed came later. If it was fed another stream, that stream's init
segment came after the decoder's in the order of `PartsInOrder` and was not received,
so that it was displaced: `DecodersAreFedTheirStream`.

**VideoPipeline.** The capture thread's record `encIn` is of the encoder that *will*
be there, not of the one that is. `WillFit(size)` says this of the encode thread's
state: the encoder it has once the command it is working on is done is one for
that size, or there is none. `WillFitAfterSlot` says it for the time when the slot
is empty too. `SizeInv` claims the first of a frame in the slot and the second of
`encIn`, whenever the thread is not about to send a `Restart`, and is inductive with
`CaptureInv` (what the thread holds from the capture to the offer), `EncodeInv`
(what the encode thread holds at each place) and the types. `FramesFit` follows, for
all sizes, limits and failures, the encoder that fails to open and the thread that
panics included. `BuffersBounded` is preserved because every step moves a
buffer from one of its five places to another, or drops or makes one when a place
is known to be empty. `ImplementsOutput` shows that each step is, of `OutputAt`, a
step of `EncodeOutput` or a stutter.

**ServerLifecycle.** The inductive invariant `IInv` consists of named parts:
`ThreadsInStep` (where the web and ui threads can be, given where the main thread
is), `PermitIsForThisServer` (a remembered notification belongs to a `stop()`
that has not been served), `UiInStep`, `NoTasksWithoutRuntime`,
`NoSessionsWithoutServer` (when the web thread is done nothing is left but
threads already counted out), `VideoOwned` (a video thread alive has a handler
that has not joined it, or whose handler panicked) and `CountInv` (`num_clients`
is the number of clients that are counted in and not yet out). `ClientsCounted`
alone is not inductive: that it survives the next `start()`, which resets the
counter under threads of the last server, needs `NoSessionsWithoutServer`.
`CountIsExact` and `StopIsComplete` follow, and `ImplementsService` shows each step
to be one of `ServerService` or a stutter.

**Reconnect.** `IInv` is the safety properties and three facts that make them
inductive. `CountInv`: while the page is reconnecting the count is one that the
limit allows, so that another failure can be scheduled or given up.
`FirstNeedsNoRetry`: as long as the page's first socket lives nothing is being
retried, which is why `handle_disconnect`'s early return never hides a loss.
`BeatInv`: the intervals that run are those the variable knows of, so that stopping
one stops all.

**ClientSession.** Every step of the session is, of the connection's variables, a
step of `Reconnect` or a stutter (`SessionImplementsConnection`, and with
fairness `SessionImplementsLiveConnection`), so all that holds of `Reconnect` holds
here; `SessionHasOneSocket` is one such theorem. What page and server believe of each
other is stated by saying of each belief that it is right *or that the message
which will correct it is under way*: `ListHeard` (the page's list is the server's,
or a list or a request for one is on its way), `ChoiceHeard` (the selection is
mapped and recorded, or a `Config`, a `Start` or an error is), `SwitchHeard` (the
pause is what the last switch under way says) and `DeviceHeard` (the last `Start`
under way names the device's source). With nothing under way, these are
`ChoiceIsCaptured`, `PauseIsWanted` and `InputActsOnVideo`. `PauseIsWanted` does not say
that a hidden page is paused: one that connects while it is hidden is not
(`lib.ts:1650`).

**PortalSession.** `LockInv`: whoever is between acquiring and storing has the lock,
hence `OneNegotiates`. `TalkInv`: a request that was made has its rule.
`NegotiationInv` and `NumberInv`: the session under negotiation is the newest and
nobody holds it yet, which makes a session that is stored the newest. `CacheInv`: the
newest session, while anybody holds it, is the cached one or about to be; with the
second look at the cache under the lock, `NoDialogIsNeedless` follows.

**WebService.** `AttemptsInv` bounds the failures younger than the lockout by the
limit, less one, plus the requests that have passed the check and not been answered:
once the limit is reached and the last failure is young, nobody passes. It needs
that the ages are ordered. `RotationEndsSessions` follows the session from its login:
it is `late` when the code changed before it was made, and cleared otherwise.

**PointerInput.** `PenIsFollowed` and `NothingSticks` hold in every step.
`FingersAreCounted` needs `CountInv`: each finger has one slot at most, one
finger at a time is between two states (the browser fires the events of a touch
together), and, until an event is lost, the fingers that have a slot are those the
device has heard of.

**MediaThreads.** The behaviour follows one thread, so its invariant has three parts
that do not mention each other. `RecorderInv`: segments are numbered as they are made,
so that a new one is neither mapped nor forgotten yet (`SegmentsAreSound`).
`FrameInv`: what the callbacks say of the frame that waits is true of its bytes,
unless the format has changed since, and its stride is true even then; `Serve` then
leaves header and bytes in agreement (`FramesAreServedAsReceived`). `EncoderInv`:
`HeapIsOwned` is not inductive by itself. `OpenCodec` moves the locals into fields of
which `Scalers` owns exactly three contexts, so `LocalsInOrder` has to say that three
graphs mean three input frames, a frame and a codec, that the pool is there exactly if
the device is, and that nothing is made before the device; `FieldsInOrder` says
which fields are set at which step of `open_video`. The owners' sums are taken
apart by kind (`OwnedByFields`, `OwnedByLocals`), and each action then adds one to a
kind and to one of its owners, or takes the same from both: `HeapStaysOwned` and
`EncodersInUseAreComplete`. `ForemostIsOne` shows that there is always a back end left
to try. `CursorBoundsMissTheRight` says how far the promise that run `cursor`
refutes is kept: for all sizes and positions, exactly while the cursor's image starts
at or left of the captured area's right edge.

**Only model-checked.** Liveness (`NewestFrameShown`, `ControlSent`,
`QuietCloseReleasesWriter`, `TasksEnd`, `KeyframeServed`, `ThreadsEnd`,
`StopReturns`, `LossIsResolved`, `PortalServes`, `LockoutLifted`): temporal reasoning under fairness
is beyond the proof system's backends here. Every other property of a passing run
is a theorem. Type invariants are not among the properties of the runs where a
theorem proves them.

## 6. Not modelled

See the notes in `PROJECT.json`. In short: routes that only read; tables and
conversions (keyboard, wheel, colours, scaling, codec options); Core Graphics and
Windows capture, Enigo input, mDNS and TLS set-up, which are thin layers over
platform libraries; presentation; tools run by hand. The quantities the quality
controller measures are floating-point; its decision is arbitrary here.

The X server, PipeWire, the portal, FFmpeg's own code and the browser are
environments: they do what the code allows for. A session's modules are
composed in pairs and threes (`StreamSession`, `ClientSession`, `MediaThreads`),
never as one: the product of all of them is out of TLC's reach.

## 7. What is left

1. A session as a whole: `RylusClientHandler::run` with `Transport` and
   `VideoPipeline`, in which a blocked control channel holds up the capture
   thread; its deadlock freedom, at a smaller grain than the two modules have.
2. The quality controller as a function of its measurements: its windows, bounds
   and cool-down, in fixed-point arithmetic.
3. Keyboard events and wheel; the mapping of the device to a screen.
4. Frames that PipeWire delivers while the format changes, if the code comes to
   tell them apart; then `ServedAsReceived` loses its exception.
