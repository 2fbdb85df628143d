----------------------------- MODULE VideoPipeline -----------------------------
(***************************************************************************)
(* crates/rylus-server/src/session.rs: handle_video (the capture thread)   *)
(* and encode_thread, with the VideoEncoder of crates/rylus-encode that    *)
(* the encode thread owns.                                                 *)
(*                                                                         *)
(*   handler --cmds (unbounded)--> capture --encCh (one slot)--> encode    *)
(*                                   ^                             |       *)
(*                                   '------ returned buffers -----'       *)
(*                                                                         *)
(* What the two threads hand to the transport (control messages, whose     *)
(* send may block, and video bytes) leaves by the actions CaptureSay,      *)
(* EncodeSay and EncodeEmit: a composition joins these with the            *)
(* transport's sends.                                                      *)
(*                                                                         *)
(* A frame's width and height are abstracted to one number.  The quality   *)
(* controller is abstracted to the QP it holds and an arbitrary decision.  *)
(***************************************************************************)
EXTENDS Naturals, Sequences, FiniteSets

CONSTANTS
  Sizes,        \* sizes a capture can have
  Limits,       \* maximum sizes a client can configure
  Qps,          \* QPs the quality controller can choose
  QpDefault,    \* QP_DEFAULT, which is also the QP of a new encoder
  MaxFailures,  \* MAX_CAPTURE_FAILURES
  Faults,       \* the failures of AllFaults that happen in this instance
  MaxCommands   \* bound: commands the handler sends in a behaviour

(* capture: Recorder::capture fails; open: VideoEncoder::new fails; small, *)
(* scale, codec: encode refuses the frame's buffer, or its filter graph or *)
(* codec fails; panic: the encode thread unwinds.                          *)
AllFaults == {"capture", "open", "small", "scale", "codec", "panic"}

ASSUME PipelineAssumption ==
  /\ Sizes \subseteq Nat \ {0} /\ Sizes # {}
  /\ Limits \subseteq Nat \ {0} /\ Limits # {}
  /\ Qps \subseteq Nat \ {0} /\ QpDefault \in Qps
  /\ MaxFailures \in Nat \ {0}
  /\ Faults \subseteq AllFaults
  /\ MaxCommands \in Nat

VARIABLES
  cmds,         \* video_sender -> receiver
  issued,       \* commands sent so far
  handler,      \* the handler still holds video_sender
  cpc,          \* where the capture thread is
  recorder,     \* recorder.is_some()
  paced,        \* frame_duration is finite
  paused,
  limit,        \* max_width, max_height
  encIn,        \* enc_width_in, enc_height_in; 0 forces a restart
  encOut,       \* enc_width_out, enc_height_out
  pendingKey,   \* pending_keyframe
  pendingQp,    \* pending_qp (NoQp: None)
  ctlQp,        \* quality.current_qp
  failures,     \* consecutive_capture_failures
  frame,        \* size of the frame just captured, until it is offered
  spare,        \* spare_buffer.is_some()
  inHand,       \* the capture thread holds a filled pixel buffer
  captureSay,   \* the control message the capture thread is sending
  encCh,        \* encode_tx -> encode_rx, one slot
  epc,          \* where the encode thread is
  encoder,      \* video_encoder
  fresh,        \* the encoder just opened and not yet stored in video_encoder
  job,          \* the command the encode thread is working on
  returned,     \* pixel buffers in buffer_return_tx -> buffer_return_rx
  emit,         \* the kind of video bytes the encode thread is sending
  keyframe      \* history: what became of the last keyframe request

streamVars  == <<recorder, paced, paused, limit, failures>>
requestVars == <<pendingKey, pendingQp, ctlQp>>
sizeVars    == <<encIn, encOut>>
bufferVars  == <<spare, inHand>>
captureVars ==
  <<cpc, streamVars, requestVars, sizeVars, bufferVars, frame, captureSay>>
encodeVars  == <<epc, encoder, fresh, job, emit>>
commandVars == <<cmds, issued, handler>>
vars == <<commandVars, captureVars, encCh, encodeVars, returned, keyframe>>

NoQp == 0
NoSay == "none"
NoEncoder == [size |-> 0, out |-> 0, qp |-> NoQp, force |-> FALSE]
NoEmit == "none"
NoJob == [do |-> "none"]

Encoders == [size : Sizes, out : Nat, qp : Qps, force : BOOLEAN]

(* VideoCommands; ClientRtt and BufferHealth only feed the controller.     *)
Commands ==
  [do : {"start"}, limit : Limits, paced : BOOLEAN]
    \cup [do : {"pause", "resume", "restart", "keyframe", "feedback"}]

(* EncodeCommand.                                                          *)
FrameJob(size, key, qp) == [do |-> "frame", size |-> size, key |-> key, qp |-> qp]
RestartJob(size, out) == [do |-> "restart", size |-> size, out |-> out]
StopJob == [do |-> "stop"]

Jobs ==
  [do : {"frame"}, size : Sizes, key : BOOLEAN, qp : Qps \cup {NoQp}]
    \cup [do : {"restart"}, size : Sizes, out : Nat]
    \cup {StopJob}

CaptureStates ==
  {"loop", "say", "restart", "take", "offer", "stop", "join", "done"}
EncodeStates ==
  {"recv", "encode", "emit", "new_video", "open", "video_init", "swap", "done"}
Emissions == {"init", "key", "delta", "trailer"}

(* none: never asked for, or a keyframe was encoded since; lost: the codec *)
(* failed on the frame that carried the request.                           *)
KeyframeRequests == {"none", "asked", "lost"}

Init ==
  /\ cmds = <<>> /\ issued = 0 /\ handler = TRUE
  /\ cpc = "loop" /\ recorder = FALSE /\ paced = FALSE /\ paused = FALSE
  /\ limit \in Limits /\ encIn = 0 /\ encOut = 0
  /\ pendingKey = FALSE /\ pendingQp = NoQp /\ ctlQp = QpDefault
  /\ failures = 0 /\ frame = 0 /\ spare = FALSE /\ inHand = FALSE
  /\ captureSay = NoSay
  /\ encCh = <<>>
  /\ epc = "recv" /\ encoder = NoEncoder /\ fresh = NoEncoder /\ job = NoJob
  /\ returned = 0 /\ emit = NoEmit /\ keyframe = "none"

--------------------------------------------------------------------------------
(* The handler's end of the command channel.                               *)

Command(c) ==
  /\ handler
  /\ issued < MaxCommands
  /\ issued' = issued + 1
  /\ cmds' = IF cpc = "done" THEN cmds ELSE Append(cmds, c)
  /\ UNCHANGED <<captureVars, encodeVars, handler, encCh, returned, keyframe>>

(* run() leaves its message loop and drops video_sender.                   *)
HandlerEnds ==
  /\ handler
  /\ handler' = FALSE
  /\ UNCHANGED <<captureVars, encodeVars, cmds, issued, encCh, returned, keyframe>>

--------------------------------------------------------------------------------
(* The capture thread: commands.                                           *)

Taking(do) ==
  /\ cpc = "loop"
  /\ cmds # <<>>
  /\ Head(cmds).do = do
  /\ cmds' = Tail(cmds)
  /\ UNCHANGED <<bufferVars, encodeVars, issued, handler, frame, encCh,
                 returned>>

(* The old recorder is dropped, a new one may fail to open; either way the *)
(* next captured frame restarts the encoder.                               *)
TakeStart ==
  /\ Taking("start")
  /\ \/ /\ recorder' = TRUE
        /\ limit' = Head(cmds).limit
        /\ captureSay' = "ConfigOk"
     \/ /\ recorder' = FALSE
        /\ UNCHANGED limit
        /\ captureSay' = "Error"
  /\ cpc' = "say"
  /\ encIn' = 0
  /\ paced' = Head(cmds).paced
  /\ UNCHANGED <<requestVars, paused, encOut, failures, keyframe>>

TakePause ==
  /\ Taking("pause")
  /\ paused' = TRUE
  /\ UNCHANGED <<requestVars, sizeVars, cpc, recorder, paced, limit, failures,
                 captureSay, keyframe>>

TakeResume ==
  /\ Taking("resume")
  /\ paused' = FALSE
  /\ UNCHANGED <<requestVars, sizeVars, cpc, recorder, paced, limit, failures,
                 captureSay, keyframe>>

(* quality.reset(), but pending_qp keeps what was decided before.          *)
TakeRestart ==
  /\ Taking("restart")
  /\ encIn' = 0
  /\ ctlQp' = QpDefault
  /\ UNCHANGED <<streamVars, cpc, encOut, pendingKey, pendingQp, captureSay,
                 keyframe>>

TakeKeyframe ==
  /\ Taking("keyframe")
  /\ pendingKey' = TRUE
  /\ keyframe' = "asked"
  /\ UNCHANGED <<streamVars, sizeVars, cpc, pendingQp, ctlQp, captureSay>>

TakeFeedback ==
  /\ Taking("feedback")
  /\ UNCHANGED <<streamVars, requestVars, sizeVars, cpc, captureSay, keyframe>>

(* send_message of ConfigOk or Error; it may block in a composition.       *)
CaptureSay ==
  /\ cpc = "say"
  /\ captureSay' = NoSay
  /\ cpc' = "loop"
  /\ UNCHANGED <<commandVars, streamVars, requestVars, sizeVars, bufferVars,
                 encodeVars, frame, encCh, returned, keyframe>>

(* recv_timeout finds every sender dropped.                                *)
TakeDisconnect ==
  /\ cpc = "loop"
  /\ cmds = <<>>
  /\ ~handler
  /\ cpc' = "stop"
  /\ UNCHANGED <<commandVars, streamVars, requestVars, sizeVars, bufferVars,
                 encodeVars, frame, captureSay, encCh, returned, keyframe>>

--------------------------------------------------------------------------------
(* The capture thread: a frame is due.                                     *)

(* recv_timeout times out: no command is queued, the pace is finite and    *)
(* the stream is not paused.  With no recorder the tick does nothing.      *)
Due == cpc = "loop" /\ cmds = <<>> /\ handler /\ paced /\ ~paused /\ recorder

TickFails ==
  /\ Due
  /\ "capture" \in Faults
  /\ failures' = failures + 1
  /\ IF failures + 1 >= MaxFailures
       THEN recorder' = FALSE /\ captureSay' = "Error" /\ cpc' = "say"
       ELSE UNCHANGED <<recorder, captureSay, cpc>>
  /\ UNCHANGED <<commandVars, requestVars, sizeVars, bufferVars, encodeVars,
                 paced, paused, limit, frame, encCh, returned, keyframe>>

Scaled(size) == IF limit < size THEN limit ELSE size

(* A plausible slip: only the output size is compared, so a start or a     *)
(* capture whose scaled size is the old one keeps the old encoder.         *)
NeedsRestartOnOutput(size) == encOut # Scaled(size)

NeedsRestart(size) == encIn # size \/ encOut # Scaled(size)

TickCaptures(size) ==
  /\ Due
  /\ failures' = 0
  /\ frame' = size
  /\ encIn' = size
  /\ encOut' = Scaled(size)
  /\ cpc' = IF NeedsRestart(size) THEN "restart" ELSE "take"
  /\ UNCHANGED <<commandVars, requestVars, bufferVars, encodeVars, recorder,
                 paced, paused, limit, captureSay, encCh, returned, keyframe>>

(* The one slot of sync_channel(1).                                        *)
SlotFree == encCh = <<>>

(* A plausible slip: Restart and Stop, too, are only tried.                *)
SendTrying(job_) ==
  encCh' = IF epc # "done" /\ SlotFree THEN <<job_>> ELSE encCh

(* encode_tx.send waits for the slot; if the encode thread is gone the     *)
(* error is ignored.                                                       *)
SendWaiting(job_) ==
  \/ epc # "done" /\ SlotFree /\ encCh' = <<job_>>
  \/ epc = "done" /\ UNCHANGED encCh

SendRestart ==
  /\ cpc = "restart"
  /\ SendWaiting(RestartJob(encIn, encOut))
  /\ cpc' = "take"
  /\ UNCHANGED <<commandVars, streamVars, requestVars, sizeVars, bufferVars,
                 encodeVars, frame, captureSay, returned, keyframe>>

(* A plausible slip: the spare is kept and a returned or new buffer taken. *)
ReturnedElseNew ==
  /\ UNCHANGED spare
  /\ returned' = IF returned > 0 THEN returned - 1 ELSE returned

(* The spare buffer, else a returned one, else a new one.                  *)
SpareElseReturnedElseNew ==
  /\ spare' = FALSE
  /\ returned' = IF ~spare /\ returned > 0 THEN returned - 1 ELSE returned

TakeBuffer ==
  /\ cpc = "take"
  /\ SpareElseReturnedElseNew
  /\ inHand' = TRUE
  /\ cpc' = "offer"
  /\ UNCHANGED <<commandVars, streamVars, requestVars, sizeVars, encodeVars,
                 frame, captureSay, encCh, keyframe>>

(* quality.decide: a changed QP becomes pending.  keptQp is what pending_qp*)
(* holds once the frame was offered.                                       *)
Decide(keptQp) ==
  /\ ctlQp' \in Qps
  /\ pendingQp' = IF ctlQp' # ctlQp THEN ctlQp' ELSE keptQp

(* try_send found the slot free: the requests ride along with the frame.   *)
OfferTaken ==
  /\ cpc = "offer"
  /\ epc # "done" /\ SlotFree
  /\ encCh' = <<FrameJob(frame, pendingKey, pendingQp)>>
  /\ pendingKey' = FALSE
  /\ Decide(NoQp)
  /\ inHand' = FALSE /\ frame' = 0
  /\ cpc' = "loop"
  /\ UNCHANGED <<commandVars, streamVars, sizeVars, encodeVars, spare,
                 captureSay, returned, keyframe>>

(* A plausible slip: the dropped frame takes its requests with it.         *)
RequestsForgotten == pendingKey' = FALSE /\ Decide(NoQp)

RequestsKept == UNCHANGED pendingKey /\ Decide(pendingQp)

(* try_send found the slot taken: the frame is dropped, its buffer and the *)
(* requests are kept for the next one.                                     *)
OfferFull ==
  /\ cpc = "offer"
  /\ epc # "done" /\ ~SlotFree
  /\ spare' = TRUE
  /\ RequestsKept
  /\ inHand' = FALSE /\ frame' = 0
  /\ cpc' = "loop"
  /\ UNCHANGED <<commandVars, streamVars, sizeVars, encodeVars, captureSay,
                 encCh, returned, keyframe>>

(* try_send found the encode thread gone: handle_video returns.            *)
OfferDisconnected ==
  /\ cpc = "offer"
  /\ epc = "done"
  /\ inHand' = FALSE /\ frame' = 0
  /\ recorder' = FALSE
  /\ cmds' = <<>>
  /\ cpc' = "done"
  /\ UNCHANGED <<requestVars, sizeVars, encodeVars, issued, handler, paced,
                 paused, limit, failures, spare, captureSay, encCh,
                 returned, keyframe>>

(* After the loop: encode_tx.send(Stop), then join.                        *)
SendStop ==
  /\ cpc = "stop"
  /\ SendWaiting(StopJob)
  /\ cpc' = "join"
  /\ UNCHANGED <<commandVars, streamVars, requestVars, sizeVars, bufferVars,
                 encodeVars, frame, captureSay, returned, keyframe>>

EncodeEnded == epc = "done"

Join ==
  /\ cpc = "join"
  /\ EncodeEnded
  /\ recorder' = FALSE
  /\ cpc' = "done"
  /\ UNCHANGED <<commandVars, requestVars, sizeVars, bufferVars, encodeVars,
                 paced, paused, limit, failures, frame, captureSay, encCh,
                 returned, keyframe>>

--------------------------------------------------------------------------------
(* The encode thread.                                                      *)

(* buffer_return_tx.try_send: a third returned buffer is let go.           *)
BufferBack == returned' = IF returned < 2 THEN returned + 1 ELSE returned

(* The encode thread takes the next command.                               *)
Receiving(do) ==
  /\ epc = "recv"
  /\ encCh # <<>>
  /\ Head(encCh).do = do
  /\ encCh' = <<>>
  /\ UNCHANGED <<commandVars, captureVars, fresh>>

(* No encoder: the frame is dropped, and what rode along with it.          *)
RecvFrameUnopened ==
  /\ Receiving("frame")
  /\ encoder = NoEncoder
  /\ BufferBack
  /\ UNCHANGED <<epc, encoder, job, emit, keyframe>>

(* set_quality: the codec's QP, for the frames from now on.                *)
SetQuality(enc, qp) == IF qp = NoQp THEN enc ELSE [enc EXCEPT !.qp = qp]

(* request_keyframe                                                        *)
RequestKeyframe(enc, key) == [enc EXCEPT !.force = @ \/ key]

(* set_quality, then request_keyframe, then encode begins.                 *)
RecvFrame ==
  /\ Receiving("frame")
  /\ encoder # NoEncoder
  /\ LET f == Head(encCh)
     IN  /\ job' = f
         /\ encoder' = RequestKeyframe(SetQuality(encoder, f.qp), f.key)
  /\ epc' = "encode"
  /\ UNCHANGED <<emit, returned, keyframe>>

(* encode_frame: the packet is muxed as one fragment, which is emitted.    *)
EncodeSucceeds ==
  /\ epc = "encode"
  /\ emit' = IF encoder.force THEN "key" ELSE "delta"
  /\ keyframe' = IF encoder.force THEN "none" ELSE keyframe
  /\ encoder' = [encoder EXCEPT !.force = FALSE]
  /\ epc' = "emit"
  /\ UNCHANGED <<commandVars, captureVars, encCh, fresh, job, returned>>

(* The buffer has fewer bytes than a frame of its size and format.         *)
BufferTooSmall == "small" \in Faults

(* ScaleContext::scale: the filter graph takes no frame or yields none.    *)
ScaleFails == "scale" \in Faults

(* The frame is refused before encode_frame: force_keyframe stays set.     *)
EncodeRefused ==
  /\ epc = "encode"
  /\ BufferTooSmall \/ ScaleFails
  /\ BufferBack
  /\ job' = NoJob
  /\ epc' = "recv"
  /\ UNCHANGED <<commandVars, captureVars, encCh, encoder, fresh, emit, keyframe>>

FrameInSlot == encCh # <<>> /\ Head(encCh).do = "frame"

(* The last request has left the capture thread and its channel, so it is  *)
(* the encoder's force flag that stands for it.                            *)
RequestWithEncoder ==
  keyframe = "asked" /\ ~pendingKey /\ ~(FrameInSlot /\ Head(encCh).key)

(* avcodec_send_frame or receive_packet fails: force_keyframe was already  *)
(* taken back, so a request that rode on this frame is lost.               *)
EncodeFails ==
  /\ epc = "encode"
  /\ "codec" \in Faults
  /\ BufferBack
  /\ keyframe' = IF encoder.force /\ RequestWithEncoder THEN "lost" ELSE keyframe
  /\ encoder' = [encoder EXCEPT !.force = FALSE]
  /\ job' = NoJob
  /\ epc' = "recv"
  /\ UNCHANGED <<commandVars, captureVars, encCh, fresh, emit>>

(* A panic unwinds the thread: its channel ends and its encoder go.  What  *)
(* the muxer of the dropped encoder still writes is left out on this path. *)
EncodePanics ==
  /\ epc = "encode"
  /\ "panic" \in Faults
  /\ encCh' = <<>>
  /\ encoder' = NoEncoder
  /\ job' = NoJob
  /\ returned' = 0
  /\ epc' = "done"
  /\ UNCHANGED <<commandVars, captureVars, fresh, emit, keyframe>>

(* A plausible slip: the new stream is not announced.                      *)
RecvRestartUnannounced ==
  /\ Receiving("restart")
  /\ job' = Head(encCh)
  /\ epc' = "open"
  /\ UNCHANGED <<encoder, emit, returned, keyframe>>

RecvRestart ==
  /\ Receiving("restart")
  /\ job' = Head(encCh)
  /\ epc' = "new_video"
  /\ UNCHANGED <<encoder, emit, returned, keyframe>>

EncodeSay ==
  /\ epc \in {"new_video", "video_init"}
  /\ epc' = IF epc = "new_video" THEN "open" ELSE "swap"
  /\ UNCHANGED <<commandVars, captureVars, encCh, encoder, fresh, job, emit,
                 returned, keyframe>>

(* VideoEncoder::new succeeds: its muxer writes the init segment through   *)
(* the callback before new returns.                                        *)
OpenSucceeds ==
  /\ epc = "open"
  /\ fresh' = [size |-> job.size, out |-> job.out, qp |-> QpDefault, force |-> TRUE]
  /\ emit' = "init"
  /\ epc' = "emit"
  /\ UNCHANGED <<commandVars, captureVars, encCh, encoder, job, returned, keyframe>>

(* VideoEncoder::new fails: video_encoder becomes None.                    *)
OpenFails ==
  /\ epc = "open"
  /\ "open" \in Faults
  /\ epc' = "swap"
  /\ UNCHANGED <<commandVars, captureVars, encCh, encoder, fresh, job, emit,
                 returned, keyframe>>

(* video_encoder = Some(enc) or None: the encoder it replaces is dropped,  *)
(* and its muxer writes a trailer through the old callback.                *)
SwapEncoder ==
  /\ epc = "swap"
  /\ encoder' = fresh
  /\ fresh' = NoEncoder
  /\ job' = NoJob
  /\ IF encoder # NoEncoder
       THEN emit' = "trailer" /\ epc' = "emit"
       ELSE UNCHANGED emit /\ epc' = "recv"
  /\ UNCHANGED <<commandVars, captureVars, encCh, returned, keyframe>>

(* Stop: the thread returns and drops its encoder.                         *)
RecvStop ==
  /\ Receiving("stop")
  /\ encoder' = NoEncoder
  /\ job' = StopJob
  /\ IF encoder # NoEncoder
       THEN emit' = "trailer" /\ epc' = "emit"
       ELSE UNCHANGED emit /\ epc' = "done"
  /\ UNCHANGED <<returned, keyframe>>

(* send_video, called back from the muxer.  Then the thread goes on: with  *)
(* VideoInit after the init segment, with the next command after a frame,  *)
(* whose buffer it returns, and after a trailer.                           *)
EncodeEmit ==
  /\ epc = "emit"
  /\ emit' = NoEmit
  /\ \/ /\ emit = "init"
        /\ epc' = "video_init"
        /\ UNCHANGED <<job, returned>>
     \/ /\ emit \in {"key", "delta"}
        /\ epc' = "recv"
        /\ job' = NoJob
        /\ BufferBack
     \/ /\ emit = "trailer"
        /\ epc' = IF job = StopJob THEN "done" ELSE "recv"
        /\ job' = NoJob
        /\ UNCHANGED returned
  /\ UNCHANGED <<commandVars, captureVars, encCh, encoder, fresh, keyframe>>

--------------------------------------------------------------------------------
Tick == TickFails \/ \E size \in Sizes : TickCaptures(size)

CaptureStep ==
  \/ TakeStart \/ TakePause \/ TakeResume \/ TakeRestart \/ TakeKeyframe
  \/ TakeFeedback \/ TakeDisconnect
  \/ SendRestart \/ TakeBuffer \/ OfferTaken \/ OfferFull \/ OfferDisconnected
  \/ SendStop \/ Join

EncodeStep ==
  \/ RecvFrameUnopened \/ RecvFrame \/ RecvRestart \/ RecvStop
  \/ EncodeSucceeds \/ EncodeRefused \/ EncodeFails \/ EncodePanics
  \/ OpenSucceeds \/ OpenFails \/ SwapEncoder

(* Each thread is in one place at a time; what it can do there.            *)
CaptureThread == Tick \/ CaptureStep \/ CaptureSay
EncodeThread  == EncodeStep \/ EncodeSay \/ EncodeEmit

Next ==
  \/ \E c \in Commands : Command(c)
  \/ HandlerEnds
  \/ CaptureThread
  \/ EncodeThread

Spec == Init /\ [][Next]_vars

(* Fairness.  Both threads run: one that can go on does.  This includes    *)
(* that recv_timeout returns at its deadline (Tick) and that the transport *)
(* takes what a send carries; a composition says when it does not.  The    *)
(* handler owes nothing.                                                   *)
LiveSpec ==
  /\ Spec
  /\ WF_vars(CaptureThread)
  /\ WF_vars(EncodeThread)

--------------------------------------------------------------------------------
(* Properties.                                                             *)

StreamTypeOK ==
  /\ cpc \in CaptureStates
  /\ recorder \in BOOLEAN /\ paced \in BOOLEAN /\ paused \in BOOLEAN
  /\ limit \in Limits /\ failures \in Nat
  /\ captureSay \in {NoSay, "ConfigOk", "Error"}

FrameTypeOK ==
  /\ encIn \in Sizes \cup {0} /\ encOut \in Nat /\ frame \in Sizes \cup {0}
  /\ pendingKey \in BOOLEAN /\ pendingQp \in Qps \cup {NoQp} /\ ctlQp \in Qps
  /\ spare \in BOOLEAN /\ inHand \in BOOLEAN

ChannelTypeOK ==
  /\ cmds \in Seq(Commands) /\ issued \in Nat /\ handler \in BOOLEAN
  /\ encCh \in Seq(Jobs) /\ Len(encCh) <= 1
  /\ returned \in 0 .. 2

EncodeTypeOK ==
  /\ epc \in EncodeStates
  /\ encoder \in Encoders \cup {NoEncoder} /\ fresh \in Encoders \cup {NoEncoder}
  /\ job \in Jobs \cup {NoJob}
  /\ emit \in Emissions \cup {NoEmit}
  /\ keyframe \in KeyframeRequests

(* Type invariant of both threads: their positions, the one-slot channel,  *)
(* the two-slot return channel and the encoder's settings.                 *)
TypeOK == StreamTypeOK /\ FrameTypeOK /\ ChannelTypeOK /\ EncodeTypeOK

(* The encoder is only ever given frames of the size it was opened for:    *)
(* the scale filter reads the frame's bytes by that size.  The capture     *)
(* thread decides on its own record of the encoder's sizes, a thread away  *)
(* (needs_restart, the waiting send, the channel's order).                 *)
FrameFitsEncoder == epc = "encode" => job.size = encoder.size

One(b) == IF b THEN 1 ELSE 0
FrameAtWork == job # NoJob /\ job.do = "frame"

(* Between drop, reuse and return, pixel buffers do not pile up: never     *)
(* more than three exist, however captures and encodes interleave.         *)
BuffersBounded ==
  One(spare) + One(inHand) + One(FrameInSlot) + One(FrameAtWork) + returned <= 3

InService == handler /\ recorder /\ paced /\ ~paused

(* While the stream is in service, a keyframe that was asked for is        *)
(* encoded, however busy the encoder is and whatever is dropped, refused   *)
(* or restarted on the way, with these exceptions: the codec fails on the  *)
(* very frame that carries the request (then it is lost, against the       *)
(* comment that a client which asked must get one); the frames are refused *)
(* for ever; there is no encoder or thread to encode anything; or the      *)
(* captured size never settles: a frame that restarts the encoder is       *)
(* dropped whenever the Restart still holds the slot.                      *)
KeyframeServed ==
  \/ keyframe = "asked" ~> \/ keyframe = "none" \/ keyframe = "lost"
                           \/ ~InService \/ encoder = NoEncoder \/ epc = "done"
  \/ []<>(cpc = "restart")
  \/ []<><<EncodeRefused>>_vars

(* When the session's handler is gone the capture and encode threads end,  *)
(* whatever was queued and whatever failed (Stop, join).                   *)
ThreadsEnd == (~handler) ~> (cpc = "done")

(* The encode thread implements EncodeOutput: each stream is announced,    *)
(* initialised, named and only then filled, whatever restarts, fails,      *)
(* panics or stops in between.                                             *)
OutputAt ==
  CASE epc = "new_video"  -> "NewVideo"
    [] epc = "video_init" -> "VideoInit"
    [] epc = "emit" /\ emit \in {"key", "delta"} -> "fragment"
    [] epc = "emit" /\ emit = "trailer" /\ job = StopJob -> "last"
    [] epc = "emit" /\ ~(emit \in {"key", "delta"})
                   /\ ~(emit = "trailer" /\ job = StopJob) -> emit
    [] epc \in {"recv", "encode"} -> "ready"
    [] OTHER -> epc

Output == INSTANCE EncodeOutput WITH
            at <- OutputAt, encoding <- encoder # NoEncoder,
            opened <- fresh # NoEncoder
OutputRefines == Output!Spec
===============================================================================
