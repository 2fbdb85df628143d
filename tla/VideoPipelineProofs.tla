--------------------------- MODULE VideoPipelineProofs ---------------------------
(***************************************************************************)
(* What TLAPS proves of VideoPipeline, for all sizes, limits, QPs and      *)
(* failures and any number of commands.                                    *)
(***************************************************************************)
EXTENDS VideoPipeline, TLAPS

--------------------------------------------------------------------------------
(* The inductive invariant.                                                *)

(* From the capture to the offer the thread holds a frame, and its record  *)
(* of the encoder's input size is that frame's.                            *)
CaptureInv ==
  /\ cpc \in {"restart", "take", "offer"} => frame \in Sizes /\ encIn = frame
  /\ inHand <=> cpc = "offer"
  /\ cpc = "offer" => ~spare

(* The encode thread is opening an encoder for the restart it took.        *)
Opening ==
  \/ epc \in {"new_video", "open", "video_init", "swap"}
  \/ epc = "emit" /\ emit = "init"

(* What the thread holds in each place.                                    *)
EncodeInv ==
  /\ epc = "emit" <=> emit # NoEmit
  /\ epc = "recv" => job = NoJob
  /\ epc = "encode" \/ (epc = "emit" /\ emit \in {"key", "delta"}) =>
       encoder # NoEncoder /\ job # NoJob /\ job.do = "frame"
  /\ Opening => job # NoJob /\ job.do = "restart"
  /\ epc = "emit" /\ emit = "trailer" => job \in {NoJob, StopJob}
  /\ epc = "video_init" \/ (epc = "emit" /\ emit = "init") => fresh # NoEncoder
  /\ fresh # NoEncoder =>
       /\ epc \in {"video_init", "swap"} \/ (epc = "emit" /\ emit = "init")
       /\ fresh.size = job.size

(* The encoder the thread has once it is done with its present command is  *)
(* one for frames of this size, if there is one.                           *)
WillFit(size) ==
  IF Opening THEN job.size = size ELSE encoder = NoEncoder \/ encoder.size = size

(* ... and once it is done with what waits in the slot.                    *)
WillFitAfterSlot(size) ==
  \/ epc = "done"
  \/ IF encCh = <<>> THEN WillFit(size)
     ELSE \/ Head(encCh).do = "stop"
          \/ Head(encCh).size = size

(* The capture thread's record of the encoder's size is right by the time  *)
(* it counts: a frame in the slot meets an encoder that it fits, and so    *)
(* will the next one, unless a restart precedes it.                        *)
SizeInv ==
  /\ epc = "encode" => job.size = encoder.size
  /\ encCh # <<>> /\ Head(encCh).do = "frame" => WillFit(Head(encCh).size)
  /\ encIn # 0 /\ cpc # "restart" => WillFitAfterSlot(encIn)

IInv == TypeOK /\ CaptureInv /\ EncodeInv /\ SizeInv /\ BuffersBounded

(* What a job, a command and an encoder are made of.                       *)
LEMMA JobShape ==
  ASSUME NEW j \in Jobs
  PROVE  /\ j.do \in {"frame", "restart", "stop"}
         /\ j # NoJob
         /\ j.do = "frame" => j.size \in Sizes /\ j.key \in BOOLEAN /\ j.qp \in Qps \cup {NoQp}
         /\ j.do = "restart" => j.size \in Sizes /\ j.out \in Nat
         /\ j.do = "stop" <=> j = StopJob
BY DEF Jobs, StopJob, NoJob

LEMMA CommandShape ==
  ASSUME NEW c \in Commands, c.do = "start"
  PROVE  c.limit \in Limits /\ c.paced \in BOOLEAN
BY DEF Commands

LEMMA EncoderShape ==
  ASSUME NEW e \in Encoders
  PROVE  /\ e.size \in Sizes /\ e.force \in BOOLEAN
         /\ e # NoEncoder
         /\ \A qp \in Qps \cup {NoQp} :
              SetQuality(e, qp) \in Encoders /\ SetQuality(e, qp).size = e.size
         /\ \A key \in BOOLEAN :
              RequestKeyframe(e, key) \in Encoders /\ RequestKeyframe(e, key).size = e.size
         /\ [e EXCEPT !.force = FALSE] \in Encoders
         /\ [e EXCEPT !.force = FALSE].size = e.size
<1>1. e.size \in Sizes /\ e.force \in BOOLEAN
  BY DEF Encoders
<1>2. e # NoEncoder
  BY <1>1, PipelineAssumption DEF NoEncoder
<1>3. ASSUME NEW qp \in Qps \cup {NoQp}
      PROVE  SetQuality(e, qp) \in Encoders /\ SetQuality(e, qp).size = e.size
  BY DEF SetQuality, Encoders
<1>4. ASSUME NEW key \in BOOLEAN
      PROVE  RequestKeyframe(e, key) \in Encoders /\ RequestKeyframe(e, key).size = e.size
  <2>1. (e.force \/ key) \in BOOLEAN
    OBVIOUS
  <2>2. ASSUME NEW b \in BOOLEAN
        PROVE  [e EXCEPT !.force = b] \in Encoders /\ [e EXCEPT !.force = b].size = e.size
    BY DEF Encoders
  <2> QED
    BY <2>1, <2>2 DEF RequestKeyframe
<1>5. [e EXCEPT !.force = FALSE] \in Encoders /\ [e EXCEPT !.force = FALSE].size = e.size
  BY DEF Encoders
<1> QED
  BY <1>1, <1>2, <1>3, <1>4, <1>5

LEMMA NoEncoderShape == NoEncoder.size = 0 /\ NoEncoder \notin Encoders
BY EncoderShape DEF NoEncoder

(* The command or the job at the head of a queue.                          *)
LEMMA Heads ==
  ASSUME ChannelTypeOK
  PROVE  /\ cmds # <<>> => Head(cmds) \in Commands /\ Tail(cmds) \in Seq(Commands)
         /\ encCh # <<>> => Head(encCh) \in Jobs
BY DEF ChannelTypeOK

(* What the slot may hold.                                                 *)
LEMMA SlotHolds ==
  ASSUME NEW j \in Jobs
  PROVE  /\ <<j>> \in Seq(Jobs) /\ Len(<<j>>) <= 1 /\ <<j>> # <<>> /\ Head(<<j>>) = j
OBVIOUS

LEMMA NothingQueued == (\A S : <<>> \in Seq(S)) /\ Len(<<>>) = 0
OBVIOUS

LEMMA ScaledIsNat ==
  ASSUME StreamTypeOK, NEW size \in Sizes
  PROVE  Scaled(size) \in Nat
BY PipelineAssumption DEF StreamTypeOK, Scaled

--------------------------------------------------------------------------------
LEMMA InitIInv == Init => IInv
<1> SUFFICES ASSUME Init PROVE IInv
  OBVIOUS
<1>1. StreamTypeOK
  BY DEF Init, StreamTypeOK, CaptureStates, NoSay
<1>2. FrameTypeOK
  BY PipelineAssumption DEF Init, FrameTypeOK, NoQp
<1>3. ChannelTypeOK
  BY DEF Init, ChannelTypeOK
<1>4. EncodeTypeOK
  BY DEF Init, EncodeTypeOK, EncodeStates, KeyframeRequests
<1>5. CaptureInv
  BY DEF Init, CaptureInv
<1>6. EncodeInv /\ SizeInv
  BY DEF Init, EncodeInv, SizeInv, Opening
<1>7. BuffersBounded
  BY DEF Init, BuffersBounded, One, FrameInSlot, FrameAtWork
<1> QED
  BY <1>1, <1>2, <1>3, <1>4, <1>5, <1>6, <1>7 DEF IInv, TypeOK

(* What each thread leaves alone, and the handler too.                     *)
LEMMA HandlerLeaves ==
  ASSUME HandlerEnds \/ \E c \in Commands : Command(c)
  PROVE  UNCHANGED <<captureVars, encodeVars, encCh, returned, keyframe>>
BY DEF HandlerEnds, Command

LEMMA EncodeLeaves ==
  ASSUME EncodeThread
  PROVE  UNCHANGED <<commandVars, captureVars>>
<1>1. CASE RecvFrameUnopened \/ RecvFrame \/ RecvRestart \/ RecvStop
  BY <1>1 DEF RecvFrameUnopened, RecvFrame, RecvRestart, RecvStop, Receiving
<1>2. CASE EncodeSucceeds \/ EncodeRefused \/ EncodeFails \/ EncodePanics
  BY <1>2 DEF EncodeSucceeds, EncodeRefused, EncodeFails, EncodePanics
<1>3. CASE OpenSucceeds \/ OpenFails \/ SwapEncoder \/ EncodeSay \/ EncodeEmit
  BY <1>3 DEF OpenSucceeds, OpenFails, SwapEncoder, EncodeSay, EncodeEmit
<1> QED
  BY <1>1, <1>2, <1>3 DEF EncodeThread, EncodeStep

LEMMA CaptureLeaves ==
  ASSUME CaptureThread
  PROVE  UNCHANGED encodeVars
<1>1. CASE TakeStart \/ TakePause \/ TakeResume \/ TakeRestart \/ TakeKeyframe \/ TakeFeedback
  BY <1>1 DEF TakeStart, TakePause, TakeResume, TakeRestart, TakeKeyframe, TakeFeedback, Taking
<1>2. CASE CaptureSay \/ TakeDisconnect \/ Tick
  BY <1>2 DEF CaptureSay, TakeDisconnect, Tick, TickFails, TickCaptures
<1>3. CASE SendRestart \/ TakeBuffer \/ SendStop \/ Join
  BY <1>3 DEF SendRestart, TakeBuffer, SendStop, Join
<1>4. CASE OfferTaken \/ OfferFull \/ OfferDisconnected
  BY <1>4 DEF OfferTaken, OfferFull, OfferDisconnected
<1> QED
  BY <1>1, <1>2, <1>3, <1>4 DEF CaptureThread, CaptureStep

(* The cases of a step.                                                    *)
LEMMA StepCases ==
  ASSUME [Next]_vars
  PROVE  \/ HandlerEnds \/ \E c \in Commands : Command(c)
         \/ CaptureThread
         \/ EncodeThread
         \/ UNCHANGED vars
BY DEF Next

--------------------------------------------------------------------------------
(* Types.                                                                  *)

LEMMA StreamTypeStep == IInv /\ [Next]_vars => StreamTypeOK'
<1> SUFFICES ASSUME IInv, [Next]_vars PROVE StreamTypeOK'
  OBVIOUS
<1>0. StreamTypeOK /\ ChannelTypeOK
  BY DEF IInv, TypeOK
<1>1. CASE UNCHANGED captureVars
  BY <1>0, <1>1 DEF StreamTypeOK, captureVars, streamVars
<1>2. CASE CaptureThread
  <2>1. CASE TakeStart
    <3>1. Head(cmds).limit \in Limits /\ Head(cmds).paced \in BOOLEAN
      BY <1>0, <2>1, Heads, CommandShape DEF TakeStart, Taking
    <3> QED
      BY <1>0, <2>1, <3>1 DEF TakeStart, StreamTypeOK, CaptureStates
  <2>2. CASE TakePause \/ TakeResume
    BY <1>0, <2>2 DEF TakePause, TakeResume, StreamTypeOK
  <2>3. CASE TakeRestart \/ TakeKeyframe \/ TakeFeedback
    BY <1>0, <2>3 DEF TakeRestart, TakeKeyframe, TakeFeedback, StreamTypeOK, streamVars
  <2>4. CASE CaptureSay \/ TakeDisconnect
    BY <1>0, <2>4 DEF CaptureSay, TakeDisconnect, StreamTypeOK, streamVars, CaptureStates
  <2>5. CASE TickFails
    <3>1. UNCHANGED <<paced, paused, limit>> /\ failures' = failures + 1
      BY <2>5 DEF TickFails
    <3>2. captureSay' \in {captureSay, "Error"} /\ cpc' \in {cpc, "say"}
      BY <2>5 DEF TickFails
    <3>3. recorder' \in BOOLEAN
      BY <1>0, <2>5 DEF TickFails, StreamTypeOK
    <3> QED
      <4>1. failures' \in Nat
        BY <1>0, <3>1 DEF StreamTypeOK
      <4>2. captureSay' \in {NoSay, "ConfigOk", "Error"} /\ cpc' \in CaptureStates
        BY <1>0, <3>2 DEF StreamTypeOK, CaptureStates
      <4> QED
        BY <1>0, <3>1, <3>3, <4>1, <4>2 DEF StreamTypeOK
  <2>6. ASSUME NEW size \in Sizes, TickCaptures(size) PROVE StreamTypeOK'
    BY <1>0, <2>6 DEF TickCaptures, StreamTypeOK, CaptureStates
  <2>7. CASE SendRestart \/ TakeBuffer \/ SendStop
    BY <1>0, <2>7 DEF SendRestart, TakeBuffer, SendStop, StreamTypeOK, streamVars, CaptureStates
  <2>8. CASE OfferTaken \/ OfferFull
    BY <1>0, <2>8 DEF OfferTaken, OfferFull, StreamTypeOK, streamVars, CaptureStates
  <2>9. CASE OfferDisconnected \/ Join
    BY <1>0, <2>9 DEF OfferDisconnected, Join, StreamTypeOK, CaptureStates
  <2> QED
    BY <1>2, <2>1, <2>2, <2>3, <2>4, <2>5, <2>6, <2>7, <2>8, <2>9
       DEF CaptureThread, Tick, CaptureStep
<1> QED
  BY <1>1, <1>2, StepCases, HandlerLeaves, EncodeLeaves DEF vars

LEMMA FrameTypeStep == IInv /\ [Next]_vars => FrameTypeOK'
<1> SUFFICES ASSUME IInv, [Next]_vars PROVE FrameTypeOK'
  OBVIOUS
<1>0. FrameTypeOK /\ StreamTypeOK
  BY DEF IInv, TypeOK
<1>1. CASE UNCHANGED captureVars
  BY <1>0, <1>1 DEF FrameTypeOK, captureVars, requestVars, sizeVars, bufferVars
<1>2. CASE CaptureThread
  <2> USE DEF requestVars, sizeVars, bufferVars
  <2>1. CASE TakeStart
    BY <1>0, <2>1 DEF TakeStart, Taking, FrameTypeOK
  <2>2. CASE TakePause \/ TakeResume
    BY <1>0, <2>2 DEF TakePause, TakeResume, Taking, FrameTypeOK
  <2>3. CASE TakeRestart \/ TakeKeyframe \/ TakeFeedback
    BY <1>0, <2>3, PipelineAssumption
       DEF TakeRestart, TakeKeyframe, TakeFeedback, Taking, FrameTypeOK
  <2>4. CASE CaptureSay \/ TakeDisconnect
    BY <1>0, <2>4 DEF CaptureSay, TakeDisconnect, FrameTypeOK
  <2>5. CASE TickFails
    BY <1>0, <2>5 DEF TickFails, FrameTypeOK
  <2>6. ASSUME NEW size \in Sizes, TickCaptures(size) PROVE FrameTypeOK'
    BY <1>0, <2>6, ScaledIsNat DEF TickCaptures, FrameTypeOK
  <2>7. CASE SendRestart \/ TakeBuffer \/ SendStop
    BY <1>0, <2>7 DEF SendRestart, TakeBuffer, SpareElseReturnedElseNew, SendStop, FrameTypeOK
  <2>8. CASE OfferTaken \/ OfferFull
    <3>1. UNCHANGED <<encIn, encOut>> /\ frame' = 0 /\ inHand' = FALSE /\ spare' \in {spare, TRUE}
      BY <2>8 DEF OfferTaken, OfferFull
    <3>2. ctlQp' \in Qps /\ pendingQp' \in {ctlQp', pendingQp, NoQp} /\ pendingKey' \in {pendingKey, FALSE}
      BY <2>8 DEF OfferTaken, OfferFull, RequestsKept, Decide
    <3> QED
      BY <1>0, <3>1, <3>2 DEF FrameTypeOK
  <2>9. CASE OfferDisconnected \/ Join
    BY <1>0, <2>9 DEF OfferDisconnected, Join, FrameTypeOK
  <2> QED
    BY <1>2, <2>1, <2>2, <2>3, <2>4, <2>5, <2>6, <2>7, <2>8, <2>9
       DEF CaptureThread, Tick, CaptureStep
<1> QED
  BY <1>1, <1>2, StepCases, HandlerLeaves, EncodeLeaves DEF vars

LEMMA ChannelTypeStep == IInv /\ [Next]_vars => ChannelTypeOK'
<1> SUFFICES ASSUME IInv, [Next]_vars PROVE ChannelTypeOK'
  OBVIOUS
<1>0. ChannelTypeOK /\ FrameTypeOK /\ CaptureInv
  BY DEF IInv, TypeOK
<1>1. CASE UNCHANGED vars
  BY <1>0, <1>1 DEF ChannelTypeOK, vars, commandVars
<1>2. ASSUME NEW c \in Commands, Command(c) PROVE ChannelTypeOK'
  BY <1>0, <1>2 DEF Command, ChannelTypeOK
<1>3. CASE HandlerEnds
  BY <1>0, <1>3 DEF HandlerEnds, ChannelTypeOK
<1>4. CASE CaptureThread
  <2>1. CASE TakeStart \/ TakePause \/ TakeResume \/ TakeRestart \/ TakeKeyframe \/ TakeFeedback
    <3>1. cmds # <<>> /\ cmds' = Tail(cmds) /\ UNCHANGED <<issued, handler, encCh, returned>>
      BY <2>1 DEF TakeStart, TakePause, TakeResume, TakeRestart, TakeKeyframe, TakeFeedback,
                  Taking
    <3> QED
      BY <1>0, <3>1, Heads DEF ChannelTypeOK
  <2>2. CASE CaptureSay \/ TakeDisconnect \/ Tick \/ Join
    BY <1>0, <2>2 DEF CaptureSay, TakeDisconnect, Tick, TickFails, TickCaptures, Join,
                      ChannelTypeOK, commandVars
  <2>3. CASE SendRestart
    <3>1. RestartJob(encIn, encOut) \in Jobs
      BY <1>0, <2>3 DEF SendRestart, CaptureInv, FrameTypeOK, RestartJob, Jobs
    <3> QED
      BY <1>0, <2>3, <3>1, SlotHolds DEF SendRestart, SendWaiting, ChannelTypeOK, commandVars
  <2>4. CASE TakeBuffer
    BY <1>0, <2>4 DEF TakeBuffer, SpareElseReturnedElseNew, ChannelTypeOK, commandVars
  <2>5. CASE OfferTaken
    <3>1. FrameJob(frame, pendingKey, pendingQp) \in Jobs
      BY <1>0, <2>5 DEF OfferTaken, CaptureInv, FrameTypeOK, FrameJob, Jobs
    <3> QED
      BY <1>0, <2>5, <3>1 DEF OfferTaken, ChannelTypeOK, commandVars
  <2>6. CASE OfferFull \/ OfferDisconnected
    <3>1. UNCHANGED <<issued, handler, encCh, returned>> /\ cmds' \in {cmds, <<>>}
      BY <2>6 DEF OfferFull, OfferDisconnected, commandVars
    <3> QED
      BY <1>0, <3>1, NothingQueued DEF ChannelTypeOK
  <2>7. CASE SendStop
    <3>1. StopJob \in Jobs
      BY DEF Jobs
    <3> QED
      BY <1>0, <2>7, <3>1, SlotHolds DEF SendStop, SendWaiting, ChannelTypeOK, commandVars
  <2> QED
    BY <1>4, <2>1, <2>2, <2>3, <2>4, <2>5, <2>6, <2>7 DEF CaptureThread, CaptureStep
<1>5. CASE EncodeThread
  <2>1. UNCHANGED <<cmds, issued, handler>>
    BY <1>5, EncodeLeaves DEF commandVars
  <2>2. encCh' \in {encCh, <<>>}
    BY <1>5 DEF EncodeThread, EncodeStep, RecvFrameUnopened, RecvFrame, RecvRestart, RecvStop,
                Receiving, EncodeSucceeds, EncodeRefused, EncodeFails, EncodePanics,
                OpenSucceeds, OpenFails, SwapEncoder, EncodeSay, EncodeEmit
  <2>3. returned' \in {returned, 0} \/ BufferBack
    BY <1>5 DEF EncodeThread, EncodeStep, RecvFrameUnopened, RecvFrame, RecvRestart, RecvStop,
                EncodeSucceeds, EncodeRefused, EncodeFails, EncodePanics,
                OpenSucceeds, OpenFails, SwapEncoder, EncodeSay, EncodeEmit
  <2>4. returned' \in 0 .. 2
    BY <1>0, <2>3 DEF ChannelTypeOK, BufferBack
  <2> QED
    <3>1. encCh' \in Seq(Jobs) /\ Len(encCh') <= 1
      <4>1. CASE encCh' = encCh
        BY <1>0, <4>1 DEF ChannelTypeOK
      <4>2. CASE encCh' = <<>>
        BY <4>2, NothingQueued
      <4> QED
        BY <2>2, <4>1, <4>2
    <3>2. cmds' \in Seq(Commands) /\ issued' \in Nat /\ handler' \in BOOLEAN
      BY <1>0, <2>1 DEF ChannelTypeOK
    <3> QED
      BY <2>4, <3>1, <3>2 DEF ChannelTypeOK
<1> QED
  BY <1>1, <1>2, <1>3, <1>4, <1>5, StepCases

LEMMA EncodeTypeStep == IInv /\ [Next]_vars => EncodeTypeOK'
<1> SUFFICES ASSUME IInv, [Next]_vars PROVE EncodeTypeOK'
  OBVIOUS
<1>0. EncodeTypeOK /\ ChannelTypeOK /\ EncodeInv
  BY DEF IInv, TypeOK
<1>1. CASE UNCHANGED <<encodeVars, keyframe>>
  BY <1>0, <1>1 DEF EncodeTypeOK, encodeVars
<1>2. CASE CaptureThread
  <2>1. UNCHANGED encodeVars
    BY <1>2, CaptureLeaves
  <2>2. keyframe' \in {keyframe, "asked"}
    BY <1>2 DEF CaptureThread, Tick, CaptureStep, TakeStart, TakePause, TakeResume, TakeRestart,
                TakeKeyframe, TakeFeedback, CaptureSay, TakeDisconnect, TickFails, TickCaptures,
                SendRestart, TakeBuffer, SendStop, Join, OfferTaken, OfferFull, OfferDisconnected
  <2> QED
    BY <1>0, <2>1, <2>2 DEF EncodeTypeOK, encodeVars, KeyframeRequests
<1>3. CASE EncodeThread
  <2>1. CASE RecvFrameUnopened \/ RecvRestart
    <3>1. Head(encCh) \in Jobs
      BY <1>0, <2>1, Heads DEF RecvFrameUnopened, RecvRestart, Receiving
    <3> QED
      BY <1>0, <2>1, <3>1 DEF RecvFrameUnopened, RecvRestart, EncodeTypeOK, EncodeStates, Receiving
  <2>2. CASE RecvFrame
    <3>1. /\ Head(encCh) \in Jobs /\ encoder \in Encoders
          /\ Head(encCh).key \in BOOLEAN /\ Head(encCh).qp \in Qps \cup {NoQp}
      BY <1>0, <2>2, Heads, JobShape DEF RecvFrame, Receiving, EncodeTypeOK
    <3>2. SetQuality(encoder, Head(encCh).qp) \in Encoders
      BY <3>1, EncoderShape
    <3>3. encoder' \in Encoders
      BY <2>2, <3>1, <3>2, EncoderShape DEF RecvFrame
    <3> QED
      BY <1>0, <2>2, <3>1, <3>3 DEF RecvFrame, EncodeTypeOK, EncodeStates, Receiving
  <2>3. CASE RecvStop
    <3>1. StopJob \in Jobs
      BY DEF Jobs
    <3> QED
      BY <1>0, <2>3, <3>1 DEF RecvStop, Receiving, EncodeTypeOK, EncodeStates, Emissions
  <2>4. CASE EncodeSucceeds \/ EncodeFails
    <3>1. encoder \in Encoders
      BY <1>0, <2>4 DEF EncodeSucceeds, EncodeFails, EncodeInv, EncodeTypeOK
    <3>2. encoder' \in Encoders
      BY <2>4, <3>1, EncoderShape DEF EncodeSucceeds, EncodeFails
    <3>3. keyframe' \in KeyframeRequests
      BY <1>0, <2>4 DEF EncodeSucceeds, EncodeFails, EncodeTypeOK, KeyframeRequests
    <3>4. /\ epc' \in EncodeStates /\ emit' \in Emissions \cup {NoEmit}
          /\ job' \in {job, NoJob} /\ UNCHANGED fresh
      BY <1>0, <2>4 DEF EncodeSucceeds, EncodeFails, EncodeTypeOK, EncodeStates, Emissions
    <3> QED
      BY <1>0, <3>2, <3>3, <3>4 DEF EncodeTypeOK
  <2>5. CASE EncodeRefused \/ EncodePanics \/ EncodeSay \/ OpenFails
    BY <1>0, <2>5 DEF EncodeRefused, EncodePanics, EncodeSay, OpenFails, EncodeTypeOK, EncodeStates
  <2>6. CASE SwapEncoder
    BY <1>0, <2>6 DEF SwapEncoder, EncodeTypeOK, EncodeStates, Emissions
  <2>7. CASE OpenSucceeds
    <3>1. job.size \in Sizes /\ job.out \in Nat
      BY <1>0, <2>7, JobShape DEF OpenSucceeds, EncodeInv, Opening, EncodeTypeOK
    <3>2. fresh' \in Encoders
      BY <2>7, <3>1, PipelineAssumption DEF OpenSucceeds, Encoders
    <3> QED
      BY <1>0, <2>7, <3>2 DEF OpenSucceeds, EncodeTypeOK, EncodeStates, Emissions
  <2>8. CASE EncodeEmit
    BY <1>0, <2>8 DEF EncodeEmit, EncodeTypeOK, EncodeStates
  <2> QED
    BY <1>3, <2>1, <2>2, <2>3, <2>4, <2>5, <2>6, <2>7, <2>8 DEF EncodeThread, EncodeStep
<1> QED
  BY <1>1, <1>2, <1>3, StepCases, HandlerLeaves DEF vars, HandlerEnds, Command

--------------------------------------------------------------------------------
(* The parts of the invariant.                                             *)

LEMMA CaptureInvStep == IInv /\ [Next]_vars => CaptureInv'
<1> SUFFICES ASSUME IInv, [Next]_vars PROVE CaptureInv'
  OBVIOUS
<1>0. CaptureInv /\ FrameTypeOK /\ StreamTypeOK
  BY DEF IInv, TypeOK
<1>1. CASE UNCHANGED captureVars
  BY <1>0, <1>1 DEF CaptureInv, captureVars, sizeVars, bufferVars
<1>2. CASE CaptureThread
  <2> USE DEF CaptureInv, sizeVars, bufferVars
  <2>1. CASE TakeStart \/ TakePause \/ TakeResume \/ TakeRestart \/ TakeKeyframe \/ TakeFeedback
    BY <1>0, <2>1 DEF TakeStart, TakePause, TakeResume, TakeRestart, TakeKeyframe, TakeFeedback,
                      Taking
  <2>2. CASE CaptureSay \/ TakeDisconnect \/ TickFails
    BY <1>0, <2>2 DEF CaptureSay, TakeDisconnect, TickFails, Due
  <2>3. ASSUME NEW size \in Sizes, TickCaptures(size) PROVE CaptureInv'
    BY <1>0, <2>3 DEF TickCaptures, Due
  <2>4. CASE SendRestart \/ SendStop \/ Join
    BY <1>0, <2>4 DEF SendRestart, SendStop, Join
  <2>5. CASE TakeBuffer
    BY <1>0, <2>5 DEF TakeBuffer, SpareElseReturnedElseNew
  <2>6. CASE OfferTaken \/ OfferFull \/ OfferDisconnected
    BY <1>0, <2>6 DEF OfferTaken, OfferFull, OfferDisconnected
  <2> QED
    BY <1>2, <2>1, <2>2, <2>3, <2>4, <2>5, <2>6 DEF CaptureThread, Tick, CaptureStep
<1> QED
  BY <1>1, <1>2, StepCases, HandlerLeaves, EncodeLeaves DEF vars

LEMMA EncodeInvStep == IInv /\ [Next]_vars => EncodeInv'
<1> SUFFICES ASSUME IInv, [Next]_vars PROVE EncodeInv'
  OBVIOUS
<1>0. EncodeInv /\ EncodeTypeOK /\ ChannelTypeOK
  BY DEF IInv, TypeOK
<1>1. CASE UNCHANGED encodeVars
  BY <1>0, <1>1 DEF EncodeInv, Opening, encodeVars
<1>2. CASE EncodeThread
  <2> USE DEF EncodeInv, Opening
  <2>1. CASE RecvFrameUnopened
    BY <1>0, <2>1 DEF RecvFrameUnopened, Receiving
  <2>2. CASE RecvFrame
    <3>1. /\ Head(encCh) \in Jobs /\ Head(encCh).do = "frame" /\ encoder \in Encoders
          /\ Head(encCh).key \in BOOLEAN /\ Head(encCh).qp \in Qps \cup {NoQp}
      BY <1>0, <2>2, Heads, JobShape DEF RecvFrame, Receiving, EncodeTypeOK
    <3>2. SetQuality(encoder, Head(encCh).qp) \in Encoders
      BY <3>1, EncoderShape
    <3>3. encoder' # NoEncoder
      BY <2>2, <3>1, <3>2, EncoderShape DEF RecvFrame
    <3>4. job' = Head(encCh) /\ job' # NoJob
      BY <2>2, <3>1, JobShape DEF RecvFrame
    <3> QED
      BY <1>0, <2>2, <3>1, <3>3, <3>4 DEF RecvFrame, Receiving
  <2>3. CASE RecvRestart
    <3>1. Head(encCh) \in Jobs /\ Head(encCh).do = "restart"
      BY <1>0, <2>3, Heads DEF RecvRestart, Receiving
    <3>2. job' = Head(encCh) /\ job' # NoJob
      BY <2>3, <3>1, JobShape DEF RecvRestart
    <3> QED
      BY <1>0, <2>3, <3>1, <3>2 DEF RecvRestart, Receiving
  <2>4. CASE RecvStop
    BY <1>0, <2>4 DEF RecvStop, Receiving, NoEmit
  <2>5. CASE EncodeSucceeds \/ EncodeFails
    <3>1. encoder \in Encoders
      BY <1>0, <2>5 DEF EncodeSucceeds, EncodeFails, EncodeTypeOK
    <3>2. encoder' # NoEncoder
      BY <2>5, <3>1, EncoderShape DEF EncodeSucceeds, EncodeFails
    <3> QED
      BY <1>0, <2>5, <3>2 DEF EncodeSucceeds, EncodeFails, NoEmit
  <2>6. CASE EncodeRefused \/ EncodePanics \/ EncodeSay \/ OpenFails
    BY <1>0, <2>6 DEF EncodeRefused, EncodePanics, EncodeSay, OpenFails
  <2>7. CASE OpenSucceeds
    <3>1. job.size \in Sizes
      BY <1>0, <2>7, JobShape DEF OpenSucceeds, EncodeTypeOK
    <3>2. fresh'.size = job.size
      BY <2>7 DEF OpenSucceeds
    <3>3. fresh' # NoEncoder
      BY <3>1, <3>2, NoEncoderShape, PipelineAssumption
    <3> QED
      BY <1>0, <2>7, <3>2, <3>3 DEF OpenSucceeds, NoEmit
  <2>8. CASE SwapEncoder
    BY <1>0, <2>8 DEF SwapEncoder, NoEmit
  <2>9. CASE EncodeEmit
    BY <1>0, <2>9 DEF EncodeEmit, NoEmit
  <2> QED
    BY <1>2, <2>1, <2>2, <2>3, <2>4, <2>5, <2>6, <2>7, <2>8, <2>9 DEF EncodeThread, EncodeStep
<1> QED
  BY <1>1, <1>2, StepCases, HandlerLeaves, CaptureLeaves DEF vars

(* A step of the capture thread that hands nothing over keeps the sizes if *)
(* it keeps its record, or voids it.                                       *)
LEMMA SizeUntouched ==
  ASSUME SizeInv, UNCHANGED <<encodeVars, encCh>>,
         \/ encIn' = 0 \/ cpc' = "restart"
         \/ encIn' = encIn /\ cpc # "restart"
  PROVE  SizeInv'
BY DEF SizeInv, WillFitAfterSlot, WillFit, Opening, encodeVars

LEMMA SizeInvStep == IInv /\ [Next]_vars => SizeInv'
<1> SUFFICES ASSUME IInv, [Next]_vars PROVE SizeInv'
  OBVIOUS
<1>0. SizeInv /\ EncodeInv /\ CaptureInv /\ EncodeTypeOK /\ ChannelTypeOK
  BY DEF IInv, TypeOK
<1>1. CASE UNCHANGED <<captureVars, encodeVars, encCh>>
  BY <1>0, <1>1 DEF captureVars, sizeVars, SizeInv, WillFitAfterSlot, WillFit, Opening, encodeVars
<1>2. CASE CaptureThread
  <2>0. UNCHANGED encodeVars
    BY <1>2, CaptureLeaves
  <2>1. CASE TakeStart \/ TakePause \/ TakeResume \/ TakeRestart \/ TakeKeyframe \/ TakeFeedback
    <3>1. encIn' \in {encIn, 0} /\ cpc # "restart" /\ UNCHANGED encCh
      BY <2>1 DEF TakeStart, TakePause, TakeResume, TakeRestart, TakeKeyframe, TakeFeedback,
                  Taking, sizeVars
    <3> QED
      BY <1>0, <2>0, <3>1, SizeUntouched
  <2>2. CASE CaptureSay \/ TakeDisconnect \/ TickFails \/ TakeBuffer \/ OfferFull \/ Join
    <3>1. encIn' = encIn /\ cpc # "restart" /\ UNCHANGED encCh
      BY <2>2 DEF CaptureSay, TakeDisconnect, TickFails, Due, TakeBuffer, OfferFull, Join, sizeVars
    <3> QED
      BY <1>0, <2>0, <3>1, SizeUntouched
  <2>3. CASE OfferDisconnected
    <3>1. encIn' = encIn /\ cpc # "restart" /\ UNCHANGED encCh
      BY <2>3 DEF OfferDisconnected, sizeVars
    <3> QED
      BY <1>0, <2>0, <3>1, SizeUntouched
  <2>4. ASSUME NEW size \in Sizes, TickCaptures(size) PROVE SizeInv'
    <3>1. UNCHANGED encCh /\ cpc # "restart" /\ (cpc' = "restart" \/ encIn' = encIn)
      BY <2>4 DEF TickCaptures, Due, NeedsRestart
    <3> QED
      BY <1>0, <2>0, <3>1, SizeUntouched
  <2>5. CASE SendRestart
    <3>1. encIn' = encIn
      BY <2>5 DEF SendRestart, sizeVars
    <3>2. CASE epc = "done" /\ encCh' = encCh
      BY <1>0, <2>0, <3>1, <3>2 DEF SizeInv, WillFitAfterSlot, WillFit, Opening, encodeVars
    <3>3. CASE encCh' = <<RestartJob(encIn, encOut)>>
      <4>1. /\ encCh' # <<>> /\ Head(encCh') = RestartJob(encIn, encOut)
        BY <3>3
      <4>2. Head(encCh').do = "restart" /\ Head(encCh').size = encIn
        BY <4>1 DEF RestartJob
      <4> QED
        BY <1>0, <2>0, <3>1, <4>1, <4>2 DEF SizeInv, WillFitAfterSlot, encodeVars
    <3> QED
      BY <2>5, <3>2, <3>3 DEF SendRestart, SendWaiting
  <2>6. CASE OfferTaken
    <3>1. /\ encIn' = encIn /\ encIn = frame /\ frame # 0
          /\ cpc # "restart" /\ epc # "done" /\ encCh = <<>>
          /\ encCh' = <<FrameJob(frame, pendingKey, pendingQp)>>
      BY <1>0, <2>6, PipelineAssumption DEF OfferTaken, SlotFree, CaptureInv, sizeVars
    <3>2. encCh' # <<>> /\ Head(encCh') = FrameJob(frame, pendingKey, pendingQp)
      BY <3>1
    <3>3. Head(encCh').do = "frame" /\ Head(encCh').size = encIn
      BY <3>1, <3>2 DEF FrameJob
    <3>4. WillFit(encIn)
      BY <1>0, <3>1 DEF SizeInv, WillFitAfterSlot
    <3> QED
      BY <1>0, <2>0, <3>1, <3>2, <3>3, <3>4
         DEF SizeInv, WillFitAfterSlot, WillFit, Opening, encodeVars
  <2>7. CASE SendStop
    <3>1. encIn' = encIn /\ cpc # "restart"
      BY <2>7 DEF SendStop, sizeVars
    <3>2. CASE encCh' = encCh
      BY <1>0, <2>0, <3>1, <3>2, SizeUntouched
    <3>3. CASE encCh' = <<StopJob>>
      <4>1. encCh' # <<>> /\ Head(encCh').do = "stop"
        BY <3>3 DEF StopJob
      <4> QED
        BY <1>0, <2>0, <3>1, <4>1 DEF SizeInv, WillFitAfterSlot, encodeVars
    <3> QED
      BY <2>7, <3>2, <3>3 DEF SendStop, SendWaiting
  <2> QED
    BY <1>2, <2>1, <2>2, <2>3, <2>4, <2>5, <2>6, <2>7 DEF CaptureThread, Tick, CaptureStep
<1>3. CASE EncodeThread
  <2>0. UNCHANGED <<cpc, encIn>>
    BY <1>3, EncodeLeaves DEF captureVars, sizeVars
  <2> USE DEF SizeInv, WillFitAfterSlot, WillFit, Opening
  <2>1. CASE RecvFrameUnopened
    BY <1>0, <2>0, <2>1 DEF RecvFrameUnopened, Receiving
  <2>2. CASE RecvFrame
    <3>1. /\ Head(encCh) \in Jobs /\ Head(encCh).do = "frame" /\ encoder \in Encoders
          /\ Head(encCh).key \in BOOLEAN /\ Head(encCh).qp \in Qps \cup {NoQp}
      BY <1>0, <2>2, Heads, JobShape DEF RecvFrame, Receiving, EncodeTypeOK
    <3>2. SetQuality(encoder, Head(encCh).qp) \in Encoders
      BY <3>1, EncoderShape
    <3>3. encoder'.size = encoder.size
      BY <2>2, <3>1, <3>2, EncoderShape DEF RecvFrame
    <3>4. encoder.size = Head(encCh).size
      BY <1>0, <2>2, <3>1 DEF RecvFrame, Receiving
    <3> QED
      BY <1>0, <2>0, <2>2, <3>1, <3>3, <3>4 DEF RecvFrame, Receiving
  <2>3. CASE RecvRestart
    BY <1>0, <2>0, <2>3 DEF RecvRestart, Receiving
  <2>4. CASE RecvStop
    BY <1>0, <2>0, <2>4 DEF RecvStop, Receiving
  <2>5. CASE EncodeSucceeds \/ EncodeFails
    <3>1. encoder \in Encoders
      BY <1>0, <2>5 DEF EncodeSucceeds, EncodeFails, EncodeTypeOK, EncodeInv
    <3>2. encoder'.size = encoder.size
      BY <2>5, <3>1, EncoderShape DEF EncodeSucceeds, EncodeFails
    <3>3. encoder # NoEncoder
      BY <3>1, EncoderShape
    <3> QED
      BY <1>0, <2>0, <2>5, <3>2, <3>3 DEF EncodeSucceeds, EncodeFails
  <2>6. CASE EncodeRefused \/ EncodePanics \/ EncodeSay \/ OpenFails
    BY <1>0, <2>0, <2>6 DEF EncodeRefused, EncodePanics, EncodeSay, OpenFails
  <2>7. CASE OpenSucceeds
    BY <1>0, <2>0, <2>7 DEF OpenSucceeds
  <2>8. CASE SwapEncoder
    BY <1>0, <2>0, <2>8 DEF SwapEncoder, EncodeInv
  <2>9. CASE EncodeEmit
    BY <1>0, <2>0, <2>9 DEF EncodeEmit, EncodeInv
  <2> QED
    BY <1>3, <2>1, <2>2, <2>3, <2>4, <2>5, <2>6, <2>7, <2>8, <2>9 DEF EncodeThread, EncodeStep
<1> QED
  BY <1>1, <1>2, <1>3, StepCases, HandlerLeaves DEF vars

LEMMA Sums ==
  ASSUME NEW s \in {0, 1}, NEW h \in {0, 1}, NEW f \in {0, 1}, NEW w \in {0, 1},
         NEW g \in {0, 1}, NEW x \in {0, 1}, NEW r \in 0 .. 2, NEW q \in Nat,
         g + x + 1 = f + w, q <= r + 1, s + h + f + w + r <= 3
  PROVE  s + h + g + x + q <= 3
OBVIOUS

(* A frame's buffer is given back, or let go.                              *)
LEMMA GivenBack ==
  ASSUME BuffersBounded, returned \in 0 .. 2, BufferBack, UNCHANGED <<spare, inHand>>,
         One(FrameInSlot') + One(FrameAtWork') + 1 = One(FrameInSlot) + One(FrameAtWork)
  PROVE  BuffersBounded'
<1>1. /\ One(spare) \in {0, 1} /\ One(inHand) \in {0, 1}
      /\ One(FrameInSlot) \in {0, 1} /\ One(FrameAtWork) \in {0, 1}
      /\ One(FrameInSlot') \in {0, 1} /\ One(FrameAtWork') \in {0, 1}
  BY DEF One
<1>2. One(spare') = One(spare) /\ One(inHand') = One(inHand)
  OBVIOUS
<1>3. returned' \in Nat /\ returned' <= returned + 1
  BY DEF BufferBack
<1>4. One(spare) + One(inHand) + One(FrameInSlot) + One(FrameAtWork) + returned <= 3
  BY DEF BuffersBounded
<1>5. One(spare) + One(inHand) + One(FrameInSlot') + One(FrameAtWork') + returned' <= 3
  BY <1>1, <1>3, <1>4, Sums
<1> QED
  BY <1>2, <1>5 DEF BuffersBounded

LEMMA BufferStep == IInv /\ [Next]_vars => BuffersBounded'
<1> SUFFICES ASSUME IInv, [Next]_vars PROVE BuffersBounded'
  OBVIOUS
<1>0. /\ BuffersBounded /\ EncodeInv /\ CaptureInv /\ returned \in 0 .. 2
      /\ EncodeTypeOK /\ ChannelTypeOK
  BY DEF IInv, TypeOK, ChannelTypeOK
<1>1. CASE UNCHANGED <<bufferVars, encCh, job, returned>>
  BY <1>0, <1>1 DEF BuffersBounded, One, FrameInSlot, FrameAtWork, bufferVars
<1>2. CASE CaptureThread
  <2>0. UNCHANGED job
    BY <1>2, CaptureLeaves DEF encodeVars
  <2>1. CASE TakeStart \/ TakePause \/ TakeResume \/ TakeRestart \/ TakeKeyframe \/ TakeFeedback
    BY <1>1, <2>0, <2>1 DEF TakeStart, TakePause, TakeResume, TakeRestart, TakeKeyframe,
                            TakeFeedback, Taking
  <2>2. CASE CaptureSay \/ TakeDisconnect \/ Tick
    BY <1>1, <2>0, <2>2 DEF CaptureSay, TakeDisconnect, Tick, TickFails, TickCaptures
  <2>3. CASE SendRestart \/ SendStop
    <3>1. UNCHANGED <<bufferVars, returned>>
      BY <2>3 DEF SendRestart, SendStop
    <3>2. encCh' = encCh \/ ~FrameInSlot'
      <4>1. RestartJob(encIn, encOut).do = "restart" /\ StopJob.do = "stop"
        BY DEF RestartJob, StopJob
      <4>2. \/ encCh' = encCh \/ encCh' = <<RestartJob(encIn, encOut)>>
            \/ encCh' = <<StopJob>>
        BY <2>3 DEF SendRestart, SendStop, SendWaiting
      <4> QED
        BY <4>1, <4>2 DEF FrameInSlot
    <3> QED
      BY <1>0, <2>0, <3>1, <3>2 DEF BuffersBounded, One, FrameInSlot, FrameAtWork, bufferVars
  <2>4. CASE TakeBuffer
    <3>1. ~inHand /\ inHand' /\ UNCHANGED encCh
      BY <1>0, <2>4 DEF TakeBuffer, CaptureInv
    <3>2. ~spare' /\ returned' = (IF ~spare /\ returned > 0 THEN returned - 1 ELSE returned)
      BY <2>4 DEF TakeBuffer, SpareElseReturnedElseNew
    <3> QED
      BY <1>0, <2>0, <3>1, <3>2 DEF BuffersBounded, One, FrameInSlot, FrameAtWork
  <2>5. CASE OfferTaken
    <3>1. inHand /\ ~inHand' /\ ~FrameInSlot /\ UNCHANGED <<spare, returned>>
      BY <1>0, <2>5 DEF OfferTaken, SlotFree, CaptureInv, FrameInSlot
    <3> QED
      BY <1>0, <2>0, <3>1 DEF BuffersBounded, One, FrameAtWork
  <2>6. CASE OfferFull
    <3>1. inHand /\ ~inHand' /\ ~spare /\ spare' /\ UNCHANGED <<encCh, returned>>
      BY <1>0, <2>6 DEF OfferFull, CaptureInv
    <3> QED
      BY <1>0, <2>0, <3>1 DEF BuffersBounded, One, FrameInSlot, FrameAtWork
  <2>7. CASE OfferDisconnected
    <3>1. ~inHand' /\ UNCHANGED <<spare, encCh, returned>>
      BY <2>7 DEF OfferDisconnected
    <3> QED
      BY <1>0, <2>0, <3>1 DEF BuffersBounded, One, FrameInSlot, FrameAtWork
  <2>8. CASE Join
    BY <1>1, <2>0, <2>8 DEF Join
  <2> QED
    BY <1>2, <2>1, <2>2, <2>3, <2>4, <2>5, <2>6, <2>7, <2>8 DEF CaptureThread, CaptureStep
<1>3. CASE EncodeThread
  <2>0. UNCHANGED <<spare, inHand>>
    BY <1>3, EncodeLeaves DEF captureVars, bufferVars
  <2> USE DEF BuffersBounded, One
  <2>1. CASE RecvFrameUnopened
    <3>1. FrameInSlot /\ ~FrameInSlot' /\ ~FrameAtWork /\ ~FrameAtWork' /\ BufferBack
      BY <1>0, <2>1 DEF RecvFrameUnopened, Receiving, FrameInSlot, FrameAtWork, EncodeInv
    <3>2. One(FrameInSlot') + One(FrameAtWork') + 1 = One(FrameInSlot) + One(FrameAtWork)
      BY <3>1
    <3> QED
      BY <1>0, <2>0, <3>1, <3>2, GivenBack
  <2>2. CASE RecvFrame
    <3>1. FrameInSlot /\ ~FrameInSlot' /\ ~FrameAtWork /\ UNCHANGED returned
      BY <1>0, <2>2 DEF RecvFrame, Receiving, FrameInSlot, FrameAtWork, EncodeInv
    <3> QED
      BY <1>0, <2>0, <3>1
  <2>3. CASE RecvRestart \/ RecvStop
    <3>1. encCh # <<>> /\ Head(encCh).do \in {"restart", "stop"} /\ encCh' = <<>>
          /\ job' \in {Head(encCh), StopJob} /\ UNCHANGED returned
      BY <2>3 DEF RecvRestart, RecvStop, Receiving
    <3>2. ~FrameInSlot' /\ ~FrameAtWork'
      BY <3>1 DEF FrameInSlot, FrameAtWork, StopJob
    <3> QED
      BY <1>0, <2>0, <3>1, <3>2
  <2>4. CASE EncodeSucceeds \/ EncodeSay \/ OpenFails \/ OpenSucceeds
    BY <1>1, <2>0, <2>4 DEF EncodeSucceeds, EncodeSay, OpenFails, OpenSucceeds, bufferVars
  <2>5. CASE EncodeRefused \/ EncodeFails
    <3>1. /\ FrameAtWork /\ ~FrameAtWork' /\ BufferBack
          /\ FrameInSlot' <=> FrameInSlot
      BY <1>0, <2>5 DEF EncodeRefused, EncodeFails, FrameInSlot, FrameAtWork, EncodeInv
    <3>2. One(FrameInSlot') + One(FrameAtWork') + 1 = One(FrameInSlot) + One(FrameAtWork)
      BY <3>1
    <3> QED
      BY <1>0, <2>0, <3>1, <3>2, GivenBack
  <2>6. CASE EncodePanics
    <3>1. ~FrameInSlot' /\ ~FrameAtWork' /\ returned' = 0
      BY <2>6 DEF EncodePanics, FrameInSlot, FrameAtWork
    <3> QED
      BY <1>0, <2>0, <3>1
  <2>7. CASE SwapEncoder
    <3>1. ~FrameAtWork' /\ UNCHANGED <<encCh, returned>>
      BY <2>7 DEF SwapEncoder, FrameAtWork
    <3> QED
      BY <1>0, <2>0, <3>1 DEF FrameInSlot
  <2>8. CASE EncodeEmit
    <3>1. CASE emit \in {"key", "delta"}
      <4>1. /\ FrameAtWork /\ ~FrameAtWork' /\ BufferBack
            /\ FrameInSlot' <=> FrameInSlot
        BY <1>0, <2>8, <3>1 DEF EncodeEmit, FrameInSlot, FrameAtWork, EncodeInv
      <4>2. One(FrameInSlot') + One(FrameAtWork') + 1 = One(FrameInSlot) + One(FrameAtWork)
        BY <4>1
      <4> QED
        BY <1>0, <2>0, <4>1, <4>2, GivenBack
    <3>2. CASE emit \in {"init", "trailer"}
      <4>1. (UNCHANGED job \/ ~FrameAtWork') /\ UNCHANGED <<encCh, returned>>
        BY <2>8, <3>2 DEF EncodeEmit, FrameAtWork
      <4> QED
        BY <1>0, <2>0, <4>1 DEF FrameInSlot, FrameAtWork
    <3> QED
      BY <2>8, <3>1, <3>2 DEF EncodeEmit
  <2> QED
    BY <1>3, <2>1, <2>2, <2>3, <2>4, <2>5, <2>6, <2>7, <2>8 DEF EncodeThread, EncodeStep
<1> QED
  BY <1>1, <1>2, <1>3, StepCases, HandlerLeaves DEF vars, captureVars, encodeVars

--------------------------------------------------------------------------------
LEMMA Inductive == Spec => []IInv
<1>1. IInv /\ [Next]_vars => IInv'
  BY StreamTypeStep, FrameTypeStep, ChannelTypeStep, EncodeTypeStep, CaptureInvStep,
     EncodeInvStep, SizeInvStep, BufferStep DEF IInv, TypeOK
<1> QED
  BY InitIInv, <1>1, PTL DEF Spec

(* The types hold: handle_video and encode_thread, with every failure.     *)
THEOREM TypeCorrect == Spec => []TypeOK
<1>1. IInv => TypeOK
  BY DEF IInv
<1> QED
  BY Inductive, <1>1, PTL

(* A frame is only ever encoded by an encoder that was opened for its size,*)
(* for any sizes and limits and whatever fails (needs_restart).            *)
THEOREM FramesFit == Spec => []FrameFitsEncoder
<1>1. IInv => FrameFitsEncoder
  BY DEF IInv, SizeInv, FrameFitsEncoder
<1> QED
  BY Inductive, <1>1, PTL

(* There are never more than three pixel buffers (spare_buffer,            *)
(* buffer_return_tx, the frame in the slot and the one being encoded).     *)
THEOREM BuffersAreBounded == Spec => []BuffersBounded
<1>1. IInv => BuffersBounded
  BY DEF IInv
<1> QED
  BY Inductive, <1>1, PTL

--------------------------------------------------------------------------------
(* Refinement.                                                             *)

LEMMA OutputInit == Init => Output!Init
BY DEF Init, Output!Init, OutputAt

LEMMA OutputStep == IInv /\ [Next]_vars => [Output!Next]_(Output!vars)
<1> SUFFICES ASSUME IInv, [Next]_vars PROVE [Output!Next]_(Output!vars)
  OBVIOUS
<1>0. EncodeInv /\ EncodeTypeOK /\ ChannelTypeOK
  BY DEF IInv, TypeOK
<1>1. CASE UNCHANGED encodeVars
  BY <1>1 DEF encodeVars, Output!vars, OutputAt
<1>2. CASE EncodeThread
  <2> USE DEF EncodeInv, Opening, OutputAt
  <2>1. CASE RecvFrameUnopened
    <3>1. UNCHANGED encodeVars
      BY <2>1 DEF RecvFrameUnopened, Receiving, encodeVars
    <3> QED
      BY <1>1, <3>1
  <2>2. CASE RecvFrame
    <3>1. /\ Head(encCh) \in Jobs /\ encoder \in Encoders
          /\ Head(encCh).key \in BOOLEAN /\ Head(encCh).qp \in Qps \cup {NoQp}
      BY <1>0, <2>2, Heads, JobShape DEF RecvFrame, Receiving, EncodeTypeOK
    <3>2. SetQuality(encoder, Head(encCh).qp) \in Encoders
      BY <3>1, EncoderShape
    <3>3. encoder' # NoEncoder /\ encoder # NoEncoder
      BY <2>2, <3>1, <3>2, EncoderShape DEF RecvFrame
    <3>4. epc = "recv" /\ epc' = "encode" /\ UNCHANGED <<emit, fresh>>
      BY <2>2 DEF RecvFrame, Receiving
    <3> QED
      BY <3>3, <3>4 DEF Output!vars
  <2>3. CASE RecvRestart
    <3>1. Output!Restart
      BY <1>0, <2>3 DEF RecvRestart, Receiving, Output!Restart
    <3> QED
      BY <3>1 DEF Output!Next, Output!Internal
  <2>4. CASE RecvStop
    <3>1. Output!Stops
      BY <1>0, <2>4 DEF RecvStop, Receiving, Output!Stops
    <3> QED
      BY <3>1 DEF Output!Next, Output!Internal
  <2>5. CASE EncodeSucceeds \/ EncodeFails
    <3>1. encoder \in Encoders
      BY <1>0, <2>5 DEF EncodeSucceeds, EncodeFails, EncodeTypeOK
    <3>2. encoder' # NoEncoder /\ encoder # NoEncoder
      BY <2>5, <3>1, EncoderShape DEF EncodeSucceeds, EncodeFails
    <3>3. CASE EncodeSucceeds
      <4>1. Output!Encodes
        BY <1>0, <3>2, <3>3 DEF EncodeSucceeds, Output!Encodes
      <4> QED
        BY <4>1 DEF Output!Next, Output!Internal
    <3>4. CASE EncodeFails
      BY <1>0, <3>2, <3>4 DEF EncodeFails, Output!vars
    <3> QED
      BY <2>5, <3>3, <3>4
  <2>6. CASE EncodeRefused
    BY <1>0, <2>6 DEF EncodeRefused, Output!vars
  <2>7. CASE EncodePanics
    <3>1. Output!Stops
      BY <1>0, <2>7 DEF EncodePanics, Output!Stops
    <3> QED
      BY <3>1 DEF Output!Next, Output!Internal
  <2>8. CASE EncodeSay
    <3>1. Output!NewVideoSaid \/ Output!VideoInitSaid
      BY <1>0, <2>8 DEF EncodeSay, Output!NewVideoSaid, Output!VideoInitSaid
    <3> QED
      BY <3>1 DEF Output!Next, Output!Say
  <2>9. CASE OpenFails
    <3>1. Output!OpenFails
      BY <1>0, <2>9 DEF OpenFails, Output!OpenFails
    <3> QED
      BY <3>1 DEF Output!Next, Output!Internal
  <2>10. CASE OpenSucceeds
    <3>1. job.size \in Sizes
      BY <1>0, <2>10, JobShape DEF OpenSucceeds, EncodeTypeOK
    <3>2. fresh' # NoEncoder
      BY <2>10, <3>1, NoEncoderShape, PipelineAssumption DEF OpenSucceeds
    <3>3. Output!Opens
      BY <1>0, <2>10, <3>2 DEF OpenSucceeds, Output!Opens
    <3> QED
      BY <3>3 DEF Output!Next, Output!Internal
  <2>11. CASE SwapEncoder
    <3>1. Output!Swap
      <4>1. epc = "swap" /\ OutputAt = "swap" /\ encoder' = fresh /\ fresh' = NoEncoder
        BY <2>11 DEF SwapEncoder
      <4>2. NoJob # StopJob
        BY DEF NoJob, StopJob
      <4>3. OutputAt' = IF encoder # NoEncoder THEN "trailer" ELSE "ready"
        BY <2>11, <4>2 DEF SwapEncoder
      <4> QED
        BY <4>1, <4>3 DEF Output!Swap
    <3> QED
      BY <3>1 DEF Output!Next, Output!Internal
  <2>12. CASE EncodeEmit
    <3>1. CASE emit = "init"
      <4>1. Output!InitEmitted
        BY <1>0, <2>12, <3>1 DEF EncodeEmit, Output!InitEmitted
      <4> QED
        BY <4>1 DEF Output!Next, Output!Emit
    <3>2. CASE emit \in {"key", "delta"}
      <4>1. Output!FragmentEmitted
        BY <1>0, <2>12, <3>2 DEF EncodeEmit, Output!FragmentEmitted
      <4> QED
        BY <4>1 DEF Output!Next, Output!Emit
    <3>3. CASE emit = "trailer"
      <4>1. /\ epc = "emit" /\ UNCHANGED <<encoder, fresh>>
            /\ epc' = IF job = StopJob THEN "done" ELSE "recv"
        BY <2>12, <3>3 DEF EncodeEmit
      <4>2. CASE job = StopJob
        <5>1. OutputAt = "last" /\ OutputAt' = "done"
          BY <3>3, <4>1, <4>2
        <5> QED
          BY <4>1, <5>1 DEF Output!LastEmitted, Output!Next, Output!Emit
      <4>3. CASE job # StopJob
        <5>1. OutputAt = "trailer" /\ OutputAt' = "ready"
          BY <3>3, <4>1, <4>3
        <5> QED
          BY <4>1, <5>1 DEF Output!TrailerEmitted, Output!Next, Output!Emit
      <4> QED
        BY <4>2, <4>3
    <3> QED
      BY <2>12, <3>1, <3>2, <3>3 DEF EncodeEmit
  <2> QED
    BY <1>2, <2>1, <2>2, <2>3, <2>4, <2>5, <2>6, <2>7, <2>8, <2>9, <2>10, <2>11, <2>12
       DEF EncodeThread, EncodeStep
<1> QED
  BY <1>1, <1>2, StepCases, HandlerLeaves, CaptureLeaves DEF vars

(* The encode thread, among all that the capture thread and the handler do *)
(* to it and whatever fails, announces, initialises, names and then fills  *)
(* each stream (encode_thread).                                            *)
THEOREM ImplementsOutput == Spec => OutputRefines
<1>1. Init => Output!Init
  BY OutputInit
<1>2. IInv /\ [Next]_vars => [Output!Next]_(Output!vars)
  BY OutputStep
<1> QED
  BY Inductive, <1>1, <1>2, PTL DEF Spec, OutputRefines, Output!Spec
================================================================================
