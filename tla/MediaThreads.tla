---------------------------- MODULE MediaThreads ----------------------------
(* What the two media threads of a client hold: the video thread              *)
(* (handle_video) its recorder, an X11Recorder or a PipeWireRecorder, and the *)
(* encode thread its encoder, with EncoderResources.                          *)
(*                                                                            *)
(* The commands and frames between the threads are VideoPipeline's.  Of what  *)
(* is modelled here they share nothing, so a behaviour follows one of them:   *)
(* `thread` says which, and the other's state stays as it was.                *)
EXTENDS Integers, FiniteSets

CONSTANTS Sizes, CursorSpots, CursorWidth, MaxSegments, Builds, MaxOpens,
          MaxFailures   \* MAX_CAPTURE_FAILURES

ASSUME MediaAssumption ==
    /\ Sizes \subseteq Nat /\ CursorSpots \subseteq Int /\ CursorWidth \in Nat
    /\ Builds \subseteq SUBSET {"vaapi", "mediafoundation", "nvenc", "videotoolbox"}
    /\ MaxSegments \in Nat /\ MaxOpens \in Nat /\ MaxFailures \in Nat \ {0}

VARIABLES
    live, seg, capacity, width, lastOk, mapped, attached, sizeOf, lost, made, cursorAt,
    stage, agreed, frame, shown, fresh, broken, buffer, header, renamed,
    hardware, at, new, cur, part, heap, opens, misused,
    thread,    \* the thread this behaviour follows
    source,    \* what `recorder` is: "none", "x11", "pipewire"; or "starting"
    failures   \* consecutive_capture_failures

X11 == INSTANCE X11Recorder
PipeWire == INSTANCE PipeWireRecorder
Encoder == INSTANCE EncoderResources

x11Vars == <<live, seg, capacity, width, lastOk, mapped, attached, sizeOf, lost, made,
             cursorAt>>
pipeWireVars == <<stage, agreed, frame, shown, fresh, broken, buffer, header, renamed>>
encoderVars == <<hardware, at, new, cur, part, heap, opens, misused>>
vars == <<x11Vars, pipeWireVars, encoderVars, thread, source, failures>>

Init == /\ X11!Init /\ PipeWire!Init /\ Encoder!Init
        /\ thread \in {"video", "encode"}
        /\ source = "none" /\ failures = 0

DropRecorder == \/ source = "none" /\ UNCHANGED <<x11Vars, pipeWireVars>>
                \/ source = "x11" /\ X11!Drop /\ UNCHANGED pipeWireVars
                \/ source = "pipewire" /\ PipeWire!Drop /\ UNCHANGED x11Vars

\* Start: the old recorder is dropped first ...
Release == /\ source # "starting" /\ failures < MaxFailures
           /\ DropRecorder
           /\ source' = "starting"
           /\ UNCHANGED failures

\* ... then the new one is made; the count of failures is not reset.
Create == /\ source = "starting"
          /\ \/ \E w \in Sizes : X11!New(w) /\ source' = "x11" /\ UNCHANGED pipeWireVars
             \/ PipeWire!New /\ source' = "pipewire" /\ UNCHANGED x11Vars
             \/ /\ X11!NewFails \/ \E w \in Sizes : X11!NewLoses(w)
                /\ source' = "none" /\ UNCHANGED pipeWireVars
             \/ PipeWire!NewFails /\ source' = "none" /\ UNCHANGED x11Vars
          /\ UNCHANGED failures

NotCaptured == failures' = failures + 1

CaptureX11 == /\ source = "x11" /\ failures < MaxFailures
              /\ \/ \E w \in Sizes, x \in CursorSpots : X11!Capture(w, x) /\ failures' = 0
                 \/ X11!CaptureErr /\ NotCaptured
                 \/ \E w \in Sizes : X11!ImageFails(w) /\ NotCaptured
              /\ UNCHANGED <<source, pipeWireVars>>

CapturePipeWire ==
    /\ source = "pipewire" /\ failures < MaxFailures
    /\ \/ (PipeWire!NewReturns \/ PipeWire!Begin \/ PipeWire!Callback) /\ UNCHANGED failures
       \/ (PipeWire!Errs \/ PipeWire!NoBuffer) /\ NotCaptured
       \/ (PipeWire!TakeFrame \/ PipeWire!ServeAgain) /\ failures' = 0
    /\ UNCHANGED <<source, x11Vars>>

\* "Screen capture lost": the recorder is dropped.  The count stays at the limit
\* (one below it here, as the next failure gives up again).
GiveUp == /\ source \in {"x11", "pipewire"} /\ failures = MaxFailures
          /\ DropRecorder
          /\ source' = "none"
          /\ failures' = MaxFailures - 1

Video == /\ thread = "video"
         /\ Release \/ Create \/ CaptureX11 \/ CapturePipeWire \/ GiveUp
         /\ UNCHANGED <<encoderVars, thread>>

\* Commands make the encode thread open an encoder, at any time.
Encode == /\ thread = "encode"
          /\ Encoder!Begin \/ Encoder!Refused \/ Encoder!Open \/ Encoder!Stop
          /\ UNCHANGED <<hardware, x11Vars, pipeWireVars, thread, source, failures>>

Next == Video \/ Encode

Spec == Init /\ [][Next]_vars

-----------------------------------------------------------------------------
TypeOK == X11!TypeOK /\ PipeWire!TypeOK /\ Encoder!TypeOK

\* What the video thread promises of the X11 segment (see X11Recorder) ...
SegmentIsSound == X11!SegmentCoversCapture /\ X11!SegmentsAccounted
\* ... and of a PipeWire frame (see PipeWireRecorder),
ServedAsReceived == PipeWire!ServedAsReceived
\* the encode thread of FFmpeg's allocations (see EncoderResources),
HeapIsOwned == Encoder!HeapIsOwned
InUseIsComplete == Encoder!InUseIsComplete
\* and of the cursor, what the code does not keep (see X11Recorder).
CursorWithinCapture == X11!CursorWithinCapture
=============================================================================
