-------------------------- MODULE MediaThreadsProofs --------------------------
(* What TLAPS proves of MediaThreads, for any sizes of the captured target,    *)
(* any number of segments and encoders, and any builds.                        *)
EXTENDS MediaThreads, TLAPS

USE MediaAssumption

-----------------------------------------------------------------------------
(* The X11 recorder.  The segments made so far are 1 .. made, so the next one *)
(* is none of those that are mapped or lost.                                  *)
RecorderTypes ==
    /\ live \in BOOLEAN /\ lastOk \in BOOLEAN
    /\ made \in 0..MaxSegments
    /\ capacity \in Sizes \cup {0} /\ width \in Sizes \cup {0}
    /\ sizeOf \in [1..MaxSegments -> Sizes \cup {0}]
    /\ cursorAt \subseteq CursorSpots

SegmentNamed ==
    /\ seg \in 0..made /\ mapped \subseteq 1..made /\ lost \subseteq 1..made
    /\ live => seg \notin lost
    /\ ~live => seg = 0

RecorderInv == RecorderTypes /\ SegmentNamed /\ SegmentIsSound

LEMMA RecorderInvInit == X11!Init => RecorderInv
<1> SUFFICES ASSUME X11!Init
             PROVE  RecorderInv
    OBVIOUS
<1> USE DEF X11!Init
<1>1. RecorderTypes
    <2>1. live \in BOOLEAN /\ lastOk \in BOOLEAN
        OBVIOUS
    <2>2. 0 \in 0..MaxSegments /\ 0 \in Sizes \cup {0} /\ {} \subseteq CursorSpots
        OBVIOUS
    <2>3. sizeOf \in [1..MaxSegments -> Sizes \cup {0}]
        BY <2>2 DEF X11!Segments
    <2>4. QED
        BY <2>1, <2>2, <2>3 DEF RecorderTypes
<1>2. SegmentNamed
    BY DEF SegmentNamed
<1>3. SegmentIsSound
    BY DEF SegmentIsSound, X11!SegmentCoversCapture, X11!SegmentsAccounted
<1>4. QED
    BY <1>1, <1>2, <1>3 DEF RecorderInv

\* What allocating a segment does to the sizes.
LEMMA Allocates ==
    ASSUME RecorderTypes, NEW w \in Sizes, X11!CanAlloc, X11!Alloc(w)
    PROVE  /\ made + 1 \in 1..MaxSegments /\ made' = made + 1
           /\ sizeOf' \in [1..MaxSegments -> Sizes \cup {0}]
           /\ sizeOf'[made + 1] = w
           /\ \A s \in 1..made : sizeOf'[s] = sizeOf[s]
<1>1. made + 1 \in 1..MaxSegments /\ made' = made + 1
    BY DEF RecorderTypes, X11!CanAlloc, X11!Alloc
<1>2. sizeOf' = [sizeOf EXCEPT ![made + 1] = w] /\ sizeOf \in [1..MaxSegments -> Sizes \cup {0}]
    BY DEF RecorderTypes, X11!Alloc
<1>3. \A s \in 1..made : s \in 1..MaxSegments /\ s # made + 1
    BY <1>1 DEF RecorderTypes
<1>4. QED
    BY <1>1, <1>2, <1>3

\* A new recorder, or a larger segment: the segment is mapped and named, what it
\* replaces is neither.
LEMMA Replaces ==
    ASSUME RecorderInv, NEW w \in Sizes, X11!CanAlloc, X11!Alloc(w), live',
           mapped' = (mapped \ {seg}) \cup {made + 1},
           attached' \subseteq (attached \ {seg}) \cup {made + 1},
           seg' = made + 1, capacity' = w, width' = w, UNCHANGED lost,
           lastOk' \in BOOLEAN, live' \in BOOLEAN, cursorAt' \subseteq CursorSpots
    PROVE  RecorderInv'
<1>1. /\ made + 1 \in 1..MaxSegments /\ made' = made + 1
      /\ sizeOf' \in [1..MaxSegments -> Sizes \cup {0}]
      /\ sizeOf'[made + 1] = w
    BY Allocates DEF RecorderInv
<1>2. /\ made \in Nat /\ mapped \subseteq 1..made /\ lost \subseteq 1..made
      /\ 1..made \subseteq 1..(made + 1) /\ made + 1 \in 1..(made + 1)
      /\ made + 1 \notin 1..made
    BY DEF RecorderInv, RecorderTypes, SegmentNamed
<1>3. /\ mapped \ {seg} = lost
      /\ attached \subseteq mapped
    BY <1>2 DEF RecorderInv, SegmentNamed, SegmentIsSound, X11!SegmentsAccounted
<1>4. RecorderTypes'
    BY <1>1 DEF RecorderTypes
<1>5. SegmentNamed'
    <2>1. seg' \in 0..made' /\ seg' \notin lost'
        BY <1>1, <1>2
    <2>2. mapped' \subseteq 1..made' /\ lost' \subseteq 1..made'
        BY <1>1, <1>2
    <2>3. QED
        BY <2>1, <2>2 DEF SegmentNamed
<1>6. SegmentIsSound'
    <2>1. w <= w
        OBVIOUS
    <2>2. X11!SegmentCoversCapture'
        BY <1>1, <2>1 DEF X11!SegmentCoversCapture
    <2>3. X11!SegmentsAccounted'
        BY <1>3 DEF X11!SegmentsAccounted
    <2>4. QED
        BY <2>2, <2>3 DEF SegmentIsSound
<1>7. QED
    BY <1>4, <1>5, <1>6 DEF RecorderInv

\* Allocating does not disturb the recorder's own segment.
LEMMA Keeps ==
    ASSUME RecorderInv, NEW w \in Sizes, X11!CanAlloc, X11!Alloc(w),
           UNCHANGED <<live, seg, capacity, width, lastOk, cursorAt, attached>>,
           \/ UNCHANGED <<mapped, lost>>
           \/ mapped' = mapped \cup {made + 1} /\ lost' = lost \cup {made + 1}
    PROVE  RecorderInv'
<1>1. /\ made + 1 \in 1..MaxSegments /\ made' = made + 1
      /\ sizeOf' \in [1..MaxSegments -> Sizes \cup {0}]
      /\ \A s \in 1..made : sizeOf'[s] = sizeOf[s]
    BY Allocates DEF RecorderInv
<1>2. /\ made \in Nat /\ mapped \subseteq 1..made /\ lost \subseteq 1..made
      /\ 1..made \subseteq 1..(made + 1) /\ made + 1 \in 1..(made + 1)
      /\ made + 1 \notin 0..made /\ 0..made \subseteq 0..(made + 1)
    BY DEF RecorderInv, RecorderTypes, SegmentNamed
<1>3. RecorderTypes'
    BY <1>1 DEF RecorderInv, RecorderTypes
<1>4. SegmentNamed'
    BY <1>1, <1>2 DEF RecorderInv, SegmentNamed
<1>5. SegmentIsSound'
    <2>1. live => seg \in 1..made /\ seg \in mapped
        BY <1>2 DEF RecorderInv, SegmentIsSound, X11!SegmentCoversCapture
    <2>2. X11!SegmentCoversCapture'
        BY <1>1, <2>1 DEF RecorderInv, SegmentIsSound, X11!SegmentCoversCapture
    <2>3. X11!SegmentsAccounted'
        BY DEF RecorderInv, SegmentIsSound, X11!SegmentsAccounted
    <2>4. QED
        BY <2>2, <2>3 DEF SegmentIsSound
<1>6. QED
    BY <1>3, <1>4, <1>5 DEF RecorderInv

LEMMA RecorderUnchanged ==
    ASSUME RecorderInv, UNCHANGED x11Vars
    PROVE  RecorderInv'
<1> USE DEF x11Vars
<1>1. RecorderTypes'
    BY DEF RecorderInv, RecorderTypes
<1>2. SegmentNamed'
    BY DEF RecorderInv, SegmentNamed
<1>3. SegmentIsSound'
    BY DEF RecorderInv, SegmentIsSound, X11!SegmentCoversCapture, X11!SegmentsAccounted
<1>4. QED
    BY <1>1, <1>2, <1>3 DEF RecorderInv

\* The capture finds the segment large enough, or replaces it.
LEMMA Resizes ==
    ASSUME RecorderInv, live, NEW w \in Sizes, X11!Resize(w),
           lastOk' \in BOOLEAN, cursorAt' \subseteq CursorSpots
    PROVE  RecorderInv'
<1>1. CASE X11!Keep(w)
    <2>1. /\ w <= capacity /\ width' = w
          /\ UNCHANGED <<live, seg, capacity, mapped, attached, sizeOf, lost, made>>
        BY <1>1 DEF X11!Keep, X11!Fits, X11!segmentVars
    <2>2. RecorderTypes'
        BY <2>1 DEF RecorderInv, RecorderTypes
    <2>3. SegmentNamed'
        BY <2>1 DEF RecorderInv, SegmentNamed
    <2>4. SegmentIsSound'
        BY <2>1
        DEF RecorderInv, SegmentIsSound, X11!SegmentCoversCapture, X11!SegmentsAccounted
    <2>5. QED
        BY <2>2, <2>3, <2>4 DEF RecorderInv
<1>2. CASE X11!Grow(w)
    <2>1. /\ X11!CanAlloc /\ X11!Alloc(w) /\ live' /\ live' \in BOOLEAN
          /\ mapped' = (mapped \ {seg}) \cup {made + 1}
          /\ attached' \subseteq (attached \ {seg}) \cup {made + 1}
          /\ seg' = made + 1 /\ capacity' = w /\ width' = w /\ UNCHANGED lost
        BY <1>2 DEF X11!Grow, X11!Attach, RecorderInv, RecorderTypes
    <2>2. QED
        BY <2>1, Replaces
<1>3. QED
    BY <1>1, <1>2 DEF X11!Resize

LEMMA RecorderMade ==
    ASSUME RecorderInv, NEW w \in Sizes, X11!New(w)
    PROVE  RecorderInv'
<1>1. /\ X11!CanAlloc /\ X11!Alloc(w) /\ ~live
      /\ mapped' = mapped \cup {made + 1}
      /\ attached' \subseteq attached \cup {made + 1}
      /\ live' = TRUE /\ seg' = made + 1 /\ capacity' = w /\ width' = w
      /\ lastOk' = TRUE /\ cursorAt' = {} /\ UNCHANGED lost
    BY DEF X11!New, X11!Attach
<1>2. seg = 0 /\ 0 \notin mapped /\ 0 \notin attached
    BY <1>1 DEF RecorderInv, SegmentNamed, SegmentIsSound, X11!SegmentsAccounted
<1>3. /\ mapped' = (mapped \ {seg}) \cup {made + 1}
      /\ attached' \subseteq (attached \ {seg}) \cup {made + 1}
    BY <1>1, <1>2
<1>4. live' /\ live' \in BOOLEAN /\ lastOk' \in BOOLEAN /\ cursorAt' \subseteq CursorSpots
    BY <1>1
<1>5. QED
    BY <1>1, <1>3, <1>4, Replaces

LEMMA RecorderDropped ==
    ASSUME RecorderInv, X11!Drop
    PROVE  RecorderInv'
<1>1. /\ live /\ live' = FALSE /\ seg' = 0 /\ capacity' = 0 /\ width' = 0
      /\ lastOk' = TRUE /\ cursorAt' = {}
      /\ mapped' = mapped \ {seg} /\ attached' = attached \ {seg}
      /\ UNCHANGED <<sizeOf, lost, made>>
    BY DEF X11!Drop
<1>2. RecorderTypes'
    <2>1. live' \in BOOLEAN /\ lastOk' \in BOOLEAN
        BY <1>1
    <2>2. QED
        BY <1>1, <2>1 DEF RecorderInv, RecorderTypes
<1>3. SegmentNamed'
    BY <1>1 DEF RecorderInv, RecorderTypes, SegmentNamed
<1>4. SegmentIsSound'
    BY <1>1
    DEF RecorderInv, SegmentNamed, SegmentIsSound, X11!SegmentCoversCapture, X11!SegmentsAccounted
<1>5. QED
    BY <1>2, <1>3, <1>4 DEF RecorderInv

\* What the video thread does with an X11 recorder.
LEMMA RecorderInvStep == RecorderInv /\ [Next]_vars => RecorderInv'
<1> SUFFICES ASSUME RecorderInv, [Next]_vars
             PROVE  RecorderInv'
    OBVIOUS
<1>1. CASE UNCHANGED x11Vars
    BY <1>1, RecorderUnchanged
<1>2. CASE X11!Drop
    BY <1>2, RecorderDropped
<1>3. CASE Create
    <2>1. ASSUME NEW w \in Sizes, X11!New(w)
          PROVE  RecorderInv'
        BY <2>1, RecorderMade
    <2>2. ASSUME NEW w \in Sizes, X11!NewLoses(w)
          PROVE  RecorderInv'
        BY <2>2, Keeps DEF X11!NewLoses, X11!recorderVars
    <2>3. X11!NewFails => UNCHANGED x11Vars
        BY DEF X11!NewFails, X11!vars, X11!recorderVars, X11!segmentVars, x11Vars
    <2>4. QED
        BY <1>1, <1>3, <2>1, <2>2, <2>3 DEF Create
<1>4. CASE CaptureX11
    <2>1. ASSUME NEW w \in Sizes, NEW x \in CursorSpots, X11!Capture(w, x)
          PROVE  RecorderInv'
        BY <2>1, Resizes DEF X11!Capture
    <2>2. ASSUME NEW w \in Sizes, X11!ImageFails(w)
          PROVE  RecorderInv'
        <3>1. cursorAt' \subseteq CursorSpots
            BY <2>2 DEF X11!ImageFails, RecorderInv, RecorderTypes
        <3>2. QED
            BY <2>2, <3>1, Resizes DEF X11!ImageFails
    <2>3. ASSUME NEW w \in Sizes, X11!GrowRefused(w) \/ X11!GrowLoses(w)
          PROVE  RecorderInv'
        BY <2>3, Keeps DEF X11!GrowRefused, X11!GrowLoses, X11!recorderVars
    <2>4. ASSUME NEW w \in Sizes, X11!GrowFails(w)
          PROVE  UNCHANGED x11Vars
        BY <2>4 DEF X11!GrowFails, X11!vars, X11!recorderVars, X11!segmentVars, x11Vars
    <2>5. X11!GeometryFails => UNCHANGED x11Vars
        BY DEF X11!GeometryFails, X11!vars, X11!recorderVars, X11!segmentVars, x11Vars
    <2>6. X11!CaptureErr => RecorderInv'
        BY <1>1, <2>3, <2>4, <2>5 DEF X11!CaptureErr
    <2>7. QED
        BY <1>4, <2>1, <2>2, <2>6 DEF CaptureX11
<1>5. QED
    BY <1>1, <1>2, <1>3, <1>4
    DEF Next, Video, Encode, Release, CapturePipeWire, GiveUp, DropRecorder, vars

\* composite_cursor's clamping is right for every cursor that starts at or left of
\* the right edge, and for no other: beyond it the columns are those before the
\* image's first.
LEMMA CursorClamped ==
    ASSUME NEW x \in Int, NEW w \in Nat
    PROVE  (\A i \in X11!CursorColumns(x, w) :
                i \in 0..(CursorWidth - 1) /\ i + x \in 0..(w - 1)) <=> x <= w
<1> USE DEF X11!CursorColumns, X11!Least, X11!Most
<1>1. ASSUME x <= w, NEW i \in X11!CursorColumns(x, w)
      PROVE  i \in 0..(CursorWidth - 1) /\ i + x \in 0..(w - 1)
    BY <1>1
<1>2. ASSUME ~(x <= w)
      PROVE  w - x \in X11!CursorColumns(x, w) /\ w - x \notin 0..(CursorWidth - 1)
    BY <1>2
<1> HIDE DEF X11!CursorColumns
<1>3. QED
    BY <1>1, <1>2

-----------------------------------------------------------------------------
(* The PipeWire recorder.  What the callbacks say of the frame that waits is  *)
(* true of its bytes unless the format has changed since; its stride is, even *)
(* then.                                                                      *)
Pictures == [size : Nat, stride : Nat \cup {-1}, fmt : {"BGR", "RGB", "unknown"}]

FrameTypes ==
    /\ stage \in {"gone", "negotiating", "idle", "polling"}
    /\ agreed \in Pictures /\ frame \in Pictures /\ shown \in Pictures
    /\ buffer \in Pictures /\ header \in Pictures
    /\ fresh \in BOOLEAN /\ broken \in BOOLEAN
    /\ renamed \in [waiting : BOOLEAN, taken : BOOLEAN]

WaitingFrame ==
    /\ fresh => shown.stride = frame.stride
    /\ fresh /\ ~renamed.waiting => shown = frame

FrameInv == FrameTypes /\ WaitingFrame /\ ServedAsReceived

LEMMA BlankPicture == PipeWire!Empty \in Pictures
    BY DEF PipeWire!Empty, Pictures

LEMMA FrameInvInit == PipeWire!Init => FrameInv
<1> SUFFICES ASSUME PipeWire!Init
             PROVE  FrameInv
    OBVIOUS
<1>1. /\ stage = "gone" /\ fresh = FALSE /\ broken = FALSE /\ header = buffer
      /\ {agreed, frame, shown, buffer, header} \subseteq Pictures
      /\ renamed \in [waiting : BOOLEAN, taken : BOOLEAN]
    BY BlankPicture DEF PipeWire!Init, PipeWire!Blank
<1>2. FrameTypes
    <2>1. fresh \in BOOLEAN /\ broken \in BOOLEAN
        BY <1>1
    <2>2. QED
        BY <1>1, <2>1 DEF FrameTypes
<1>3. WaitingFrame /\ ServedAsReceived
    BY <1>1 DEF WaitingFrame, ServedAsReceived, PipeWire!ServedAsReceived
<1>4. QED
    BY <1>2, <1>3 DEF FrameInv

LEMMA Resets ==
    ASSUME PipeWire!Reset, stage' \in {"gone", "negotiating"}
    PROVE  FrameInv'
<1>1. /\ fresh' = FALSE /\ broken' = FALSE /\ header' = buffer'
      /\ {agreed', frame', shown', buffer', header'} \subseteq Pictures
      /\ renamed' \in [waiting : BOOLEAN, taken : BOOLEAN]
    BY BlankPicture DEF PipeWire!Reset
<1>2. FrameTypes'
    <2>1. fresh' \in BOOLEAN /\ broken' \in BOOLEAN
        BY <1>1
    <2>2. QED
        BY <1>1, <2>1 DEF FrameTypes
<1>3. WaitingFrame' /\ ServedAsReceived'
    BY <1>1 DEF WaitingFrame, ServedAsReceived, PipeWire!ServedAsReceived
<1>4. QED
    BY <1>2, <1>3 DEF FrameInv

LEMMA FormatChanges ==
    ASSUME FrameInv, NEW w \in Sizes, NEW f \in PipeWire!Formats, PipeWire!ParamChanged(w, f)
    PROVE  FrameInv'
<1>1. /\ agreed' = [size |-> w, stride |-> w, fmt |-> f]
      /\ shown' = [shown EXCEPT !.size = w, !.fmt = f]
      /\ renamed' = [renamed EXCEPT !.waiting = fresh /\ (frame.size # w \/ frame.fmt # f)]
      /\ UNCHANGED <<stage, frame, fresh, broken, buffer, header>>
    BY DEF PipeWire!ParamChanged, PipeWire!ownVars
<1>2. /\ w \in Nat /\ f \in {"BGR", "RGB"} /\ FrameTypes /\ WaitingFrame
      /\ shown \in Pictures /\ frame \in Pictures
      /\ renamed \in [waiting : BOOLEAN, taken : BOOLEAN]
    BY DEF PipeWire!Formats, FrameInv, FrameTypes
<1>3. /\ agreed' \in Pictures /\ shown' \in Pictures
      /\ shown'.stride = shown.stride /\ shown'.size = w /\ shown'.fmt = f
    BY <1>1, <1>2 DEF Pictures
<1>4. /\ renamed' \in [waiting : BOOLEAN, taken : BOOLEAN]
      /\ renamed'.taken = renamed.taken
      /\ renamed'.waiting = (fresh /\ (frame.size # w \/ frame.fmt # f))
    BY <1>1, <1>2
<1>5. FrameTypes'
    BY <1>1, <1>2, <1>3, <1>4 DEF FrameTypes
<1>6. WaitingFrame'
    <2>1. fresh => shown'.stride = frame.stride
        BY <1>2, <1>3 DEF WaitingFrame
    <2>2. ASSUME fresh, ~renamed'.waiting
          PROVE  shown' = frame
        <3>1. frame.size = w /\ frame.fmt = f /\ frame.stride = shown'.stride
            BY <1>4, <2>1, <2>2
        <3>2. QED
            BY <1>2, <1>3, <3>1 DEF Pictures
    <2>3. QED
        BY <1>1, <2>1, <2>2 DEF WaitingFrame
<1>7. ServedAsReceived'
    BY <1>1, <1>4 DEF FrameInv, ServedAsReceived, PipeWire!ServedAsReceived
<1>8. QED
    BY <1>5, <1>6, <1>7 DEF FrameInv

LEMMA FrameArrives ==
    ASSUME FrameInv, NEW s, PipeWire!Process(s)
    PROVE  FrameInv'
<1>1. /\ frame' = [agreed EXCEPT !.stride = s] /\ shown' = frame' /\ fresh' = TRUE
      /\ renamed' = [renamed EXCEPT !.waiting = FALSE]
      /\ s \in {agreed.size, agreed.size + 1}
      /\ UNCHANGED <<stage, agreed, broken, buffer, header>>
    BY DEF PipeWire!Process, PipeWire!ownVars, PipeWire!Strides
<1>2. /\ FrameTypes /\ agreed \in Pictures
      /\ renamed \in [waiting : BOOLEAN, taken : BOOLEAN]
    BY DEF FrameInv, FrameTypes
<1>3. frame' \in Pictures
    <2>1. s \in Nat
        BY <1>1, <1>2 DEF Pictures
    <2>2. QED
        BY <1>1, <1>2, <2>1 DEF Pictures
<1>4. /\ renamed' \in [waiting : BOOLEAN, taken : BOOLEAN]
      /\ renamed'.taken = renamed.taken
    BY <1>1, <1>2
<1>5. FrameTypes'
    <2>1. fresh' \in BOOLEAN
        BY <1>1
    <2>2. QED
        BY <1>1, <1>2, <1>3, <1>4, <2>1 DEF FrameTypes
<1>6. WaitingFrame' /\ ServedAsReceived'
    BY <1>1, <1>4
    DEF FrameInv, WaitingFrame, ServedAsReceived, PipeWire!ServedAsReceived
<1>7. QED
    BY <1>5, <1>6 DEF FrameInv

\* Rows are cut where they have the stride the header names; afterwards the
\* header names the stride they have.
LEMMA Serves ==
    ASSUME NEW h \in Pictures, NEW b \in Pictures, PipeWire!Serve(h, b)
    PROVE  /\ buffer' \in Pictures /\ header' \in Pictures
           /\ h = b => header' = buffer'
<1>1. CASE h.fmt = "RGB"
    <2>1. header' = [h EXCEPT !.stride = h.size]
        BY <1>1 DEF PipeWire!Serve, PipeWire!Tight
    <2>2. \/ buffer' = b /\ h.stride = h.size
          \/ buffer' = [b EXCEPT !.stride = h.size] /\ b.stride = h.stride
          \/ buffer' = [b EXCEPT !.stride = -1] /\ b.stride # h.stride
        BY <1>1 DEF PipeWire!Serve, PipeWire!Depad, PipeWire!Garbled
    <2>3. header' \in Pictures
        BY <2>1 DEF Pictures
    <2>4. buffer' \in Pictures
        BY <2>2 DEF Pictures
    <2>5. ASSUME h = b
          PROVE  header' = buffer'
        <3>1. CASE buffer' = b /\ h.stride = h.size
            BY <2>1, <2>5, <3>1 DEF Pictures
        <3>2. CASE buffer' = [b EXCEPT !.stride = h.size]
            BY <2>1, <2>5, <3>2
        <3>3. QED
            BY <2>2, <2>5, <3>1, <3>2
    <2>6. QED
        BY <2>3, <2>4, <2>5
<1>2. CASE h.fmt # "RGB"
    BY <1>2 DEF PipeWire!Serve
<1>3. QED
    BY <1>1, <1>2

LEMMA FrameTaken ==
    ASSUME FrameInv, PipeWire!TakeFrame
    PROVE  FrameInv'
<1>1. /\ fresh /\ frame' = PipeWire!Empty /\ fresh' = FALSE
      /\ renamed' = [waiting |-> FALSE, taken |-> renamed.waiting]
      /\ PipeWire!Serve(shown, frame) /\ stage' = "idle"
      /\ UNCHANGED <<agreed, shown, broken>>
    BY DEF PipeWire!TakeFrame
<1>2. /\ FrameTypes /\ WaitingFrame /\ shown \in Pictures /\ frame \in Pictures
      /\ renamed \in [waiting : BOOLEAN, taken : BOOLEAN]
    BY DEF FrameInv, FrameTypes
<1>3. /\ buffer' \in Pictures /\ header' \in Pictures
      /\ shown = frame => header' = buffer'
    BY <1>1, <1>2, Serves
<1>4. renamed' \in [waiting : BOOLEAN, taken : BOOLEAN] /\ renamed'.taken = renamed.waiting
    BY <1>1, <1>2
<1>5. FrameTypes'
    <2>1. fresh' \in BOOLEAN /\ stage' \in {"gone", "negotiating", "idle", "polling"}
        BY <1>1
    <2>2. QED
        BY <1>1, <1>2, <1>3, <1>4, <2>1, BlankPicture DEF FrameTypes
<1>6. WaitingFrame'
    BY <1>1 DEF WaitingFrame
<1>7. ServedAsReceived'
    BY <1>1, <1>2, <1>3, <1>4 DEF WaitingFrame, ServedAsReceived, PipeWire!ServedAsReceived
<1>8. QED
    BY <1>5, <1>6, <1>7 DEF FrameInv

LEMMA FrameServedAgain ==
    ASSUME FrameInv, PipeWire!ServeAgain
    PROVE  FrameInv'
<1>1. /\ PipeWire!Serve(header, buffer) /\ stage' = "idle"
      /\ UNCHANGED <<agreed, frame, shown, fresh, broken, renamed>>
    BY DEF PipeWire!ServeAgain, PipeWire!loopVars
<1>2. /\ buffer' \in Pictures /\ header' \in Pictures
      /\ header = buffer => header' = buffer'
    BY <1>1, Serves DEF FrameInv, FrameTypes
<1>3. FrameTypes'
    BY <1>1, <1>2 DEF FrameInv, FrameTypes
<1>4. WaitingFrame' /\ ServedAsReceived'
    BY <1>1, <1>2 DEF FrameInv, WaitingFrame, ServedAsReceived, PipeWire!ServedAsReceived
<1>5. QED
    BY <1>3, <1>4 DEF FrameInv

\* What the video thread and the stream's callbacks do with a PipeWire recorder.
LEMMA FrameInvStep == FrameInv /\ [Next]_vars => FrameInv'
<1> SUFFICES ASSUME FrameInv, [Next]_vars
             PROVE  FrameInv'
    OBVIOUS
<1>1. CASE /\ UNCHANGED <<agreed, frame, shown, fresh, buffer, header, renamed>>
           /\ stage' \in {stage, "idle", "polling"} /\ broken' \in {broken, TRUE}
    <2>1. FrameTypes'
        BY <1>1 DEF FrameInv, FrameTypes
    <2>2. WaitingFrame' /\ ServedAsReceived'
        BY <1>1 DEF FrameInv, WaitingFrame, ServedAsReceived, PipeWire!ServedAsReceived
    <2>3. QED
        BY <2>1, <2>2 DEF FrameInv
<1>2. UNCHANGED pipeWireVars => FrameInv'
    BY <1>1 DEF pipeWireVars
<1>3. PipeWire!New \/ PipeWire!Drop => FrameInv'
    BY Resets DEF PipeWire!New, PipeWire!Drop
<1>4. CASE Create
    BY <1>2, <1>3, <1>4
    DEF Create, PipeWire!NewFails, PipeWire!vars, PipeWire!loopVars, PipeWire!ownVars, pipeWireVars
<1>5. CASE CapturePipeWire
    <2>1. PipeWire!NewReturns \/ PipeWire!Begin \/ PipeWire!Errs \/ PipeWire!NoBuffer
            \/ PipeWire!StreamBreaks => FrameInv'
        BY <1>1
        DEF PipeWire!NewReturns, PipeWire!Begin, PipeWire!Errs, PipeWire!NoBuffer,
            PipeWire!StreamBreaks, PipeWire!loopVars, PipeWire!ownVars
    <2>2. PipeWire!Callback => FrameInv'
        BY <2>1, FormatChanges, FrameArrives DEF PipeWire!Callback
    <2>3. PipeWire!TakeFrame \/ PipeWire!ServeAgain => FrameInv'
        BY FrameTaken, FrameServedAgain
    <2>4. QED
        BY <1>5, <2>1, <2>2, <2>3 DEF CapturePipeWire
<1>6. QED
    BY <1>2, <1>3, <1>4, <1>5
    DEF Next, Video, Encode, Release, CaptureX11, GiveUp, DropRecorder, vars

-----------------------------------------------------------------------------
(* The encoder.  First what each kind of allocation adds up to.               *)
Encoders == [format : BOOLEAN, codec : BOOLEAN, scalers : BOOLEAN, hwFrames : BOOLEAN,
             device : BOOLEAN, packet : BOOLEAN, pb : BOOLEAN, header : BOOLEAN]
Locals == [codec : BOOLEAN, frameOut : BOOLEAN, hwFrames : BOOLEAN, frameIn : 0..3, graph : 0..3]

One(b) == Encoder!One(b)
Kinds == Encoder!Kinds \ {"avioBuffer"}

\* What an encoder's fields own of a kind ...
FieldsOwn(e, k) ==
    CASE k = "format" -> One(e.format)
      [] k = "codec" -> One(e.codec)
      [] k = "device" -> One(e.device)
      [] k = "packet" -> One(e.packet)
      [] k = "avio" -> One(e.pb)
      [] k \in {"frameIn", "graph"} -> 3 * One(e.scalers)
      [] k = "frameOut" -> One(e.scalers)
      [] k = "hwFrames" -> One(e.scalers /\ e.hwFrames)
      [] OTHER -> 0

\* ... and what the locals own.
LocalsOwn(p, k) ==
    CASE k = "codec" -> One(p.codec)
      [] k = "frameOut" -> One(p.frameOut)
      [] k = "hwFrames" -> One(p.hwFrames)
      [] k = "frameIn" -> p.frameIn
      [] k = "graph" -> p.graph
      [] OTHER -> 0

LEMMA OneIsCount == \A b \in BOOLEAN : One(b) \in 0..1
    BY DEF One, Encoder!One

LEMMA Sums ==
    \A f, g : \A k \in Encoder!Kinds : (Encoder!++(f, g))[k] = f[k] + g[k]
    BY DEF Encoder!++

LEMMA Counts ==
    \A S, n : \A k \in Encoder!Kinds : Encoder!Of(S, n)[k] = IF k \in S THEN n ELSE 0
    BY DEF Encoder!Of

LEMMA ScalersOwn ==
    ASSUME NEW pool \in BOOLEAN, NEW k \in Encoder!Kinds
    PROVE  Encoder!Scalers(pool)[k] =
             CASE k \in {"frameIn", "graph"} -> 3
               [] k = "frameOut" -> 1
               [] k = "hwFrames" -> One(pool)
               [] OTHER -> 0
<1> DEFINE f == Encoder!ScaleContexts(3)
           g == Encoder!Of({"frameOut"}, 1)
           h == Encoder!Of({"hwFrames"}, Encoder!One(pool))
<1>1. Encoder!Scalers(pool)[k] = (f[k] + g[k]) + h[k]
    BY Sums DEF Encoder!Scalers
<1>2. /\ f[k] = IF k \in {"frameIn", "graph"} THEN 3 ELSE 0
      /\ g[k] = IF k \in {"frameOut"} THEN 1 ELSE 0
      /\ h[k] = IF k \in {"hwFrames"} THEN Encoder!One(pool) ELSE 0
    BY Counts DEF Encoder!ScaleContexts
<1>3. Encoder!One(pool) = One(pool) /\ One(pool) \in 0..1
    BY OneIsCount DEF One
<1> HIDE DEF f, g, h
<1>4. QED
    BY <1>1, <1>2, <1>3

LEMMA OwnedByFields ==
    ASSUME NEW e \in Encoders, NEW k \in Encoder!Kinds
    PROVE  Encoder!Owned(e)[k] = FieldsOwn(e, k)
<1> DEFINE K == {"format", "codec", "device", "packet"}
           f == Encoder!Of({i \in K : e[i]}, 1)
           g == Encoder!Of({"avio"}, Encoder!One(e.pb))
           h == IF e.scalers THEN Encoder!Scalers(e.hwFrames) ELSE Encoder!Of({}, 0)
<1>1. Encoder!Owned(e)[k] = (f[k] + g[k]) + h[k]
    BY Sums DEF Encoder!Owned
<1>2. f[k] = IF k \in K /\ e[k] THEN 1 ELSE 0
    <2>1. f[k] = IF k \in {i \in K : e[i]} THEN 1 ELSE 0
        BY Counts
    <2>2. k \in {i \in K : e[i]} <=> k \in K /\ e[k]
        OBVIOUS
    <2>3. QED
        BY <2>1, <2>2
<1>3. g[k] = IF k = "avio" THEN One(e.pb) ELSE 0
    BY Counts DEF One
<1>4. e.scalers => h[k] = Encoder!Scalers(e.hwFrames)[k]
    OBVIOUS
<1>5. ~e.scalers => h[k] = 0
    BY Counts
<1>6. /\ e.hwFrames \in BOOLEAN /\ e.scalers \in BOOLEAN /\ e.pb \in BOOLEAN
      /\ One(e.pb) \in 0..1 /\ One(e.hwFrames) \in 0..1
    BY OneIsCount DEF Encoders
<1>7. h[k] = IF ~e.scalers THEN 0
             ELSE CASE k \in {"frameIn", "graph"} -> 3
                    [] k = "frameOut" -> 1
                    [] k = "hwFrames" -> One(e.hwFrames)
                    [] OTHER -> 0
    BY <1>4, <1>5, <1>6, ScalersOwn
<1> HIDE DEF f, g, h
<1>8. CASE k \in {"format", "codec", "device", "packet"}
    <2>1. Encoder!Owned(e)[k] = (IF e[k] THEN 1 ELSE 0)
        BY <1>1, <1>2, <1>3, <1>7, <1>8
    <2>2. QED
        BY <1>8, <2>1 DEF FieldsOwn, One, Encoder!One
<1>9. CASE k \in {"frameIn", "graph", "frameOut", "hwFrames", "avio", "avioBuffer"}
    <2>1. f[k] = 0 /\ g[k] = IF k = "avio" THEN One(e.pb) ELSE 0
        BY <1>2, <1>3, <1>9
    <2>2. Encoder!Owned(e)[k] = IF k = "avio" THEN One(e.pb) ELSE h[k]
        BY <1>1, <1>6, <1>7, <1>9, <2>1
    <2>3. QED
        BY <1>6, <1>7, <1>9, <2>2 DEF FieldsOwn, One, Encoder!One
<1>10. QED
    BY <1>8, <1>9 DEF Encoder!Kinds

LEMMA OwnedByLocals ==
    ASSUME NEW p \in Locals, NEW k \in Encoder!Kinds
    PROVE  Encoder!Local(p)[k] = LocalsOwn(p, k)
<1> DEFINE K == {"codec", "frameOut", "hwFrames"}
           f == Encoder!Of({i \in K : p[i]}, 1)
           g == Encoder!ScaleContexts(p.graph)
           h == Encoder!Of({"frameIn"}, p.frameIn - p.graph)
<1>1. Encoder!Local(p)[k] = (f[k] + g[k]) + h[k]
    BY Sums DEF Encoder!Local
<1>2. f[k] = IF k \in K /\ p[k] THEN 1 ELSE 0
    <2>1. f[k] = IF k \in {i \in K : p[i]} THEN 1 ELSE 0
        BY Counts
    <2>2. k \in {i \in K : p[i]} <=> k \in K /\ p[k]
        OBVIOUS
    <2>3. QED
        BY <2>1, <2>2
<1>3. g[k] = IF k \in {"frameIn", "graph"} THEN p.graph ELSE 0
    BY Counts DEF Encoder!ScaleContexts
<1>4. h[k] = IF k = "frameIn" THEN p.frameIn - p.graph ELSE 0
    BY Counts
<1>5. p.frameIn \in 0..3 /\ p.graph \in 0..3
    BY DEF Locals
<1> HIDE DEF f, g, h
<1>6. CASE k \in K
    <2>1. Encoder!Local(p)[k] = (IF p[k] THEN 1 ELSE 0)
        BY <1>1, <1>2, <1>3, <1>4, <1>6
    <2>2. QED
        BY <1>6, <2>1 DEF LocalsOwn, One, Encoder!One
<1>7. CASE k \notin K
    BY <1>1, <1>2, <1>3, <1>4, <1>5, <1>7 DEF LocalsOwn
<1>8. QED
    BY <1>6, <1>7

-----------------------------------------------------------------------------
(* The order of the back ends: there is always one to try after a hardware    *)
(* back end, libx264 at the latest.                                           *)
LEMMA ForemostIsOne ==
    ASSUME NEW B \in SUBSET Encoder!BackEnds, B # {}
    PROVE  Encoder!Foremost(B) \in B
<1> DEFINE least(b) == b \in B /\ \A c \in B : Encoder!Order[b] <= Encoder!Order[c]
<1>1. \A b \in B : b \in {"vaapi", "mediafoundation", "nvenc", "videotoolbox", "x264"}
    BY DEF Encoder!BackEnds, Encoder!Order
<1>2. \E b \in B : least(b)
    <2>1. "vaapi" \in B => least("vaapi")
        BY <1>1 DEF Encoder!Order
    <2>2. "vaapi" \notin B /\ "mediafoundation" \in B => least("mediafoundation")
        BY <1>1 DEF Encoder!Order
    <2>3. B \cap {"vaapi", "mediafoundation"} = {} /\ "nvenc" \in B => least("nvenc")
        BY <1>1 DEF Encoder!Order
    <2>4. B \cap {"vaapi", "mediafoundation", "nvenc"} = {} /\ "videotoolbox" \in B
            => least("videotoolbox")
        BY <1>1 DEF Encoder!Order
    <2>5. B = {"x264"} => least("x264")
        BY DEF Encoder!Order
    <2> HIDE DEF least
    <2>6. QED
        BY <1>1, <2>1, <2>2, <2>3, <2>4, <2>5
<1>3. QED
    BY <1>2 DEF Encoder!Foremost

LEMMA FirstIsTried ==
    ASSUME hardware \in Builds
    PROVE  Encoder!First \in Encoder!BackEnds
<1>1. Encoder!Tried \in SUBSET Encoder!BackEnds /\ "x264" \in Encoder!Tried
    BY DEF Encoder!Tried, Encoder!BackEnds, Encoder!Order
<1>2. QED
    BY <1>1, ForemostIsOne DEF Encoder!First

LEMMA AnotherIsTried ==
    ASSUME hardware \in Builds, NEW b \in Encoder!BackEnds, b # "x264"
    PROVE  Encoder!After(b) \in Encoder!BackEnds
<1> DEFINE B == {c \in Encoder!Tried : Encoder!Order[b] < Encoder!Order[c]}
<1>1. B \in SUBSET Encoder!BackEnds
    BY DEF Encoder!Tried, Encoder!BackEnds, Encoder!Order
<1>2. "x264" \in B
    BY DEF Encoder!Tried, Encoder!BackEnds, Encoder!Order
<1>3. QED
    BY <1>1, <1>2, ForemostIsOne DEF Encoder!After

-----------------------------------------------------------------------------
(* What an encoder that is being opened, and the locals of the functions that *)
(* open it, can look like at each step.  Without this the heap could not be   *)
(* accounted for: OpenCodec hands over three input frames and graphs however  *)
(* many the locals name, and None frees nothing that was still named.         *)
EncoderTypes ==
    /\ hardware \in Builds
    /\ at \in Encoder!BackEnds \cup {"idle", "stopped", "stream", "avio", "header"}
    /\ new \in Encoders /\ cur \in Encoders /\ part \in Locals
    /\ heap \in [Encoder!Kinds -> Int] /\ opens \in 0..MaxOpens

Opening == at \in Encoder!BackEnds
Late == at \in {"stream", "avio", "header"}

\* The locals are filled in order, the device first: codec, frame, pool, and then
\* an input frame and its graph each time.
LocalsInOrder ==
    /\ part.graph <= part.frameIn
    /\ part.frameIn > 0 => part.frameOut /\ part.hwFrames = new.device
    /\ part.hwFrames => part.frameOut
    /\ part.frameOut => part.codec
    /\ ~Opening => part = Encoder!NoPart
    /\ Encoder!NeedsDevice(at) /\ ~new.device => part = Encoder!NoPart

FieldsInOrder ==
    /\ ~Opening /\ ~Late => new = Encoder!None
    /\ Opening \/ Late => new.format /\ ~new.header
    /\ Opening => /\ ~new.codec /\ ~new.scalers /\ ~new.hwFrames /\ ~new.packet /\ ~new.pb
                  /\ new.device => Encoder!NeedsDevice(at)
    /\ Late => /\ new.codec /\ new.scalers /\ new.hwFrames = new.device
               /\ new.packet = (at # "stream") /\ new.pb = (at = "header")

\* HeapIsOwned, a kind at a time.
OwnedNow(k) == FieldsOwn(new, k) + FieldsOwn(cur, k) + LocalsOwn(part, k)
HeapByKind == \A k \in Kinds : heap[k] = OwnedNow(k)

EncoderInv ==
    EncoderTypes /\ LocalsInOrder /\ FieldsInOrder /\ HeapByKind /\ InUseIsComplete

LEMMA OwnCounts ==
    \A e \in Encoders, p \in Locals, k \in Kinds :
        FieldsOwn(e, k) \in Nat /\ LocalsOwn(p, k) \in Nat
<1> SUFFICES ASSUME NEW e \in Encoders, NEW p \in Locals, NEW k \in Kinds
             PROVE  FieldsOwn(e, k) \in Nat /\ LocalsOwn(p, k) \in Nat
    OBVIOUS
<1>1. FieldsOwn(e, k) \in Nat
    BY DEF FieldsOwn, One, Encoder!One
<1>2. LocalsOwn(p, k) \in Nat
    BY DEF LocalsOwn, One, Encoder!One, Locals
<1>3. QED
    BY <1>1, <1>2

LEMMA NothingOwned ==
    /\ Encoder!None \in Encoders /\ Encoder!NoPart \in Locals
    /\ \A k \in Kinds : FieldsOwn(Encoder!None, k) = 0 /\ LocalsOwn(Encoder!NoPart, k) = 0
<1>1. Encoder!None \in Encoders
    BY DEF Encoder!None, Encoders
<1>2. Encoder!NoPart \in Locals
    BY DEF Encoder!NoPart, Locals
<1>3. ASSUME NEW k \in Kinds
      PROVE  FieldsOwn(Encoder!None, k) = 0 /\ LocalsOwn(Encoder!NoPart, k) = 0
    <2>1. FieldsOwn(Encoder!None, k) = 0
        BY DEF Encoder!None, FieldsOwn, One, Encoder!One
    <2>2. LocalsOwn(Encoder!NoPart, k) = 0
        BY DEF Encoder!NoPart, LocalsOwn, One, Encoder!One
    <2>3. QED
        BY <2>1, <2>2
<1>4. QED
    BY <1>1, <1>2, <1>3

LEMMA HeapByKindIsOwned ==
    ASSUME EncoderTypes
    PROVE  HeapByKind <=> HeapIsOwned
<1>1. ASSUME NEW k \in Kinds
      PROVE  Encoder!++(Encoder!++(Encoder!Owned(new), Encoder!Owned(cur)), Encoder!Local(part))[k]
               = OwnedNow(k)
    <2>1. k \in Encoder!Kinds
        BY DEF Kinds
    <2>2. Encoder!Owned(new)[k] = FieldsOwn(new, k) /\ Encoder!Owned(cur)[k] = FieldsOwn(cur, k)
        BY <2>1, OwnedByFields DEF EncoderTypes
    <2>3. Encoder!Local(part)[k] = LocalsOwn(part, k)
        BY <2>1, OwnedByLocals DEF EncoderTypes
    <2>4. QED
        BY <2>1, <2>2, <2>3, Sums DEF OwnedNow
<1>2. QED
    BY <1>1 DEF HeapByKind, HeapIsOwned, Encoder!HeapIsOwned, Kinds

LEMMA EncoderInvInit == Encoder!Init => EncoderInv
<1> SUFFICES ASSUME Encoder!Init
             PROVE  EncoderInv
    OBVIOUS
<1> USE DEF Encoder!Init
<1>1. EncoderTypes
    BY NothingOwned DEF EncoderTypes
<1>2. LocalsInOrder /\ FieldsInOrder
    BY DEF LocalsInOrder, FieldsInOrder, Opening, Late, Encoder!NoPart, Encoder!None,
           Encoder!BackEnds, Encoder!Order
<1>3. HeapByKind
    BY NothingOwned DEF HeapByKind, OwnedNow, Kinds
<1>4. InUseIsComplete
    BY DEF InUseIsComplete, Encoder!InUseIsComplete
<1>5. QED
    BY <1>1, <1>2, <1>3, <1>4 DEF EncoderInv

\* One allocation of a kind, and one more field or local of that kind ...
LEMMA HeapGrows ==
    ASSUME EncoderTypes, HeapByKind, NEW j \in Encoder!Kinds, Encoder!Allocate(j),
           \A k \in Kinds : OwnedNow(k)' = OwnedNow(k) + IF k = j THEN 1 ELSE 0
    PROVE  HeapByKind' /\ heap' \in [Encoder!Kinds -> Int]
<1>1. heap' = [heap EXCEPT ![j] = @ + 1] /\ heap \in [Encoder!Kinds -> Int]
    BY DEF Encoder!Allocate, EncoderTypes
<1>2. heap' \in [Encoder!Kinds -> Int]
    BY <1>1
<1>3. \A k \in Kinds : heap'[k] = heap[k] + IF k = j THEN 1 ELSE 0
    BY <1>1 DEF Kinds
<1>4. HeapByKind'
    BY <1>3 DEF HeapByKind
<1>5. QED
    BY <1>2, <1>4

\* ... and what is freed is named no longer.
LEMMA HeapShrinks ==
    ASSUME EncoderTypes, HeapByKind, NEW f, heap' = Encoder!Free(f),
           \A k \in Encoder!Kinds : f[k] \in Int,
           \A k \in Kinds : OwnedNow(k)' = OwnedNow(k) - f[k]
    PROVE  HeapByKind' /\ heap' \in [Encoder!Kinds -> Int]
<1>1. heap' = [k \in Encoder!Kinds |-> heap[k] - f[k]] /\ heap \in [Encoder!Kinds -> Int]
    BY DEF Encoder!Free, EncoderTypes
<1>2. heap' \in [Encoder!Kinds -> Int]
    BY <1>1
<1>3. \A k \in Kinds : heap'[k] = heap[k] - f[k]
    BY <1>1 DEF Kinds
<1>4. HeapByKind'
    BY <1>3 DEF HeapByKind
<1>5. QED
    BY <1>2, <1>4

\* What the drop of an encoder frees, and the drop of the locals with it.
LEMMA Dropped ==
    ASSUME NEW e \in Encoders, NEW k \in Encoder!Kinds
    PROVE  Encoder!Owned(e)[k] \in Int /\ Encoder!Owned(e)[k] = FieldsOwn(e, k)
<1>1. FieldsOwn(e, k) \in Int
    BY DEF FieldsOwn, One, Encoder!One
<1>2. QED
    BY <1>1, OwnedByFields

LEMMA DroppedLocals ==
    ASSUME NEW p \in Locals, NEW k \in Encoder!Kinds
    PROVE  Encoder!Local(p)[k] \in Int /\ Encoder!Local(p)[k] = LocalsOwn(p, k)
<1>1. LocalsOwn(p, k) \in Int
    BY DEF LocalsOwn, One, Encoder!One, Locals
<1>2. QED
    BY <1>1, OwnedByLocals

\* No muxer is asked for a trailer that has no header.
LEMMA NoMisuse == \A e \in Encoders : ~Encoder!Misuse(e)
    BY DEF Encoder!Misuse, Encoder!WritesTrailer

\* The encode thread lets go of its encoder.
LEMMA CurGone ==
    ASSUME cur' = Encoder!None, ~misused'
    PROVE  InUseIsComplete'
    BY DEF InUseIsComplete, Encoder!InUseIsComplete, Encoder!None

LEMMA EncoderBegins ==
    ASSUME EncoderInv, Encoder!Begin, UNCHANGED hardware
    PROVE  EncoderInv'
<1>1. /\ at = "idle" /\ opens < MaxOpens /\ opens' = opens + 1 /\ Encoder!Allocate("format")
      /\ new' = [Encoder!None EXCEPT !.format = TRUE] /\ at' = Encoder!First
      /\ UNCHANGED <<cur, part, misused>>
    BY DEF Encoder!Begin
<1>2. EncoderTypes /\ LocalsInOrder /\ FieldsInOrder /\ HeapByKind /\ InUseIsComplete
    BY DEF EncoderInv
<1>3. at' \in Encoder!BackEnds
    BY <1>1, <1>2, FirstIsTried DEF EncoderTypes
<1>4. new = Encoder!None /\ part = Encoder!NoPart
    BY <1>1, <1>2
    DEF LocalsInOrder, FieldsInOrder, Opening, Late, Encoder!BackEnds, Encoder!Order
<1>5. new' \in Encoders
    BY <1>1 DEF Encoder!None, Encoders
<1>6. ASSUME NEW k \in Kinds
      PROVE  OwnedNow(k)' = OwnedNow(k) + IF k = "format" THEN 1 ELSE 0
    <2>1. /\ new'.format = TRUE /\ new'.codec = FALSE /\ new'.scalers = FALSE
          /\ new'.hwFrames = FALSE /\ new'.device = FALSE /\ new'.packet = FALSE
          /\ new'.pb = FALSE
        BY <1>1 DEF Encoder!None
    <2>2. FieldsOwn(new', k) = IF k = "format" THEN 1 ELSE 0
        BY <2>1 DEF FieldsOwn, One, Encoder!One
    <2>3. FieldsOwn(cur, k) \in Nat /\ LocalsOwn(part, k) \in Nat /\ FieldsOwn(new, k) = 0
        BY <1>2, <1>4, OwnCounts, NothingOwned DEF EncoderTypes
    <2>4. QED
        BY <1>1, <2>2, <2>3 DEF OwnedNow
<1>7. HeapByKind' /\ heap' \in [Encoder!Kinds -> Int]
    BY <1>1, <1>2, <1>6, HeapGrows DEF Encoder!Kinds
<1>8. EncoderTypes'
    BY <1>1, <1>2, <1>3, <1>5, <1>7 DEF EncoderTypes
<1>9. LocalsInOrder'
    BY <1>1, <1>3, <1>4 DEF LocalsInOrder, Opening, Encoder!NoPart
<1>10. FieldsInOrder'
    BY <1>1, <1>3
    DEF FieldsInOrder, Opening, Late, Encoder!None, Encoder!BackEnds, Encoder!Order
<1>11. InUseIsComplete'
    BY <1>1, <1>2 DEF InUseIsComplete, Encoder!InUseIsComplete
<1>12. QED
    BY <1>7, <1>8, <1>9, <1>10, <1>11 DEF EncoderInv

LEMMA EncoderRefused ==
    ASSUME EncoderInv, Encoder!Refused, UNCHANGED hardware
    PROVE  EncoderInv'
<1>1. /\ opens < MaxOpens /\ opens' = opens + 1
      /\ heap' = Encoder!Free(Encoder!Owned(cur)) /\ cur' = Encoder!None
      /\ UNCHANGED <<at, new, part, misused>>
    BY DEF Encoder!Refused
<1>2. EncoderTypes /\ LocalsInOrder /\ FieldsInOrder /\ HeapByKind /\ InUseIsComplete
    BY DEF EncoderInv
<1>3. \A k \in Kinds : OwnedNow(k)' = OwnedNow(k) - Encoder!Owned(cur)[k]
    BY <1>1, <1>2, Dropped, NothingOwned, OwnCounts DEF OwnedNow, EncoderTypes, Kinds
<1>4. HeapByKind' /\ heap' \in [Encoder!Kinds -> Int]
    BY <1>1, <1>2, <1>3, HeapShrinks, Dropped DEF EncoderTypes
<1>5. EncoderTypes'
    BY <1>1, <1>2, <1>4, NothingOwned DEF EncoderTypes
<1>6. LocalsInOrder' /\ FieldsInOrder'
    BY <1>1, <1>2 DEF LocalsInOrder, FieldsInOrder, Opening, Late
<1>7. InUseIsComplete'
    BY <1>1, <1>2, CurGone DEF InUseIsComplete, Encoder!InUseIsComplete
<1>8. QED
    BY <1>4, <1>5, <1>6, <1>7 DEF EncoderInv

\* One of the functions that open an encoder allocates, and a local names it.
LEMMA LocalNamed ==
    ASSUME EncoderInv, Opening, NEW j \in Encoder!Kinds, Encoder!Allocate(j),
           UNCHANGED <<hardware, at, new, cur, opens, misused>>,
           part' \in Locals, LocalsInOrder',
           \A k \in Kinds : LocalsOwn(part', k) = LocalsOwn(part, k) + IF k = j THEN 1 ELSE 0
    PROVE  EncoderInv'
<1>1. EncoderTypes /\ FieldsInOrder /\ HeapByKind /\ InUseIsComplete
    BY DEF EncoderInv
<1>2. ASSUME NEW k \in Kinds
      PROVE  OwnedNow(k)' = OwnedNow(k) + IF k = j THEN 1 ELSE 0
    <2>1. /\ FieldsOwn(new, k) \in Nat /\ FieldsOwn(cur, k) \in Nat
          /\ LocalsOwn(part, k) \in Nat
        BY <1>1, OwnCounts DEF EncoderTypes
    <2>2. LocalsOwn(part', k) = LocalsOwn(part, k) + IF k = j THEN 1 ELSE 0
        OBVIOUS
    <2>3. QED
        BY <2>1, <2>2 DEF OwnedNow
<1>3. HeapByKind' /\ heap' \in [Encoder!Kinds -> Int]
    BY <1>1, <1>2, HeapGrows
<1>4. EncoderTypes'
    BY <1>1, <1>3 DEF EncoderTypes
<1>5. FieldsInOrder'
    BY <1>1 DEF FieldsInOrder, Opening, Late
<1>6. InUseIsComplete'
    BY <1>1 DEF InUseIsComplete, Encoder!InUseIsComplete
<1>7. QED
    BY <1>3, <1>4, <1>5, <1>6 DEF EncoderInv

LEMMA CodecAllocated ==
    ASSUME EncoderInv, NEW b \in Encoder!BackEnds, Encoder!AllocCodec(b), UNCHANGED hardware
    PROVE  EncoderInv'
<1>1. /\ Opening /\ (Encoder!NeedsDevice(at) => new.device)
      /\ ~part.codec /\ Encoder!Allocate("codec")
      /\ part' = [part EXCEPT !.codec = TRUE]
      /\ UNCHANGED <<hardware, at, new, cur, opens, misused>>
    BY DEF Encoder!AllocCodec, Encoder!Trying, Opening
<1>2. part \in Locals /\ LocalsInOrder
    BY DEF EncoderInv, EncoderTypes
<1>3. /\ part' \in Locals
      /\ part'.codec = TRUE /\ part'.frameOut = part.frameOut
      /\ part'.hwFrames = part.hwFrames /\ part'.frameIn = part.frameIn
      /\ part'.graph = part.graph
    BY <1>1, <1>2 DEF Locals
<1>4. LocalsInOrder'
    BY <1>1, <1>2, <1>3 DEF LocalsInOrder, Opening
<1>5. ASSUME NEW k \in Kinds
      PROVE  LocalsOwn(part', k) = LocalsOwn(part, k) + IF k = "codec" THEN 1 ELSE 0
    <2>1. LocalsOwn(part, k) \in Nat
        BY <1>2, OwnCounts, NothingOwned
    <2>2. One(part'.codec) = 1 /\ One(part.codec) = 0
        BY <1>1, <1>3 DEF One, Encoder!One
    <2>3. QED
        BY <1>3, <2>1, <2>2 DEF LocalsOwn
<1>6. QED
    BY <1>1, <1>3, <1>4, <1>5, LocalNamed DEF Encoder!Kinds

LEMMA FrameOutAllocated ==
    ASSUME EncoderInv, NEW b \in Encoder!BackEnds, Encoder!AllocFrameOut(b), UNCHANGED hardware
    PROVE  EncoderInv'
<1>1. /\ Opening /\ (Encoder!NeedsDevice(at) => new.device)
      /\ part.codec /\ ~part.frameOut /\ Encoder!Allocate("frameOut")
      /\ part' = [part EXCEPT !.frameOut = TRUE]
      /\ UNCHANGED <<hardware, at, new, cur, opens, misused>>
    BY DEF Encoder!AllocFrameOut, Encoder!Trying, Opening
<1>2. part \in Locals /\ LocalsInOrder
    BY DEF EncoderInv, EncoderTypes
<1>3. /\ part' \in Locals
      /\ part'.codec = part.codec /\ part'.frameOut = TRUE
      /\ part'.hwFrames = part.hwFrames /\ part'.frameIn = part.frameIn
      /\ part'.graph = part.graph
    BY <1>1, <1>2 DEF Locals
<1>4. LocalsInOrder'
    BY <1>1, <1>2, <1>3 DEF LocalsInOrder, Opening
<1>5. ASSUME NEW k \in Kinds
      PROVE  LocalsOwn(part', k) = LocalsOwn(part, k) + IF k = "frameOut" THEN 1 ELSE 0
    <2>1. LocalsOwn(part, k) \in Nat
        BY <1>2, OwnCounts, NothingOwned
    <2>2. One(part'.frameOut) = 1 /\ One(part.frameOut) = 0
        BY <1>1, <1>3 DEF One, Encoder!One
    <2>3. QED
        BY <1>3, <2>1, <2>2 DEF LocalsOwn
<1>6. QED
    BY <1>1, <1>3, <1>4, <1>5, LocalNamed DEF Encoder!Kinds

LEMMA PoolAllocated ==
    ASSUME EncoderInv, NEW b \in Encoder!BackEnds, Encoder!AllocPool(b), UNCHANGED hardware
    PROVE  EncoderInv'
<1>1. /\ Opening /\ (Encoder!NeedsDevice(at) => new.device)
      /\ part.frameOut /\ new.device /\ ~part.hwFrames
      /\ Encoder!Allocate("hwFrames")
      /\ part' = [part EXCEPT !.hwFrames = TRUE]
      /\ UNCHANGED <<hardware, at, new, cur, opens, misused>>
    BY DEF Encoder!AllocPool, Encoder!Trying, Opening
<1>2. part \in Locals /\ LocalsInOrder /\ new \in Encoders
    BY DEF EncoderInv, EncoderTypes
<1>3. /\ part' \in Locals
      /\ part'.codec = part.codec /\ part'.frameOut = part.frameOut
      /\ part'.hwFrames = TRUE /\ part'.frameIn = part.frameIn
      /\ part'.graph = part.graph
    BY <1>1, <1>2 DEF Locals
<1>4. LocalsInOrder'
    <2>1. new.device = TRUE
        BY <1>1, <1>2 DEF Encoders
    <2>2. QED
        BY <1>1, <1>2, <1>3, <2>1 DEF LocalsInOrder, Opening
<1>5. ASSUME NEW k \in Kinds
      PROVE  LocalsOwn(part', k) = LocalsOwn(part, k) + IF k = "hwFrames" THEN 1 ELSE 0
    <2>1. LocalsOwn(part, k) \in Nat
        BY <1>2, OwnCounts, NothingOwned
    <2>2. One(part'.hwFrames) = 1 /\ One(part.hwFrames) = 0
        BY <1>1, <1>3 DEF One, Encoder!One
    <2>3. QED
        BY <1>3, <2>1, <2>2 DEF LocalsOwn
<1>6. QED
    BY <1>1, <1>3, <1>4, <1>5, LocalNamed DEF Encoder!Kinds

LEMMA FrameInAllocated ==
    ASSUME EncoderInv, NEW b \in Encoder!BackEnds, Encoder!AllocFrameIn(b), UNCHANGED hardware
    PROVE  EncoderInv'
<1>1. /\ Opening /\ (Encoder!NeedsDevice(at) => new.device)
      /\ part.frameOut /\ part.hwFrames = new.device
      /\ part.frameIn = part.graph /\ part.frameIn < 3 /\ Encoder!Allocate("frameIn")
      /\ part' = [part EXCEPT !.frameIn = part.frameIn + 1]
      /\ UNCHANGED <<hardware, at, new, cur, opens, misused>>
    BY DEF Encoder!AllocFrameIn, Encoder!NextContext, Encoder!Trying, Opening
<1>2. part \in Locals /\ LocalsInOrder
    BY DEF EncoderInv, EncoderTypes
<1>3. part.frameIn \in 0..3 /\ part.frameIn + 1 \in 0..3
    BY <1>1, <1>2 DEF Locals
<1>4. /\ part' \in Locals
      /\ part'.codec = part.codec /\ part'.frameOut = part.frameOut
      /\ part'.hwFrames = part.hwFrames /\ part'.frameIn = part.frameIn + 1
      /\ part'.graph = part.graph
    BY <1>1, <1>2, <1>3 DEF Locals
<1>5. LocalsInOrder'
    <2>1. part'.graph <= part'.frameIn
        BY <1>1, <1>3, <1>4
    <2>2. QED
        BY <1>1, <1>2, <1>4, <2>1 DEF LocalsInOrder, Opening
<1>6. ASSUME NEW k \in Kinds
      PROVE  LocalsOwn(part', k) = LocalsOwn(part, k) + IF k = "frameIn" THEN 1 ELSE 0
    <2>1. LocalsOwn(part, k) \in Nat
        BY <1>2, OwnCounts, NothingOwned
    <2>2. QED
        BY <1>4, <2>1 DEF LocalsOwn
<1>7. QED
    BY <1>1, <1>4, <1>5, <1>6, LocalNamed DEF Encoder!Kinds

LEMMA GraphBuilt ==
    ASSUME EncoderInv, NEW b \in Encoder!BackEnds, Encoder!BuildGraph(b), UNCHANGED hardware
    PROVE  EncoderInv'
<1>1. /\ Opening /\ (Encoder!NeedsDevice(at) => new.device)
      /\ part.graph < part.frameIn /\ Encoder!Allocate("graph")
      /\ part' = [part EXCEPT !.graph = part.graph + 1]
      /\ UNCHANGED <<hardware, at, new, cur, opens, misused>>
    BY DEF Encoder!BuildGraph, Encoder!Trying, Opening
<1>2. part \in Locals /\ LocalsInOrder
    BY DEF EncoderInv, EncoderTypes
<1>3. part.graph + 1 \in 0..3 /\ part.graph + 1 <= part.frameIn
    BY <1>1, <1>2 DEF Locals
<1>4. /\ part' \in Locals
      /\ part'.codec = part.codec /\ part'.frameOut = part.frameOut
      /\ part'.hwFrames = part.hwFrames /\ part'.frameIn = part.frameIn
      /\ part'.graph = part.graph + 1
    BY <1>1, <1>2, <1>3 DEF Locals
<1>5. LocalsInOrder'
    BY <1>1, <1>2, <1>3, <1>4 DEF LocalsInOrder, Opening
<1>6. ASSUME NEW k \in Kinds
      PROVE  LocalsOwn(part', k) = LocalsOwn(part, k) + IF k = "graph" THEN 1 ELSE 0
    <2>1. LocalsOwn(part, k) \in Nat
        BY <1>2, OwnCounts, NothingOwned
    <2>2. QED
        BY <1>4, <2>1 DEF LocalsOwn
<1>7. QED
    BY <1>1, <1>4, <1>5, <1>6, LocalNamed DEF Encoder!Kinds

\* The device is a field from the start.  No frame has been made without it.
LEMMA DeviceMade ==
    ASSUME EncoderInv, NEW b \in Encoder!BackEnds, Encoder!Device(b), UNCHANGED hardware
    PROVE  EncoderInv'
<1>1. /\ at = b /\ Opening /\ Encoder!NeedsDevice(at) /\ ~new.device
      /\ Encoder!Allocate("device") /\ new' = [new EXCEPT !.device = TRUE]
      /\ UNCHANGED <<hardware, at, cur, part, opens, misused>>
    BY DEF Encoder!Device, Opening
<1>2. EncoderTypes /\ LocalsInOrder /\ FieldsInOrder /\ HeapByKind /\ InUseIsComplete
    BY DEF EncoderInv
<1>3. /\ new' \in Encoders
      /\ new'.format = new.format /\ new'.codec = new.codec /\ new'.scalers = new.scalers
      /\ new'.hwFrames = new.hwFrames /\ new'.device = TRUE /\ new'.packet = new.packet
      /\ new'.pb = new.pb /\ new'.header = new.header
    BY <1>1, <1>2 DEF EncoderTypes, Encoders
<1>4. ASSUME NEW k \in Kinds
      PROVE  OwnedNow(k)' = OwnedNow(k) + IF k = "device" THEN 1 ELSE 0
    <2>1. /\ FieldsOwn(new, k) \in Nat /\ FieldsOwn(cur, k) \in Nat
          /\ LocalsOwn(part, k) \in Nat
        BY <1>2, OwnCounts DEF EncoderTypes
    <2>2. One(new'.device) = 1 /\ One(new.device) = 0
        BY <1>1, <1>3 DEF One, Encoder!One
    <2>3. FieldsOwn(new', k) = FieldsOwn(new, k) + IF k = "device" THEN 1 ELSE 0
        BY <1>3, <2>1, <2>2 DEF FieldsOwn
    <2>4. QED
        BY <1>1, <2>1, <2>3 DEF OwnedNow
<1>5. HeapByKind' /\ heap' \in [Encoder!Kinds -> Int]
    BY <1>1, <1>2, <1>4, HeapGrows DEF Encoder!Kinds
<1>6. EncoderTypes'
    BY <1>1, <1>2, <1>3, <1>5 DEF EncoderTypes
<1>7. LocalsInOrder'
    <2>1. part = Encoder!NoPart /\ UNCHANGED part
        BY <1>1, <1>2 DEF LocalsInOrder
    <2>2. /\ part.graph = 0 /\ part.frameIn = 0 /\ part.hwFrames = FALSE
          /\ part.frameOut = FALSE
        BY <2>1 DEF Encoder!NoPart
    <2>3. QED
        BY <1>1, <2>1, <2>2 DEF LocalsInOrder, Opening
<1>8. FieldsInOrder'
    BY <1>1, <1>2, <1>3 DEF FieldsInOrder, Opening, Late, Encoder!BackEnds, Encoder!Order
<1>9. InUseIsComplete'
    BY <1>1, <1>2 DEF InUseIsComplete, Encoder!InUseIsComplete
<1>10. QED
    BY <1>5, <1>6, <1>7, <1>8, <1>9 DEF EncoderInv

LEMMA DeviceRefused ==
    ASSUME EncoderInv, NEW b \in Encoder!BackEnds, Encoder!NoDevice(b), UNCHANGED hardware
    PROVE  EncoderInv'
<1>1. /\ at = b /\ Opening /\ Encoder!NeedsDevice(at) /\ ~new.device
      /\ at' = Encoder!After(b)
      /\ UNCHANGED <<hardware, new, cur, part, heap, opens, misused>>
    BY DEF Encoder!NoDevice, Opening
<1>2. EncoderTypes /\ LocalsInOrder /\ FieldsInOrder /\ HeapByKind /\ InUseIsComplete
    BY DEF EncoderInv
<1>3. at' \in Encoder!BackEnds
    BY <1>1, <1>2, AnotherIsTried DEF EncoderTypes, Encoder!NeedsDevice
<1>4. part = Encoder!NoPart
    BY <1>1, <1>2 DEF LocalsInOrder
<1>5. EncoderTypes'
    BY <1>1, <1>2, <1>3 DEF EncoderTypes
<1>6. LocalsInOrder'
    BY <1>1, <1>2, <1>4 DEF LocalsInOrder
<1>7. FieldsInOrder'
    BY <1>1, <1>2, <1>3 DEF FieldsInOrder, Opening, Late, Encoder!BackEnds, Encoder!Order
<1>8. HeapByKind' /\ InUseIsComplete'
    BY <1>1, <1>2
    DEF HeapByKind, OwnedNow, InUseIsComplete, Encoder!InUseIsComplete
<1>9. QED
    BY <1>5, <1>6, <1>7, <1>8 DEF EncoderInv

\* The codec opens: the locals are complete, and become fields.
LEMMA CodecOpened ==
    ASSUME EncoderInv, NEW b \in Encoder!BackEnds, Encoder!OpenCodec(b), UNCHANGED hardware
    PROVE  EncoderInv'
<1>1. /\ at = b /\ Opening /\ (Encoder!NeedsDevice(at) => new.device) /\ part.graph = 3
      /\ new' = [new EXCEPT !.codec = TRUE, !.scalers = TRUE, !.hwFrames = part.hwFrames]
      /\ part' = Encoder!NoPart /\ at' = "stream"
      /\ UNCHANGED <<hardware, cur, heap, opens, misused>>
    BY DEF Encoder!OpenCodec, Encoder!Trying, Opening
<1>2. EncoderTypes /\ LocalsInOrder /\ FieldsInOrder /\ HeapByKind /\ InUseIsComplete
    BY DEF EncoderInv
<1>3. part \in Locals /\ new \in Encoders /\ cur \in Encoders
    BY <1>2 DEF EncoderTypes
<1>4. part.graph = 3 /\ part.frameIn = 3
    BY <1>1, <1>2, <1>3 DEF LocalsInOrder, Locals
<1>5. part.frameIn > 0
    BY <1>4
<1>6. part.frameOut /\ part.codec /\ part.hwFrames = new.device
    BY <1>2, <1>5 DEF LocalsInOrder
<1>7. /\ new.format /\ ~new.header /\ ~new.codec /\ ~new.scalers /\ ~new.hwFrames
      /\ ~new.packet /\ ~new.pb
    BY <1>1, <1>2 DEF FieldsInOrder
<1>8. /\ new' \in Encoders
      /\ new'.format = new.format /\ new'.codec = TRUE /\ new'.scalers = TRUE
      /\ new'.hwFrames = part.hwFrames /\ new'.device = new.device
      /\ new'.packet = new.packet /\ new'.pb = new.pb /\ new'.header = new.header
    BY <1>1, <1>3 DEF Encoders, Locals
<1>9. ASSUME NEW k \in Kinds
      PROVE  OwnedNow(k)' = OwnedNow(k)
    <2>1. /\ FieldsOwn(new, k) \in Nat /\ FieldsOwn(cur, k) \in Nat
          /\ LocalsOwn(part, k) \in Nat /\ LocalsOwn(part', k) = 0
        BY <1>1, <1>3, OwnCounts, NothingOwned
    <2>2. /\ One(new.codec) = 0 /\ One(new.scalers) = 0
          /\ One(new.scalers /\ new.hwFrames) = 0
        BY <1>7 DEF One, Encoder!One
    <2>3. One(part.codec) = 1 /\ One(part.frameOut) = 1
        BY <1>6 DEF One, Encoder!One
    <2>4. /\ One(new'.codec) = 1 /\ One(new'.scalers) = 1
          /\ One(new'.scalers /\ new'.hwFrames) = One(part.hwFrames)
        BY <1>3, <1>8 DEF One, Encoder!One, Locals
    <2>5. FieldsOwn(new', k) = FieldsOwn(new, k) + LocalsOwn(part, k)
        <3>1. CASE k \in {"format", "device", "packet", "avio"}
            BY <1>8, <2>1, <3>1 DEF FieldsOwn, LocalsOwn
        <3>2. CASE k \in {"codec", "frameOut"}
            BY <2>2, <2>3, <2>4, <3>2 DEF FieldsOwn, LocalsOwn
        <3>3. CASE k = "hwFrames"
            BY <2>1, <2>2, <2>4, <3>3 DEF FieldsOwn, LocalsOwn
        <3>4. CASE k \in {"frameIn", "graph"}
            BY <1>4, <2>2, <2>4, <3>4 DEF FieldsOwn, LocalsOwn
        <3>5. QED
            BY <3>1, <3>2, <3>3, <3>4 DEF Kinds, Encoder!Kinds
    <2>6. QED
        BY <1>1, <2>1, <2>5 DEF OwnedNow
<1>10. HeapByKind'
    BY <1>1, <1>2, <1>9 DEF HeapByKind
<1>11. EncoderTypes'
    BY <1>1, <1>2, <1>8, NothingOwned DEF EncoderTypes
<1>12. ~Opening' /\ Late' /\ ~Encoder!NeedsDevice(at')
    BY <1>1 DEF Opening, Late, Encoder!NeedsDevice, Encoder!BackEnds, Encoder!Order
<1>13. LocalsInOrder'
    BY <1>1 DEF LocalsInOrder, Encoder!NoPart
<1>14. FieldsInOrder'
    <2>1. new'.packet = FALSE /\ new'.pb = FALSE
        BY <1>3, <1>7, <1>8 DEF Encoders
    <2>2. QED
        BY <1>1, <1>6, <1>7, <1>8, <1>12, <2>1 DEF FieldsInOrder
<1>15. InUseIsComplete'
    BY <1>1, <1>2 DEF InUseIsComplete, Encoder!InUseIsComplete
<1>16. QED
    BY <1>10, <1>11, <1>13, <1>14, <1>15 DEF EncoderInv

\* A hardware back end fails: the locals and the device are freed.
LEMMA HardwareFailed ==
    ASSUME EncoderInv, NEW b \in Encoder!BackEnds, Encoder!HardwareFails(b), UNCHANGED hardware
    PROVE  EncoderInv'
<1> DEFINE f == Encoder!++(Encoder!Local(part), Encoder!Of({"device"}, Encoder!One(new.device)))
<1>1. /\ at = b /\ Opening /\ b # "x264" /\ heap' = Encoder!Free(f)
      /\ new' = [new EXCEPT !.device = FALSE] /\ part' = Encoder!NoPart
      /\ at' = Encoder!After(b)
      /\ UNCHANGED <<hardware, cur, opens, misused>>
    BY DEF Encoder!HardwareFails, Encoder!Trying, Opening
<1>2. EncoderTypes /\ LocalsInOrder /\ FieldsInOrder /\ HeapByKind /\ InUseIsComplete
    BY DEF EncoderInv
<1>3. part \in Locals /\ new \in Encoders /\ cur \in Encoders /\ new.device \in BOOLEAN
    BY <1>2 DEF EncoderTypes, Encoders
<1>4. at' \in Encoder!BackEnds
    BY <1>1, <1>2, AnotherIsTried DEF EncoderTypes
<1>5. /\ new' \in Encoders
      /\ new'.format = new.format /\ new'.codec = new.codec /\ new'.scalers = new.scalers
      /\ new'.hwFrames = new.hwFrames /\ new'.device = FALSE /\ new'.packet = new.packet
      /\ new'.pb = new.pb /\ new'.header = new.header
    BY <1>1, <1>3 DEF Encoders
<1>6. ASSUME NEW k \in Encoder!Kinds
      PROVE  f[k] \in Int /\ f[k] = LocalsOwn(part, k) + IF k = "device" THEN One(new.device) ELSE 0
    <2>1. f[k] = Encoder!Local(part)[k] + IF k \in {"device"} THEN Encoder!One(new.device) ELSE 0
        BY Sums, Counts
    <2>2. One(new.device) \in Int /\ One(new.device) = Encoder!One(new.device)
        BY <1>3, OneIsCount DEF One
    <2>3. Encoder!Local(part)[k] \in Int /\ Encoder!Local(part)[k] = LocalsOwn(part, k)
        BY <1>3, DroppedLocals
    <2> HIDE DEF f
    <2>4. QED
        BY <2>1, <2>2, <2>3
<1> HIDE DEF f
<1>7. ASSUME NEW k \in Kinds
      PROVE  OwnedNow(k)' = OwnedNow(k) - f[k]
    <2>1. /\ FieldsOwn(new, k) \in Nat /\ FieldsOwn(cur, k) \in Nat
          /\ LocalsOwn(part, k) \in Nat /\ LocalsOwn(part', k) = 0
        BY <1>1, <1>3, OwnCounts, NothingOwned
    <2>2. One(new'.device) = 0 /\ One(new.device) \in Int
        BY <1>3, <1>5, OneIsCount DEF One, Encoder!One
    <2>3. FieldsOwn(new', k) = FieldsOwn(new, k) - IF k = "device" THEN One(new.device) ELSE 0
        BY <1>5, <2>1, <2>2 DEF FieldsOwn
    <2>4. f[k] = LocalsOwn(part, k) + IF k = "device" THEN One(new.device) ELSE 0
        BY <1>6 DEF Kinds
    <2>5. QED
        BY <1>1, <2>1, <2>2, <2>3, <2>4 DEF OwnedNow
<1>8. HeapByKind' /\ heap' \in [Encoder!Kinds -> Int]
    BY <1>1, <1>2, <1>6, <1>7, HeapShrinks
<1>9. EncoderTypes'
    BY <1>1, <1>2, <1>4, <1>5, <1>8, NothingOwned DEF EncoderTypes
<1>10. LocalsInOrder'
    BY <1>1 DEF LocalsInOrder, Encoder!NoPart
<1>11. FieldsInOrder'
    BY <1>1, <1>2, <1>4, <1>5 DEF FieldsInOrder, Opening, Late, Encoder!BackEnds, Encoder!Order
<1>12. InUseIsComplete'
    BY <1>1, <1>2 DEF InUseIsComplete, Encoder!InUseIsComplete
<1>13. QED
    BY <1>8, <1>9, <1>10, <1>11, <1>12 DEF EncoderInv

\* The whole opening fails: the old encoder goes with the new one.
LEMMA OpenFailed ==
    ASSUME EncoderInv, Encoder!Fail, UNCHANGED hardware
    PROVE  EncoderInv'
<1> DEFINE f == Encoder!++(Encoder!++(Encoder!Owned(new), Encoder!Owned(cur)), Encoder!Local(part))
<1>1. /\ heap' = Encoder!Free(f)
      /\ misused' = (misused \/ Encoder!Misuse(new) \/ Encoder!Misuse(cur))
      /\ new' = Encoder!None /\ cur' = Encoder!None /\ part' = Encoder!NoPart
      /\ at' = "idle" /\ UNCHANGED <<hardware, opens>>
    BY DEF Encoder!Fail
<1>2. EncoderTypes /\ HeapByKind /\ InUseIsComplete
    BY DEF EncoderInv
<1>3. part \in Locals /\ new \in Encoders /\ cur \in Encoders
    BY <1>2 DEF EncoderTypes
<1>4. ASSUME NEW k \in Encoder!Kinds
      PROVE  /\ f[k] \in Int
             /\ f[k] = FieldsOwn(new, k) + FieldsOwn(cur, k) + LocalsOwn(part, k)
    <2>1. f[k] = (Encoder!Owned(new)[k] + Encoder!Owned(cur)[k]) + Encoder!Local(part)[k]
        BY Sums
    <2>2. Encoder!Owned(new)[k] \in Int /\ Encoder!Owned(new)[k] = FieldsOwn(new, k)
        BY <1>3, Dropped
    <2>3. Encoder!Owned(cur)[k] \in Int /\ Encoder!Owned(cur)[k] = FieldsOwn(cur, k)
        BY <1>3, Dropped
    <2>4. Encoder!Local(part)[k] \in Int /\ Encoder!Local(part)[k] = LocalsOwn(part, k)
        BY <1>3, DroppedLocals
    <2> HIDE DEF f
    <2>5. QED
        BY <2>1, <2>2, <2>3, <2>4
<1> HIDE DEF f
<1>5. ASSUME NEW k \in Kinds
      PROVE  OwnedNow(k)' = OwnedNow(k) - f[k]
    <2>1. /\ FieldsOwn(new', k) = 0 /\ FieldsOwn(cur', k) = 0 /\ LocalsOwn(part', k) = 0
        BY <1>1, NothingOwned
    <2>2. f[k] \in Int /\ f[k] = OwnedNow(k)
        BY <1>4 DEF OwnedNow, Kinds
    <2>3. OwnedNow(k)' = 0
        BY <2>1 DEF OwnedNow
    <2>4. QED
        BY <2>2, <2>3
<1>6. HeapByKind' /\ heap' \in [Encoder!Kinds -> Int]
    BY <1>1, <1>2, <1>4, <1>5, HeapShrinks
<1>7. EncoderTypes'
    BY <1>1, <1>2, <1>6, NothingOwned DEF EncoderTypes
<1>8. LocalsInOrder' /\ FieldsInOrder'
    BY <1>1
    DEF LocalsInOrder, FieldsInOrder, Opening, Late, Encoder!NoPart, Encoder!None,
        Encoder!BackEnds, Encoder!Order
<1>9. InUseIsComplete'
    BY <1>1, <1>2, <1>3, NoMisuse, CurGone DEF InUseIsComplete, Encoder!InUseIsComplete
<1>10. QED
    BY <1>6, <1>7, <1>8, <1>9 DEF EncoderInv

\* The steps after the codec: no local is left.
LEMMA PacketAllocated ==
    ASSUME EncoderInv, Encoder!StreamAndPacket, UNCHANGED hardware
    PROVE  EncoderInv'
<1>1. /\ at = "stream" /\ Encoder!Allocate("packet") /\ new' = [new EXCEPT !.packet = TRUE]
      /\ at' = "avio" /\ UNCHANGED <<hardware, cur, part, opens, misused>>
    BY DEF Encoder!StreamAndPacket
<1>2. EncoderTypes /\ LocalsInOrder /\ FieldsInOrder /\ HeapByKind /\ InUseIsComplete
    BY DEF EncoderInv
<1>3. /\ ~Opening /\ Late /\ ~Opening' /\ Late' /\ ~Encoder!NeedsDevice(at')
    BY <1>1 DEF Opening, Late, Encoder!BackEnds, Encoder!Order, Encoder!NeedsDevice
<1>4. /\ new' \in Encoders
      /\ new'.format = new.format /\ new'.codec = new.codec /\ new'.scalers = new.scalers
      /\ new'.hwFrames = new.hwFrames /\ new'.device = new.device /\ new'.packet = TRUE
      /\ new'.pb = new.pb /\ new'.header = new.header
    BY <1>1, <1>2 DEF EncoderTypes, Encoders
<1>5. ~new.packet /\ ~new.pb /\ part = Encoder!NoPart
    BY <1>1, <1>2, <1>3 DEF LocalsInOrder, FieldsInOrder
<1>6. ASSUME NEW k \in Kinds
      PROVE  OwnedNow(k)' = OwnedNow(k) + IF k = "packet" THEN 1 ELSE 0
    <2>1. /\ FieldsOwn(new, k) \in Nat /\ FieldsOwn(cur, k) \in Nat
          /\ LocalsOwn(part, k) \in Nat
        BY <1>2, OwnCounts DEF EncoderTypes
    <2>2. One(new'.packet) = 1 /\ One(new.packet) = 0
        BY <1>4, <1>5 DEF One, Encoder!One
    <2>3. FieldsOwn(new', k) = FieldsOwn(new, k) + IF k = "packet" THEN 1 ELSE 0
        BY <1>4, <2>1, <2>2 DEF FieldsOwn
    <2>4. QED
        BY <1>1, <2>1, <2>3 DEF OwnedNow
<1>7. HeapByKind' /\ heap' \in [Encoder!Kinds -> Int]
    BY <1>1, <1>2, <1>6, HeapGrows DEF Encoder!Kinds
<1>8. EncoderTypes'
    BY <1>1, <1>2, <1>4, <1>7 DEF EncoderTypes
<1>9. LocalsInOrder'
    BY <1>1, <1>5 DEF LocalsInOrder, Encoder!NoPart
<1>10. FieldsInOrder'
    BY <1>1, <1>2, <1>3, <1>4, <1>5 DEF FieldsInOrder
<1>11. InUseIsComplete'
    BY <1>1, <1>2 DEF InUseIsComplete, Encoder!InUseIsComplete
<1>12. QED
    BY <1>7, <1>8, <1>9, <1>10, <1>11 DEF EncoderInv

LEMMA AvioAllocated ==
    ASSUME EncoderInv, Encoder!Avio, UNCHANGED hardware
    PROVE  EncoderInv'
<1>1. /\ at = "avio"
      /\ heap' = [heap EXCEPT !["avio"] = heap["avio"] + 1,
                              !["avioBuffer"] = heap["avioBuffer"] + 1]
      /\ new' = [new EXCEPT !.pb = TRUE]
      /\ at' = "header" /\ UNCHANGED <<hardware, cur, part, opens, misused>>
    BY DEF Encoder!Avio
<1>2. EncoderTypes /\ LocalsInOrder /\ FieldsInOrder /\ HeapByKind /\ InUseIsComplete
    BY DEF EncoderInv
<1>3. /\ ~Opening /\ Late /\ ~Opening' /\ Late' /\ ~Encoder!NeedsDevice(at')
    BY <1>1 DEF Opening, Late, Encoder!BackEnds, Encoder!Order, Encoder!NeedsDevice
<1>4. /\ new' \in Encoders
      /\ new'.format = new.format /\ new'.codec = new.codec /\ new'.scalers = new.scalers
      /\ new'.hwFrames = new.hwFrames /\ new'.device = new.device
      /\ new'.packet = new.packet /\ new'.pb = TRUE /\ new'.header = new.header
    BY <1>1, <1>2 DEF EncoderTypes, Encoders
<1>5. new.packet /\ ~new.pb /\ part = Encoder!NoPart
    BY <1>1, <1>2, <1>3 DEF LocalsInOrder, FieldsInOrder
<1>6. heap \in [Encoder!Kinds -> Int] /\ {"avio", "avioBuffer"} \subseteq Encoder!Kinds
    BY <1>2 DEF EncoderTypes, Encoder!Kinds
<1>7. heap' \in [Encoder!Kinds -> Int]
    BY <1>1, <1>6
<1>8. ASSUME NEW k \in Kinds
      PROVE  heap'[k] = heap[k] + IF k = "avio" THEN 1 ELSE 0
    <2>1. k \in Encoder!Kinds /\ k # "avioBuffer"
        BY DEF Kinds
    <2>2. QED
        BY <1>1, <1>6, <2>1
<1>9. ASSUME NEW k \in Kinds
      PROVE  OwnedNow(k)' = OwnedNow(k) + IF k = "avio" THEN 1 ELSE 0
    <2>1. /\ FieldsOwn(new, k) \in Nat /\ FieldsOwn(cur, k) \in Nat
          /\ LocalsOwn(part, k) \in Nat
        BY <1>2, OwnCounts DEF EncoderTypes
    <2>2. One(new'.pb) = 1 /\ One(new.pb) = 0
        BY <1>4, <1>5 DEF One, Encoder!One
    <2>3. FieldsOwn(new', k) = FieldsOwn(new, k) + IF k = "avio" THEN 1 ELSE 0
        BY <1>4, <2>1, <2>2 DEF FieldsOwn
    <2>4. QED
        BY <1>1, <2>1, <2>3 DEF OwnedNow
<1>10. HeapByKind'
    BY <1>2, <1>8, <1>9 DEF HeapByKind
<1>11. EncoderTypes'
    BY <1>1, <1>2, <1>4, <1>7 DEF EncoderTypes
<1>12. LocalsInOrder'
    BY <1>1, <1>5 DEF LocalsInOrder, Encoder!NoPart
<1>13. FieldsInOrder'
    <2>1. new'.packet = TRUE
        BY <1>2, <1>4, <1>5 DEF EncoderTypes, Encoders
    <2>2. QED
        BY <1>1, <1>2, <1>3, <1>4, <2>1 DEF FieldsInOrder
<1>14. InUseIsComplete'
    BY <1>1, <1>2 DEF InUseIsComplete, Encoder!InUseIsComplete
<1>15. QED
    BY <1>10, <1>11, <1>12, <1>13, <1>14 DEF EncoderInv

\* The new encoder is complete and takes the old one's place.
LEMMA EncoderOpened ==
    ASSUME EncoderInv, Encoder!Header, UNCHANGED hardware
    PROVE  EncoderInv'
<1>1. /\ at = "header" /\ heap' = Encoder!Free(Encoder!Owned(cur))
      /\ misused' = (misused \/ Encoder!Misuse(cur))
      /\ cur' = [new EXCEPT !.header = TRUE] /\ new' = Encoder!None /\ at' = "idle"
      /\ UNCHANGED <<hardware, part, opens>>
    BY DEF Encoder!Header
<1>2. EncoderTypes /\ LocalsInOrder /\ FieldsInOrder /\ HeapByKind /\ InUseIsComplete
    BY DEF EncoderInv
<1>3. ~Opening /\ Late /\ ~Opening' /\ ~Late' /\ ~Encoder!NeedsDevice(at')
    BY <1>1 DEF Opening, Late, Encoder!BackEnds, Encoder!Order, Encoder!NeedsDevice
<1>4. /\ cur' \in Encoders
      /\ cur'.format = new.format /\ cur'.codec = new.codec /\ cur'.scalers = new.scalers
      /\ cur'.hwFrames = new.hwFrames /\ cur'.device = new.device
      /\ cur'.packet = new.packet /\ cur'.pb = new.pb /\ cur'.header = TRUE
    BY <1>1, <1>2 DEF EncoderTypes, Encoders
<1>5. /\ part = Encoder!NoPart
      /\ new.format /\ new.codec /\ new.scalers /\ new.packet /\ new.pb
      /\ new.hwFrames = new.device
    BY <1>1, <1>2, <1>3 DEF LocalsInOrder, FieldsInOrder
<1>6. ASSUME NEW k \in Kinds
      PROVE  OwnedNow(k)' = OwnedNow(k) - Encoder!Owned(cur)[k]
    <2>1. /\ FieldsOwn(new, k) \in Nat /\ FieldsOwn(cur, k) \in Nat
          /\ LocalsOwn(part, k) \in Nat /\ FieldsOwn(new', k) = 0
        BY <1>1, <1>2, OwnCounts, NothingOwned DEF EncoderTypes
    <2>2. Encoder!Owned(cur)[k] = FieldsOwn(cur, k)
        BY <1>2, Dropped DEF EncoderTypes, Kinds
    <2>3. FieldsOwn(cur', k) = FieldsOwn(new, k)
        BY <1>4 DEF FieldsOwn
    <2>4. QED
        BY <1>1, <2>1, <2>2, <2>3 DEF OwnedNow
<1>7. HeapByKind' /\ heap' \in [Encoder!Kinds -> Int]
    BY <1>1, <1>2, <1>6, HeapShrinks, Dropped DEF EncoderTypes
<1>8. EncoderTypes'
    BY <1>1, <1>2, <1>4, <1>7, NothingOwned DEF EncoderTypes
<1>9. LocalsInOrder'
    BY <1>1, <1>5 DEF LocalsInOrder, Encoder!NoPart
<1>10. FieldsInOrder'
    BY <1>1, <1>3 DEF FieldsInOrder
<1>11. InUseIsComplete'
    <2>1. ~misused'
        BY <1>1, <1>2, NoMisuse DEF EncoderTypes, InUseIsComplete, Encoder!InUseIsComplete
    <2>2. QED
        BY <1>4, <1>5, <2>1 DEF InUseIsComplete, Encoder!InUseIsComplete
<1>12. QED
    BY <1>7, <1>8, <1>9, <1>10, <1>11 DEF EncoderInv

LEMMA EncoderStopped ==
    ASSUME EncoderInv, Encoder!Stop, UNCHANGED hardware
    PROVE  EncoderInv'
<1>1. /\ at = "idle" /\ heap' = Encoder!Free(Encoder!Owned(cur))
      /\ misused' = (misused \/ Encoder!Misuse(cur))
      /\ cur' = Encoder!None /\ at' = "stopped"
      /\ UNCHANGED <<hardware, new, part, opens>>
    BY DEF Encoder!Stop
<1>2. EncoderTypes /\ LocalsInOrder /\ FieldsInOrder /\ HeapByKind /\ InUseIsComplete
    BY DEF EncoderInv
<1>3. ~Opening /\ ~Late /\ ~Opening' /\ ~Late'
    BY <1>1 DEF Opening, Late, Encoder!BackEnds, Encoder!Order
<1>4. new = Encoder!None /\ part = Encoder!NoPart
    BY <1>2, <1>3 DEF LocalsInOrder, FieldsInOrder
<1>5. ASSUME NEW k \in Kinds
      PROVE  OwnedNow(k)' = OwnedNow(k) - Encoder!Owned(cur)[k]
    <2>1. /\ FieldsOwn(new, k) \in Nat /\ FieldsOwn(cur, k) \in Nat
          /\ LocalsOwn(part, k) \in Nat /\ FieldsOwn(cur', k) = 0
        BY <1>1, <1>2, OwnCounts, NothingOwned DEF EncoderTypes
    <2>2. Encoder!Owned(cur)[k] = FieldsOwn(cur, k)
        BY <1>2, Dropped DEF EncoderTypes, Kinds
    <2>3. QED
        BY <1>1, <2>1, <2>2 DEF OwnedNow
<1>6. HeapByKind' /\ heap' \in [Encoder!Kinds -> Int]
    BY <1>1, <1>2, <1>5, HeapShrinks, Dropped DEF EncoderTypes
<1>7. EncoderTypes'
    BY <1>1, <1>2, <1>6, NothingOwned DEF EncoderTypes
<1>8. LocalsInOrder' /\ FieldsInOrder'
    BY <1>1, <1>3, <1>4 DEF LocalsInOrder, FieldsInOrder, Encoder!NoPart
<1>9. InUseIsComplete'
    BY <1>1, <1>2, NoMisuse, CurGone DEF EncoderTypes, InUseIsComplete, Encoder!InUseIsComplete
<1>10. QED
    BY <1>6, <1>7, <1>8, <1>9 DEF EncoderInv

LEMMA EncoderUnchanged ==
    ASSUME EncoderInv, UNCHANGED encoderVars
    PROVE  EncoderInv'
<1> USE DEF encoderVars
<1>1. EncoderTypes' /\ LocalsInOrder' /\ FieldsInOrder'
    BY DEF EncoderInv, EncoderTypes, LocalsInOrder, FieldsInOrder, Opening, Late
<1>2. HeapByKind' /\ InUseIsComplete'
    BY DEF EncoderInv, HeapByKind, OwnedNow, InUseIsComplete, Encoder!InUseIsComplete
<1>3. QED
    BY <1>1, <1>2 DEF EncoderInv

LEMMA EncoderInvStep == EncoderInv /\ [Next]_vars => EncoderInv'
<1> SUFFICES ASSUME EncoderInv, [Next]_vars
             PROVE  EncoderInv'
    OBVIOUS
<1>1. CASE UNCHANGED encoderVars
    BY <1>1, EncoderUnchanged
<1>2. CASE Encode
    <2> UNCHANGED hardware
        BY <1>2 DEF Encode
    <2>1. CASE Encoder!Begin \/ Encoder!Refused \/ Encoder!Stop
        BY <2>1, EncoderBegins, EncoderRefused, EncoderStopped
    <2>2. CASE Encoder!Open
        <3>1. CASE Encoder!SoftwareFails \/ Encoder!LateFail
            BY <3>1, OpenFailed DEF Encoder!SoftwareFails, Encoder!LateFail
        <3>2. CASE Encoder!StreamAndPacket \/ Encoder!Avio \/ Encoder!Header
            BY <3>2, PacketAllocated, AvioAllocated, EncoderOpened
        <3>3. ASSUME NEW b \in Encoder!BackEnds,
                     \/ Encoder!Device(b) \/ Encoder!NoDevice(b) \/ Encoder!AllocCodec(b)
                     \/ Encoder!AllocFrameOut(b) \/ Encoder!AllocPool(b)
                     \/ Encoder!AllocFrameIn(b) \/ Encoder!BuildGraph(b)
                     \/ Encoder!OpenCodec(b) \/ Encoder!HardwareFails(b)
              PROVE  EncoderInv'
            BY <3>3, DeviceMade, DeviceRefused, CodecAllocated, FrameOutAllocated,
               PoolAllocated, FrameInAllocated, GraphBuilt, CodecOpened, HardwareFailed
        <3>4. QED
            BY <2>2, <3>1, <3>2, <3>3 DEF Encoder!Open
    <2>3. QED
        BY <1>2, <2>1, <2>2 DEF Encode
<1>3. QED
    BY <1>1, <1>2 DEF Next, Video, vars

-----------------------------------------------------------------------------
(* The theorems.                                                              *)

\* The slice capture() hands out lies in a mapped segment of the recorded capacity,
\* whichever step of a resize failed before and was tried again, and besides the
\* recorder's own segment only those whose id or request could not be had stay
\* mapped (RecorderX11::new, capture, ensure_shm_capacity and drop).
THEOREM SegmentsAreSound == Spec => []SegmentIsSound
<1>1. Init => RecorderInv
    BY RecorderInvInit DEF Init
<1>2. RecorderInv => SegmentIsSound
    BY DEF RecorderInv
<1>3. QED
    BY <1>1, <1>2, RecorderInvStep, PTL DEF Spec

\* The bounds that a comment in composite_cursor promises hold exactly while the
\* cursor's image starts at or left of the captured area's right edge
\* (CursorWithinCapture, which MediaCursor.cfg shows violated, is false just then).
THEOREM CursorBoundsMissTheRight ==
    Spec => [](CursorWithinCapture <=> \A x \in cursorAt : x <= width)
<1>1. Init => RecorderInv
    BY RecorderInvInit DEF Init
<1>2. RecorderInv => (CursorWithinCapture <=> \A x \in cursorAt : x <= width)
    <2> SUFFICES ASSUME RecorderInv
                 PROVE  CursorWithinCapture <=> \A x \in cursorAt : x <= width
        OBVIOUS
    <2>1. cursorAt \subseteq Int /\ width \in Nat
        BY DEF RecorderInv, RecorderTypes
    <2>2. \A x \in cursorAt :
            (\A i \in X11!CursorColumns(x, width) :
                i \in 0..(CursorWidth - 1) /\ i + x \in 0..(width - 1)) <=> x <= width
        BY <2>1, CursorClamped
    <2>3. QED
        BY <2>2 DEF CursorWithinCapture, X11!CursorWithinCapture
<1>3. QED
    BY <1>1, <1>2, RecorderInvStep, PTL DEF Spec

\* A PipeWire frame is served with the size, stride and format its bytes have,
\* unless the format changed while it waited (the process and param_changed
\* callbacks, depad_rows_in_place and PipeWireRecorder::capture).
THEOREM FramesAreServedAsReceived == Spec => []ServedAsReceived
<1>1. Init => FrameInv
    BY FrameInvInit DEF Init
<1>2. FrameInv => ServedAsReceived
    BY DEF FrameInv
<1>3. QED
    BY <1>1, <1>2, FrameInvStep, PTL DEF Spec

\* Whichever step of whichever back end fails, in any build, each allocation is
\* one a field or a local still names: no context, frame, graph, pool, device or
\* packet is lost or freed twice (VideoEncoder::new, try_vaapi, try_nvenc,
\* setup_libx264, Scalers::new, and the drops).
THEOREM HeapStaysOwned == Spec => []HeapIsOwned
<1>1. Init => EncoderInv
    BY EncoderInvInit DEF Init
<1>2. EncoderInv => HeapIsOwned
    BY HeapByKindIsOwned DEF EncoderInv
<1>3. QED
    BY <1>1, <1>2, EncoderInvStep, PTL DEF Spec

\* An encoder the thread uses has everything, and hardware frames exactly if it
\* has a device; no trailer is asked of a muxer without a header (open_video, and
\* the drop of a VideoEncoder).
THEOREM EncodersInUseAreComplete == Spec => []InUseIsComplete
<1>1. Init => EncoderInv
    BY EncoderInvInit DEF Init
<1>2. EncoderInv => InUseIsComplete
    BY DEF EncoderInv
<1>3. QED
    BY <1>1, <1>2, EncoderInvStep, PTL DEF Spec

\* Every variable of a media thread keeps its type (handle_video's recorder, the
\* encode thread's encoder).
THEOREM MediaTypeCorrect == Spec => []TypeOK
<1>1. Init => RecorderInv /\ FrameInv /\ EncoderInv
    BY RecorderInvInit, FrameInvInit, EncoderInvInit DEF Init
<1>2. RecorderInv => X11!TypeOK
    <2> SUFFICES ASSUME RecorderInv
                 PROVE  X11!TypeOK
        OBVIOUS
    <2>1. RecorderTypes /\ SegmentNamed /\ X11!SegmentsAccounted
        BY DEF RecorderInv, SegmentIsSound
    <2>2. seg \in 0..MaxSegments /\ 1..made \subseteq 1..MaxSegments
        BY <2>1 DEF RecorderTypes, SegmentNamed
    <2>3. attached \subseteq 1..MaxSegments
        BY <2>1, <2>2 DEF SegmentNamed, X11!SegmentsAccounted
    <2>4. mapped \subseteq 1..MaxSegments /\ lost \subseteq 1..MaxSegments
        BY <2>1, <2>2 DEF SegmentNamed
    <2>5. QED
        BY <2>1, <2>2, <2>3, <2>4 DEF RecorderTypes, X11!TypeOK, X11!Segments
<1>3. FrameInv => PipeWire!TypeOK
    BY DEF FrameInv, FrameTypes, PipeWire!TypeOK
<1>4. EncoderInv => Encoder!TypeOK
    BY DEF EncoderInv, EncoderTypes, Encoder!TypeOK
<1>5. RecorderInv /\ FrameInv /\ EncoderInv => TypeOK
    BY <1>2, <1>3, <1>4 DEF TypeOK
<1>6. QED
    BY <1>1, <1>5, RecorderInvStep, FrameInvStep, EncoderInvStep, PTL DEF Spec
=============================================================================
