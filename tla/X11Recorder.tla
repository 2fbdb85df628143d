---------------------------- MODULE X11Recorder ----------------------------
(* RecorderX11 (rylus-capture/src/x11.rs): screen capture through a SysV      *)
(* shared-memory segment that the X server writes the image into.             *)
(*                                                                            *)
(* The target, a window or a monitor, is asked for its size on every capture. *)
(* The segment is replaced only when it is too small.  A segment is an id;    *)
(* a size stands for width * height * 4, heights being left out: a row is     *)
(* clamped like a column.  Which drawable the image is taken from, and the    *)
(* composite redirection of a regular window, are left out.                   *)
EXTENDS Integers, FiniteSets

CONSTANTS Sizes,        \* sizes a target can have
          CursorSpots,  \* left edge of the cursor image, relative to the target
          CursorWidth,  \* width of the cursor image
          MaxSegments   \* bound: segments allocated in a behaviour

VARIABLES
    live,       \* a RecorderX11 exists
    seg,        \* shm_id, shm_addr and shm_seg
    capacity,   \* shm_capacity
    width,      \* width (and height) of the last capture
    lastOk,     \* last_capture_ok
    mapped,     \* segments that exist and are mapped into the server process
    attached,   \* segments the X server has attached
    sizeOf,     \* their sizes
    lost,       \* segments no field names any more
    made,       \* segments allocated so far
    cursorAt    \* where the cursor of the last frame was painted: {} or {x}

recorderVars == <<live, seg, capacity, width, lastOk, cursorAt>>
segmentVars  == <<mapped, attached, sizeOf, lost, made>>
vars == <<recorderVars, segmentVars>>

Segments == 1..MaxSegments

Init == /\ live = FALSE /\ seg = 0 /\ capacity = 0 /\ width = 0 /\ lastOk = TRUE
        /\ mapped = {} /\ attached = {} /\ lost = {} /\ made = 0
        /\ sizeOf = [s \in Segments |-> 0]
        /\ cursorAt = {}

\* sysv_shm::alloc: shmget and shmat; what shmat refuses is removed again.
CanAlloc == made < MaxSegments
Alloc(w) == /\ made' = made + 1
            /\ sizeOf' = [sizeOf EXCEPT ![made + 1] = w]

\* shm_attach only queues the request: nobody looks whether the server obeys.
Attach(old) == \/ attached' = attached \ old
               \/ attached' = (attached \ old) \cup {made + 1}

-----------------------------------------------------------------------------
\* RecorderX11::new: extensions, geometry, segment, attach.
New(w) ==
    /\ ~live /\ CanAlloc
    /\ Alloc(w)
    /\ mapped' = mapped \cup {made + 1}
    /\ Attach({})
    /\ live' = TRUE /\ seg' = made + 1 /\ capacity' = w /\ width' = w
    /\ lastOk' = TRUE /\ cursorAt' = {}
    /\ UNCHANGED lost

\* It fails before anything is allocated ...
NewFails == ~live /\ UNCHANGED vars

\* ... or has no id for the segment, or cannot send the request: the segment is
\* neither detached nor removed.
NewLoses(w) ==
    /\ ~live /\ CanAlloc
    /\ Alloc(w)
    /\ mapped' = mapped \cup {made + 1}
    /\ lost' = lost \cup {made + 1}
    /\ UNCHANGED <<recorderVars, attached>>

-----------------------------------------------------------------------------
(* capture                                                                    *)

\* The target is gone, or the monitor is: no stale region is captured.
GeometryFails == live /\ UNCHANGED vars

\* A plausible slip: a size just above the capacity is let through.
FitsAnything(w) == w <= capacity + 1

\* ensure_shm_capacity keeps the segment when the new size fits.
Fits(w) == w <= capacity

Keep(w) == /\ Fits(w) /\ width' = w
           /\ UNCHANGED <<live, seg, capacity, segmentVars>>

\* It allocates and attaches the larger one first, then frees the old one.
Grow(w) ==
    /\ ~Fits(w) /\ CanAlloc
    /\ Alloc(w)
    /\ mapped' = (mapped \ {seg}) \cup {made + 1}
    /\ Attach({seg})
    /\ seg' = made + 1 /\ capacity' = w /\ width' = w
    /\ UNCHANGED <<live, lost>>

\* The request cannot be sent: the new segment is freed again, the old one stays.
GrowRefused(w) ==
    /\ ~Fits(w) /\ CanAlloc
    /\ Alloc(w)
    /\ UNCHANGED <<recorderVars, mapped, attached, lost>>

\* There is no id for it: the new segment stays mapped and is forgotten.
GrowLoses(w) ==
    /\ ~Fits(w) /\ CanAlloc
    /\ Alloc(w)
    /\ mapped' = mapped \cup {made + 1}
    /\ lost' = lost \cup {made + 1}
    /\ UNCHANGED <<recorderVars, attached>>

\* shmget or shmat fails: nothing has changed.
GrowFails(w) == ~Fits(w) /\ UNCHANGED vars

Resize(w) == Keep(w) \/ Grow(w)
CaptureErr == live /\ ( \/ GeometryFails
                        \/ \E w \in Sizes : GrowRefused(w) \/ GrowLoses(w) \/ GrowFails(w))

\* shm_get_image of the root, the window or its off-screen pixmap, into the
\* segment; code 1 on the first failure in a row, 2 on the others.
ImageFails(w) == /\ live /\ Resize(w)
                 /\ lastOk' = FALSE
                 /\ UNCHANGED cursorAt

\* composite_cursor paints column i of the cursor image for i in [i0, i1).
Least(a, b) == IF a < b THEN a ELSE b
Most(a, b) == IF a > b THEN a ELSE b
CursorColumns(x, w) ==
    LET i0 == Least(Least(Most(0, -x), w - x), CursorWidth)
        i1 == Most(Least(CursorWidth, w - x), 0)
    IN  i0..(i1 - 1)

Capture(w, x) == /\ live /\ Resize(w)
                 /\ seg' \in attached'
                 /\ lastOk' = TRUE
                 /\ cursorAt' \in {{}, {x}}   \* only if capture_cursor

\* Drop: detach, then free.
Drop == /\ live
        /\ live' = FALSE /\ seg' = 0 /\ capacity' = 0 /\ width' = 0
        /\ lastOk' = TRUE /\ cursorAt' = {}
        /\ mapped' = mapped \ {seg} /\ attached' = attached \ {seg}
        /\ UNCHANGED <<sizeOf, lost, made>>

-----------------------------------------------------------------------------
TypeOK ==
    /\ live \in BOOLEAN /\ lastOk \in BOOLEAN
    /\ seg \in 0..MaxSegments /\ made \in 0..MaxSegments
    /\ capacity \in Sizes \cup {0} /\ width \in Sizes \cup {0}
    /\ mapped \subseteq Segments /\ attached \subseteq Segments /\ lost \subseteq Segments
    /\ sizeOf \in [Segments -> Sizes \cup {0}]
    /\ cursorAt \subseteq CursorSpots

\* The slice capture() hands out lies in a mapped segment of the recorded
\* capacity, whatever resize failed half way and was tried again.
SegmentCoversCapture ==
    live => seg \in mapped /\ sizeOf[seg] = capacity /\ width <= capacity

\* Besides the recorder's own, only segments whose id or request could not be
\* had remain mapped, and the X server keeps none of an old one.
SegmentsAccounted ==
    /\ mapped = lost \cup (IF live THEN {seg} ELSE {})
    /\ attached \subseteq mapped

\* "We only write within bounds guaranteed by the clamping above."
CursorWithinCapture ==
    \A x \in cursorAt : \A i \in CursorColumns(x, width) :
        i \in 0..(CursorWidth - 1) /\ i + x \in 0..(width - 1)
=============================================================================
