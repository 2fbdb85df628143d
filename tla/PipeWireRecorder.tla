-------------------------- MODULE PipeWireRecorder --------------------------
(* PipeWireRecorder (rylus-capture/src/pipewire.rs): the stream callbacks run *)
(* inside mainloop.iterate(), on the thread that calls new() and capture(),   *)
(* and leave what they learn in SharedFrameState.                             *)
(*                                                                            *)
(* A buffer is what it really holds: its size (pixels per row, the height     *)
(* being left out), the stride its rows have, and its format.                 *)
EXTENDS Integers

CONSTANTS Sizes   \* sizes the stream can negotiate

Formats == {"BGR", "RGB"}   \* BGRx or BGRA, RGBx or RGBA: four bytes a pixel
Strides(w) == {w, w + 1}    \* tight, or padded
Empty == [size |-> 0, stride |-> 0, fmt |-> "unknown"]
Garbled == -1               \* the stride of rows that have been cut wrongly

VARIABLES
    stage,    \* "gone", "negotiating", "idle", "polling"
    agreed,   \* StreamUserData.format, Empty while it is not valid
    frame,    \* shared.frame
    shown,    \* shared.width, stride and video_format
    fresh,    \* shared.new_frame
    broken,   \* shared.stream_error
    buffer,   \* frame_buffer
    header,   \* width, stride and video_format of the recorder
    renamed   \* the format changed while `frame` was waiting, or had when taken

vars == <<stage, agreed, frame, shown, fresh, broken, buffer, header, renamed>>
loopVars == <<agreed, frame, shown, fresh, broken>>
ownVars  == <<buffer, header>>

Blank == /\ agreed = Empty /\ frame = Empty /\ shown = Empty
         /\ fresh = FALSE /\ broken = FALSE
         /\ buffer = Empty /\ header = Empty
         /\ renamed = [waiting |-> FALSE, taken |-> FALSE]

Init == stage = "gone" /\ Blank

Reset == /\ agreed' = Empty /\ frame' = Empty /\ shown' = Empty
         /\ fresh' = FALSE /\ broken' = FALSE
         /\ buffer' = Empty /\ header' = Empty
         /\ renamed' = [waiting |-> FALSE, taken |-> FALSE]

\* PipeWireRecorder::new: fd, main loop, stream, listener, connect.
New == stage = "gone" /\ stage' = "negotiating" /\ Reset

\* dup, the main loop, the stream or the connection fails.
NewFails == stage = "gone" /\ UNCHANGED vars

\* The 2 s loop ends with a format, or without one and "will keep trying".
NewReturns == /\ stage = "negotiating"
              /\ stage' = "idle"
              /\ UNCHANGED <<loopVars, ownVars, renamed>>

Iterating == stage \in {"negotiating", "polling"}

\* state_changed to Error or Unconnected.
StreamBreaks == /\ Iterating /\ ~broken
                /\ broken' = TRUE
                /\ UNCHANGED <<stage, agreed, frame, shown, fresh, ownVars, renamed>>

\* param_changed with a raw video format: a frame that waits keeps its bytes and
\* its stride, and gets the new size and format.
ParamChanged(w, f) ==
    /\ Iterating
    /\ agreed' = [size |-> w, stride |-> w, fmt |-> f]
    /\ shown' = [shown EXCEPT !.size = w, !.fmt = f]
    /\ renamed' = [renamed EXCEPT !.waiting = fresh /\ (frame.size # w \/ frame.fmt # f)]
    /\ UNCHANGED <<stage, frame, fresh, broken, ownVars>>

\* process: a buffer that is large enough and can be mapped becomes the frame.
Process(s) ==
    /\ Iterating
    /\ agreed # Empty
    /\ s \in Strides(agreed.size)
    /\ frame' = [agreed EXCEPT !.stride = s]
    /\ shown' = [agreed EXCEPT !.stride = s]
    /\ fresh' = TRUE
    /\ renamed' = [renamed EXCEPT !.waiting = FALSE]
    /\ UNCHANGED <<stage, agreed, broken, ownVars>>

-----------------------------------------------------------------------------
(* capture                                                                    *)

Begin == /\ stage = "idle" /\ ~broken
         /\ stage' = "polling"
         /\ UNCHANGED <<loopVars, ownVars, renamed>>

\* The error flag is tested first, on entry and in every round.
Errs == /\ stage \in {"idle", "polling"} /\ broken
        /\ stage' = "idle"
        /\ UNCHANGED <<loopVars, ownVars, renamed>>

\* depad_rows_in_place cuts rows of `stride` to rows of `tight`; rows that have
\* another stride than it is told come out wrong.
Depad(b, stride, tight) ==
    IF stride = tight THEN b
    ELSE [b EXCEPT !.stride = IF b.stride = stride THEN tight ELSE Garbled]

\* A plausible slip: the stride of the cut rows is not recorded.
Padded(h) == h

Tight(h) == [h EXCEPT !.stride = h.size]

\* The PixelProvider returned names header and buffer; RGB has no stride, so its
\* rows are cut in place first.
Serve(h, b) == IF h.fmt = "RGB"
               THEN buffer' = Depad(b, h.stride, h.size) /\ header' = Tight(h)
               ELSE buffer' = b /\ header' = h

\* A frame has come: it is swapped in (the old buffer goes back to the callbacks)
\* and returned.
TakeFrame == /\ stage = "polling" /\ ~broken /\ fresh
             /\ frame' = Empty /\ fresh' = FALSE
             /\ renamed' = [waiting |-> FALSE, taken |-> renamed.waiting]
             /\ Serve(shown, frame)
             /\ stage' = "idle"
             /\ UNCHANGED <<agreed, shown, broken>>

\* None has within 20 ms: the last one is returned again.
ServeAgain == /\ stage = "polling" /\ ~broken /\ ~fresh /\ header # Empty
              /\ Serve(header, buffer)
              /\ stage' = "idle"
              /\ UNCHANGED <<loopVars, renamed>>

\* "No buffer available!"
NoBuffer == /\ stage = "polling" /\ ~broken /\ ~fresh /\ header = Empty
            /\ stage' = "idle"
            /\ UNCHANGED <<loopVars, ownVars, renamed>>

Callback == \/ StreamBreaks
            \/ \E w \in Sizes, f \in Formats : ParamChanged(w, f)
            \/ \E w \in Sizes : \E s \in Strides(w) : Process(s)

Drop == stage = "idle" /\ stage' = "gone" /\ Reset

-----------------------------------------------------------------------------
TypeOK == /\ stage \in {"gone", "negotiating", "idle", "polling"}
          /\ fresh \in BOOLEAN /\ broken \in BOOLEAN

\* What capture() says of a frame is what the frame's bytes are, however often
\* it is served again and whatever frames were missed: rows are cut once.  The
\* exception is a frame that was waiting while the format changed: it is served
\* with the size of the next one.
ServedAsReceived == renamed.taken \/ header = buffer
=============================================================================
