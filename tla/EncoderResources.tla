-------------------------- MODULE EncoderResources --------------------------
(* What a VideoEncoder (rylus-encode/src/lib.rs) allocates from FFmpeg while  *)
(* it opens, and what it frees: VideoEncoder::new and open_video with the     *)
(* back ends they try, Scalers::new, and the drops.  The encode thread makes  *)
(* the new encoder before it lets go of the old one.                          *)
(*                                                                            *)
(* heap counts the live allocations of each kind.  The filters and in/outs of *)
(* a graph, and the references to a pool of hardware frames, are not told     *)
(* apart from the graph and the pool.                                         *)
EXTENDS Integers

CONSTANTS Builds,     \* sets of hardware back ends a build and its options may try
          MaxOpens    \* bound: encoders opened in a behaviour

VARIABLES
    hardware, \* the back ends encoder_options says to try before libx264
    at,       \* what open_video is doing: "idle", a back end, or a later step
    new,      \* the encoder being opened
    cur,      \* the encode thread's video_encoder
    part,     \* the locals of try_codec or setup_libx264, and of Scalers::new
    heap,
    opens,
    misused   \* a trailer was written by a muxer without a header

vars == <<hardware, at, new, cur, part, heap, opens, misused>>

Kinds == {"format", "codec", "frameIn", "graph", "frameOut", "hwFrames", "device", "packet",
          "avio", "avioBuffer"}

None == [format |-> FALSE, codec |-> FALSE, scalers |-> FALSE, hwFrames |-> FALSE,
         device |-> FALSE, packet |-> FALSE, pb |-> FALSE, header |-> FALSE]
NoPart == [codec |-> FALSE, frameOut |-> FALSE, hwFrames |-> FALSE, frameIn |-> 0, graph |-> 0]

One(b) == IF b THEN 1 ELSE 0

\* Counts of allocations by kind.
Of(kinds, n) == [k \in Kinds |-> IF k \in kinds THEN n ELSE 0]
f ++ g == [k \in Kinds |-> f[k] + g[k]]

\* What the drop of n ScaleContexts frees; the frame they share is the Scalers'.
ScaleContexts(n) == Of({"frameIn", "graph"}, n)

\* ... and that of a Scalers, which holds the pool of a hardware back end.
Scalers(pool) == ScaleContexts(3) ++ Of({"frameOut"}, 1) ++ Of({"hwFrames"}, One(pool))

\* ... and that of an encoder.
Owned(e) == Of({k \in {"format", "codec", "device", "packet"} : e[k]}, 1)
              ++ Of({"avio"}, One(e.pb))
              ++ (IF e.scalers THEN Scalers(e.hwFrames) ELSE Of({}, 0))

\* What the locals name, the last ScaleContext perhaps without its graph.
Local(p) == Of({k \in {"codec", "frameOut", "hwFrames"} : p[k]}, 1)
              ++ ScaleContexts(p.graph) ++ Of({"frameIn"}, p.frameIn - p.graph)

Allocate(k) == heap' = [heap EXCEPT ![k] = @ + 1]
Free(f) == [k \in Kinds |-> heap[k] - f[k]]

Init == /\ hardware \in Builds
        /\ at = "idle" /\ new = None /\ cur = None /\ part = NoPart
        /\ heap = [k \in Kinds |-> 0] /\ opens = 0 /\ misused = FALSE

\* open_video tries them in this order, and libx264 when none of them opens.
Order == [vaapi |-> 1, mediafoundation |-> 2, nvenc |-> 3, videotoolbox |-> 4, x264 |-> 5]
BackEnds == DOMAIN Order
Foremost(B) == CHOOSE b \in B : \A c \in B : Order[b] <= Order[c]

Tried == hardware \cup {"x264"}
First == Foremost(Tried)
After(b) == Foremost({c \in Tried : Order[b] < Order[c]})

\* The back ends that make a device; the others encode frames in memory.
NeedsDevice(b) == b \in {"vaapi", "nvenc"}

\* VideoEncoder::new: the muxer's context comes first.
Begin == /\ at = "idle" /\ opens < MaxOpens
         /\ opens' = opens + 1
         /\ Allocate("format")
         /\ new' = [None EXCEPT !.format = TRUE]
         /\ at' = First
         /\ UNCHANGED <<cur, part, misused>>

\* The size is invalid or there is no muxer: the old encoder goes as well.
Refused == /\ at = "idle" /\ opens < MaxOpens
           /\ opens' = opens + 1
           /\ heap' = Free(Owned(cur)) /\ cur' = None
           /\ UNCHANGED <<at, new, part, misused>>

-----------------------------------------------------------------------------
(* try_vaapi, try_nvenc, setup_libx264                                        *)

Device(b) == /\ at = b /\ NeedsDevice(b) /\ ~new.device
             /\ Allocate("device")
             /\ new' = [new EXCEPT !.device = TRUE]
             /\ UNCHANGED <<at, cur, part, opens, misused>>

NoDevice(b) == /\ at = b /\ NeedsDevice(b) /\ ~new.device
               /\ at' = After(b)
               /\ UNCHANGED <<new, cur, part, heap, opens, misused>>

Trying(b) == at = b /\ (NeedsDevice(b) => new.device)

\* avcodec_alloc_context3
AllocCodec(b) == /\ Trying(b) /\ ~part.codec
                 /\ Allocate("codec")
                 /\ part' = [part EXCEPT !.codec = TRUE]
                 /\ UNCHANGED <<at, new, cur, opens, misused>>

\* Scalers::new: frame_out, the pool of hardware frames, a ScaleContext per input.
AllocFrameOut(b) == /\ Trying(b) /\ part.codec /\ ~part.frameOut
                    /\ Allocate("frameOut")
                    /\ part' = [part EXCEPT !.frameOut = TRUE]
                    /\ UNCHANGED <<at, new, cur, opens, misused>>

AllocPool(b) == /\ Trying(b) /\ part.frameOut /\ new.device /\ ~part.hwFrames
                /\ Allocate("hwFrames")
                /\ part' = [part EXCEPT !.hwFrames = TRUE]
                /\ UNCHANGED <<at, new, cur, opens, misused>>

\* One ScaleContext after another, for the three formats a capture can have.
NextContext(b) == /\ Trying(b) /\ part.frameOut /\ part.hwFrames = new.device
                  /\ part.frameIn = part.graph /\ part.frameIn < 3

\* ScaleContext::new: an input frame, and a graph that scales it.
AllocFrameIn(b) == /\ NextContext(b)
                   /\ Allocate("frameIn")
                   /\ part' = [part EXCEPT !.frameIn = @ + 1]
                   /\ UNCHANGED <<at, new, cur, opens, misused>>

BuildGraph(b) == /\ Trying(b) /\ part.graph < part.frameIn
                 /\ Allocate("graph")
                 /\ part' = [part EXCEPT !.graph = @ + 1]
                 /\ UNCHANGED <<at, new, cur, opens, misused>>

\* avcodec_open2 succeeds: the locals become the encoder's fields.
OpenCodec(b) == /\ Trying(b) /\ part.graph = 3
                /\ new' = [new EXCEPT !.codec = TRUE, !.scalers = TRUE,
                                      !.hwFrames = part.hwFrames]
                /\ part' = NoPart
                /\ at' = "stream"
                /\ UNCHANGED <<cur, heap, opens, misused>>

\* A plausible slip: an early return frees the codec context and nothing else.
HardwareFailsLeaking(b) ==
    /\ Trying(b) /\ b # "x264"
    /\ heap' = [heap EXCEPT !["device"] = @ - One(new.device), !["codec"] = @ - One(part.codec)]
    /\ new' = [new EXCEPT !.device = FALSE]
    /\ part' = NoPart
    /\ at' = After(b)
    /\ UNCHANGED <<cur, opens, misused>>

\* One of the steps fails under a hardware back end: every local is freed, the
\* device is unreferenced (which nulls the field) and the next one is tried.
HardwareFails(b) ==
    /\ Trying(b) /\ b # "x264"
    /\ heap' = Free(Local(part) ++ Of({"device"}, One(new.device)))
    /\ new' = [new EXCEPT !.device = FALSE]
    /\ part' = NoPart
    /\ at' = After(b)
    /\ UNCHANGED <<cur, opens, misused>>

-----------------------------------------------------------------------------
(* The rest of open_video, and the drops.                                     *)

\* av_write_trailer is called for a muxer whose header was written, only.
WritesTrailerUnguarded(e) == e.format
WritesTrailer(e) == e.header

Misuse(e) == WritesTrailer(e) /\ ~e.header

\* Err from open_video: the half-open encoder is dropped by `?`, and the encode
\* thread sets video_encoder to None.
Fail == /\ heap' = Free(Owned(new) ++ Owned(cur) ++ Local(part))
        /\ misused' = (misused \/ Misuse(new) \/ Misuse(cur))
        /\ new' = None /\ cur' = None /\ part' = NoPart
        /\ at' = "idle"
        /\ UNCHANGED opens

\* setup_libx264 has nothing to fall back to.
SoftwareFails == Trying("x264") /\ Fail

StreamAndPacket == /\ at = "stream"
                   /\ Allocate("packet")
                   /\ new' = [new EXCEPT !.packet = TRUE]
                   /\ at' = "avio"
                   /\ UNCHANGED <<cur, part, opens, misused>>

\* av_malloc and avio_alloc_context.  The buffer is the caller's to free, as in
\* FFmpeg's examples; avio_context_free leaves it, and so does the code.
Avio == /\ at = "avio"
        /\ heap' = [heap EXCEPT !["avio"] = @ + 1, !["avioBuffer"] = @ + 1]
        /\ new' = [new EXCEPT !.pb = TRUE]
        /\ at' = "header"
        /\ UNCHANGED <<cur, part, opens, misused>>

LateFail == at \in {"stream", "avio", "header"} /\ Fail

\* The header is written; the thread replaces, and so drops, the old encoder.
Header == /\ at = "header"
          /\ heap' = Free(Owned(cur))
          /\ misused' = (misused \/ Misuse(cur))
          /\ cur' = [new EXCEPT !.header = TRUE]
          /\ new' = None
          /\ at' = "idle"
          /\ UNCHANGED <<part, opens>>

\* EncodeCommand::Stop, or the capture thread is gone.
Stop == /\ at = "idle"
        /\ heap' = Free(Owned(cur))
        /\ misused' = (misused \/ Misuse(cur))
        /\ cur' = None
        /\ at' = "stopped"
        /\ UNCHANGED <<new, part, opens>>

Open == \/ \E b \in BackEnds : \/ Device(b) \/ NoDevice(b) \/ AllocCodec(b)
                               \/ AllocFrameOut(b) \/ AllocPool(b) \/ AllocFrameIn(b)
                               \/ BuildGraph(b) \/ OpenCodec(b) \/ HardwareFails(b)
        \/ SoftwareFails \/ StreamAndPacket \/ Avio \/ LateFail \/ Header

-----------------------------------------------------------------------------
TypeOK == /\ hardware \in Builds /\ at \in BackEnds \cup {"idle", "stopped", "stream", "avio", "header"}
          /\ heap \in [Kinds -> Int] /\ opens \in 0..MaxOpens

\* Whichever step of whichever back end fails, what is allocated is what a field
\* or a local still names: nothing is lost and nothing freed twice.  The AVIO
\* buffer is the exception: nothing ever frees it.
HeapIsOwned == \A k \in Kinds \ {"avioBuffer"} :
    heap[k] = (Owned(new) ++ Owned(cur) ++ Local(part))[k]

\* An encoder in use is complete, has hardware frames exactly if it has a device
\* (the software fallback has not kept one), and no muxer without a header is
\* asked for a trailer.
InUseIsComplete ==
    /\ cur # None => /\ cur.format /\ cur.codec /\ cur.scalers /\ cur.packet
                     /\ cur.pb /\ cur.header
                     /\ cur.hwFrames = cur.device
    /\ ~misused
=============================================================================
