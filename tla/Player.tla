--------------------------------- MODULE Player ---------------------------------
(***************************************************************************)
(* The browser's player for one connection: handle_messages (ts/lib.ts)    *)
(* with its MediaSource path and the WebCodecs pipe (ts/webcodecs.ts) that *)
(* may take over from it.  Streams are numbered; 0 stands for none.        *)
(*                                                                         *)
(* A binary message is [stream, what, key]: an init segment, a fragment    *)
(* (key: it holds an IDR), or a muxer's trailer.                           *)
(***************************************************************************)
EXTENDS Naturals, Sequences

CONSTANT WebCodecs   \* webcodecs_enabled(): VideoDecoder exists and is wanted

VARIABLES
  source,    \* mediaSource and sourceBuffer, by the stream they were made for
  waiting,   \* queue: binary messages to append
  codec,     \* serverCodecString, by the stream it is of
  probe,     \* webcodecs_decided and webcodecs_setup
  pipe       \* webcodecs_pipe

vars == <<source, waiting, codec, probe, pipe>>

(* inited: the stream of the last init segment the buffer was given.       *)
NoSource == [for |-> 0, buffer |-> "none", updating |-> FALSE, inited |-> 0]

(* decoder: the stream its decoder is configured for; key: seenKeyframe;   *)
(* fed: the stream of the last chunk it has decoded; offered: a key frame  *)
(* has come since the pipe was made (both only for the properties).        *)
NoPipe == [on |-> FALSE, decoder |-> 0, key |-> FALSE, fed |-> 0, offered |-> FALSE]

Init ==
  /\ source = NoSource /\ waiting = <<>> /\ codec = 0
  /\ probe = "undecided" /\ pipe = NoPipe

--------------------------------------------------------------------------------
(* MediaSource.                                                            *)

(* What appending a message does to the source.  A fragment without an     *)
(* init segment before it is an error and ends the source.                 *)
Appended(m) ==
  CASE m.what = "init" ->
         [source EXCEPT !.updating = TRUE, !.inited = m.stream]
    [] m.what = "fragment" /\ source.inited = 0 ->
         [source EXCEPT !.buffer = "broken", !.updating = FALSE]
    [] OTHER -> [source EXCEPT !.updating = TRUE]

(* upd_buf, with q as its queue and the buffer updating or not.  Its       *)
(* removal of old pictures ends in another updateend and is left out.      *)
UpdBuf(q, updating) ==
  IF source.buffer = "open" /\ ~updating /\ q # <<>>
    THEN source' = Appended(Head(q)) /\ waiting' = Tail(q)
    ELSE source' = [source EXCEPT !.updating = updating] /\ waiting' = q

(* sourceopen of the current source; its queue is looked at when the next  *)
(* message comes.                                                          *)
SourceOpens ==
  /\ source.for # 0 /\ source.buffer = "none"
  /\ source' = [source EXCEPT !.buffer = "open"]
  /\ UNCHANGED <<waiting, codec, probe, pipe>>

UpdateEnd ==
  /\ source.updating
  /\ UpdBuf(waiting, FALSE)
  /\ UNCHANGED <<codec, probe, pipe>>

--------------------------------------------------------------------------------
(* WebCodecs.                                                              *)

(* feedMediaFragment: a chunk waits for a decoder, then for a key frame.   *)
Decodes(m) == m.what = "fragment" /\ pipe.decoder # 0 /\ (pipe.key \/ m.key)

FedChunk(m) ==
  IF Decodes(m) THEN [pipe EXCEPT !.key = TRUE, !.fed = m.stream, !.offered = @ \/ m.key]
  ELSE [pipe EXCEPT !.offered = @ \/ m.key]

(* A plausible slip: a decoder that exists is kept.                        *)
FeedKeepsDecoder(m) ==
  pipe' = IF m.what = "init" /\ pipe.decoder = 0
            THEN [pipe EXCEPT !.decoder = m.stream, !.key = FALSE, !.fed = 0]
            ELSE FedChunk(m)

(* feed: an init segment makes a new decoder (ensureDecoder).              *)
Feed(m) ==
  pipe' = IF m.what = "init"
            THEN [pipe EXCEPT !.decoder = m.stream, !.key = FALSE, !.fed = 0]
            ELSE FedChunk(m)

(* webCodecsAvailable has resolved.                                        *)
ProbeSucceeds ==
  /\ probe = "probing"
  /\ probe' = "decided" /\ pipe' = [NoPipe EXCEPT !.on = TRUE]
  /\ UNCHANGED <<source, waiting, codec>>

ProbeFails ==
  /\ probe = "probing"
  /\ probe' = "decided"
  /\ UNCHANGED <<source, waiting, codec, pipe>>

(* The decoder's error callback: the pipe is closed, MediaSource goes on.  *)
DecoderFails ==
  /\ pipe.decoder # 0
  /\ pipe' = NoPipe
  /\ UNCHANGED <<source, waiting, codec, probe>>

--------------------------------------------------------------------------------
(* Messages.                                                               *)

(* NewVideo: reset() or a new media source, and the fragments not yet      *)
(* appended are cleared.                                                   *)
NewVideo(s) ==
  /\ IF pipe.on
       THEN pipe' = [pipe EXCEPT !.key = FALSE] /\ UNCHANGED <<source, waiting>>
       ELSE source' = [NoSource EXCEPT !.for = s] /\ waiting' = <<>> /\ UNCHANGED pipe
  /\ UNCHANGED <<codec, probe>>

(* VideoInit: the codec of the next source buffer, and once per connection *)
(* the question whether WebCodecs can decode it.                           *)
VideoInit(s) ==
  /\ codec' = s
  /\ probe' = IF WebCodecs /\ probe = "undecided" THEN "probing" ELSE probe
  /\ UNCHANGED <<source, waiting, pipe>>

Binary(m) ==
  /\ IF pipe.on
       THEN Feed(m) /\ UNCHANGED <<source, waiting>>
       ELSE UpdBuf(Append(waiting, m), source.updating) /\ UNCHANGED pipe
  /\ UNCHANGED <<codec, probe>>

(* What happens in the browser without a message.                          *)
Internal == SourceOpens \/ UpdateEnd \/ ProbeSucceeds \/ ProbeFails \/ DecoderFails
================================================================================
