----------------------------- MODULE StreamSession -----------------------------
(***************************************************************************)
(* One video stream after another on its way to the browser's player: the  *)
(* encode thread (EncodeOutput) hands fragments to the video queue and     *)
(* announcements to the control channel, the writer task (Transport) sends *)
(* both over one socket, and the browser (Player) decodes what arrives.    *)
(*                                                                         *)
(* The writer prefers video and the queue drops its oldest entries, so     *)
(* what was handed over in one order may arrive in another, or not at all. *)
(* What is sent arrives and is handled in order, so an arrival is part of  *)
(* the step that sends.  What the player asks for, a key frame or another  *)
(* stream, the server may also do unasked at any time, and so may here.    *)
(* The session stays up: of Transport only the encode thread's calls and   *)
(* the writer move; the reader, the handler and the peer stay as they are. *)
(***************************************************************************)
EXTENDS Transport

CONSTANTS
  MaxStreams,     \* bound: restarts of the encoder in a behaviour
  WebCodecs       \* the browser can and may use WebCodecs

ASSUME StreamAssumption ==
  /\ MaxStreams \in Nat
  /\ WebCodecs \in BOOLEAN

VARIABLES
  at, encoding, opened,                            \* EncodeOutput
  stream,      \* the stream the encode thread has announced last
  binaries,    \* what each binary message was
  texts,       \* what each control message was
  received,    \* the binary messages that have arrived
  source, waiting, codec, probe, pipe              \* Player

encodeVars    == <<at, encoding, opened>>
transportVars == vars
historyVars   == <<stream, binaries, texts>>
playerVars    == <<source, waiting, codec, probe, pipe>>
browserVars   == <<received, playerVars>>
allVars == <<encodeVars, transportVars, historyVars, browserVars>>

Encode  == INSTANCE EncodeOutput
Browser == INSTANCE Player

(* last: the trailer of the encoder the thread ends with.                   *)
Parts == {"init", "fragment", "trailer", "last"}

SessionInit ==
  /\ Encode!Init /\ Init /\ Browser!Init
  /\ stream = 0 /\ binaries = <<>> /\ texts = <<>> /\ received = {}

--------------------------------------------------------------------------------
(* The encode thread.                                                      *)

(* Capture restarts the encoder a bounded number of times.                 *)
RestartStream ==
  /\ stream < MaxStreams
  /\ Encode!Restart
  /\ stream' = stream + 1
  /\ UNCHANGED <<transportVars, binaries, texts, browserVars>>

EncodeWorks ==
  /\ Encode!Opens \/ Encode!OpenFails \/ Encode!Swap \/ Encode!Encodes
     \/ Encode!Stops
  /\ UNCHANGED <<transportVars, historyVars, browserVars>>

(* send_message: blocks while the control channel is full.                 *)
Announce ==
  /\ Encode!Say
  /\ \E s \in senders : SendMessage(s)
  /\ texts' = Append(texts, [stream |-> stream, what |-> at])
  /\ UNCHANGED <<stream, binaries, browserVars>>

(* The trailer of the encoder that was replaced is the old stream's.       *)
StreamOfPart == IF at = "trailer" THEN stream - 1 ELSE stream

(* The first fragment after an init segment holds an IDR; any other may.   *)
KeyOfPart ==
  IF at # "fragment" THEN {FALSE}
  ELSE IF \E i \in 1 .. Len(binaries) : binaries[i].stream = stream /\ binaries[i].key
    THEN BOOLEAN ELSE {TRUE}

(* send_video, from the muxer's callback.                                  *)
Produce ==
  /\ Encode!Emit
  /\ \E s \in senders : SendVideo(s)
  /\ \E key \in KeyOfPart :
       binaries' = Append(binaries, [stream |-> StreamOfPart, what |-> at, key |-> key])
  /\ UNCHANGED <<stream, texts, browserVars>>

--------------------------------------------------------------------------------
(* The writer and the browser.                                             *)

WriterWorks ==
  /\ WriterInternal
  /\ UNCHANGED <<encodeVars, historyVars, browserVars>>

ReceiveText ==
  /\ WriterSendControl
  /\ LET m == texts[ctlSent']
     IN  IF m.what = "NewVideo" THEN Browser!NewVideo(m.stream)
         ELSE Browser!VideoInit(m.stream)
  /\ UNCHANGED <<encodeVars, historyVars, received>>

ReceiveBinary ==
  /\ WriterSendFrame
  /\ received' = received \cup {lastSent'}
  /\ Browser!Binary(binaries[lastSent'])
  /\ UNCHANGED <<encodeVars, historyVars>>

BrowserWorks ==
  /\ Browser!Internal
  /\ UNCHANGED <<encodeVars, transportVars, historyVars, received>>

SessionNext ==
  \/ RestartStream \/ EncodeWorks \/ Announce \/ Produce
  \/ WriterWorks \/ ReceiveText \/ ReceiveBinary \/ BrowserWorks

SessionSpec == SessionInit /\ [][SessionNext]_allVars

--------------------------------------------------------------------------------
(* Properties.                                                             *)

(* Type invariant of the history and of the browser's state: every message *)
(* that was handed over is known for what it was.                          *)
SessionTypeOK ==
  /\ stream \in 0 .. MaxStreams
  /\ Len(binaries) = pushed /\ Len(texts) = accepted
  /\ \A i \in 1 .. Len(binaries) :
       binaries[i] \in [stream : 1 .. MaxStreams, what : Parts, key : BOOLEAN]
  /\ {source.for, source.inited, codec, pipe.decoder, pipe.fed} \subseteq 0 .. MaxStreams
  /\ source.buffer \in {"none", "open", "broken"}
  /\ probe \in {"undecided", "probing", "decided"}
  /\ received \subseteq 1 .. pushed

InitOf(s) ==
  {i \in 1 .. Len(binaries) : binaries[i].stream = s /\ binaries[i].what = "init"}

(* A fragment reaches the browser without its stream's init segment before *)
(* it only if VideoQueue dropped that segment, and then at least           *)
(* VIDEO_QUEUE_CAPACITY later messages had been handed over.               *)
InitLostOnlyByDrop ==
  \A j \in received : \A i \in InitOf(binaries[j].stream) :
    i <= j /\ (i \in received \/ i + VideoCapacity <= pushed)

(* A WebCodecs decoder is given chunks of another stream than the one it   *)
(* was configured for only if VideoQueue dropped that stream's init        *)
(* segment, whatever was reset, replaced or decided in between.            *)
DecoderFedItsStream ==
  pipe.fed \in {0, pipe.decoder}
  \/ \A i \in InitOf(pipe.fed) : i \notin received /\ i + VideoCapacity <= pushed

(* Everything that was handed over has arrived and the thread waits.       *)
Quiet ==
  at = "ready" /\ queue = <<>> /\ batch = <<>> /\ control = <<>> /\ held = 0

(* docs/PROTOCOL.md says that the client prepares a fresh session for a    *)
(* NewVideo and expects VideoInit and the stream's data to follow.  The    *)
(* init segment overtakes its NewVideo whenever the writer is still busy   *)
(* when the encoder is open; it goes to the old media source or is cleared *)
(* with its queue, and the source made for the stream never gets it.       *)
SourceGetsInit ==
  Quiet /\ encoding /\ ~pipe.on /\ source.for = stream /\ source.buffer # "none"
  /\ ~source.updating /\ InitOf(stream) \subseteq received
    => source.inited = stream \/ waiting # <<>>
================================================================================
