--------------------------- MODULE StreamSessionProofs ---------------------------
(***************************************************************************)
(* What TLAPS proves of Transport, for any number of senders, any queue    *)
(* and channel sizes and any number of frames and messages, and of         *)
(* StreamSession, which carries the encode thread's output over it to the  *)
(* browser's player, for any number of streams.                            *)
(***************************************************************************)
EXTENDS StreamSession, TLAPS, SequenceTheorems

(* VideoQueue::push keeps the newest frames: what Enqueued returns is the  *)
(* queue without its Evicted oldest frames, followed by the new one, and   *)
(* fits the capacity again.                                                *)
LEMMA EnqueuedProperties ==
  ASSUME NEW q \in Seq(Nat), NEW f \in Nat, Len(q) <= VideoCapacity
  PROVE  /\ Evicted(q) \in 0 .. 1
         /\ Evicted(q) = 1 <=> Len(q) = VideoCapacity
         /\ Enqueued(q, f) \in Seq(Nat)
         /\ Len(Enqueued(q, f)) = Len(q) - Evicted(q) + 1
         /\ Len(Enqueued(q, f)) <= VideoCapacity
         /\ \A i \in 1 .. Len(q) - Evicted(q) :
              Enqueued(q, f)[i] = q[i + Evicted(q)]
         /\ Enqueued(q, f)[Len(q) - Evicted(q) + 1] = f
<1> DEFINE e == Evicted(q)
           kept == SubSeq(q, e + 1, Len(q))
<1>1. Len(q) \in Nat
  BY LenProperties
<1>2. /\ e \in 0 .. 1 /\ e <= Len(q)
      /\ e = 1 <=> Len(q) = VideoCapacity
      /\ Len(q) - e + 1 <= VideoCapacity
  BY <1>1, TransportAssumption DEF Evicted
<1> HIDE DEF e
<1>3. /\ kept \in Seq(Nat)
      /\ Len(kept) = Len(q) - e
      /\ \A i \in 1 .. Len(q) - e : kept[i] = q[i + e]
  BY <1>1, <1>2
<1> HIDE DEF kept
<1>4. /\ Append(kept, f) \in Seq(Nat)
      /\ Len(Append(kept, f)) = Len(kept) + 1
      /\ \A i \in 1 .. Len(kept) : Append(kept, f)[i] = kept[i]
      /\ Append(kept, f)[Len(kept) + 1] = f
  BY <1>3, AppendProperties
<1>5. Enqueued(q, f) = Append(kept, f)
  BY DEF Enqueued, kept, e
<1>6. QED
  BY <1>1, <1>2, <1>3, <1>4, <1>5 DEF e

LEMMA EmptyFacts == \A S : <<>> \in Seq(S) /\ Len(<<>>) = 0
  BY EmptySeq

LEMMA EmptyLength == \A S : \A q \in Seq(S) : q = <<>> <=> Len(q) = 0
  BY EmptySeq

(* What a receiver finds at the head of a channel or of a batch.           *)
LEMMA HeadTailFacts ==
  ASSUME NEW S, NEW q \in Seq(S), q # <<>>
  PROVE  /\ Len(q) \in Nat \ {0}
         /\ Head(q) = q[1] /\ Head(q) \in S
         /\ Tail(q) \in Seq(S)
         /\ Len(Tail(q)) = Len(q) - 1
         /\ Len(q) > 1 <=> Tail(q) # <<>>
         /\ \A i \in 1 .. Len(q) - 1 : Tail(q)[i] = q[i + 1]
<1>1. /\ Len(q) \in Nat \ {0}
      /\ Head(q) = q[1] /\ Head(q) \in S
      /\ Tail(q) \in Seq(S)
      /\ Len(Tail(q)) = Len(q) - 1
      /\ \A i \in 1 .. Len(q) - 1 : Tail(q)[i] = q[i + 1]
  BY HeadTailProperties, EmptySeq
<1>2. Tail(q) = <<>> <=> Len(Tail(q)) = 0
  BY <1>1, EmptyLength
<1> DEFINE t == Len(Tail(q))
<1>3. t = Len(q) - 1
  BY <1>1
<1>4. Tail(q) = <<>> <=> t = 0
  BY <1>2
<1> HIDE DEF t
<1>5. t # 0 <=> Len(q) > 1
  BY <1>1, <1>3
<1>6. QED
  BY <1>1, <1>4, <1>5

USE TransportAssumption

--------------------------------------------------------------------------------
(* The type invariant with what it takes to be inductive: a push evicts    *)
(* from a queue within its capacity, and the writer sends from a batch     *)
(* that is not empty.                                                      *)
BatchWhileSending ==
  wpc # "done" => (wpc = "frames" <=> batch # <<>>)

TypeInv == TypeOK /\ Len(queue) <= VideoCapacity /\ BatchWhileSending

LEMMA TypeInvInit == Init => TypeInv
<1>1. /\ <<>> \in Seq(Nat) /\ <<>> \in Seq(Kinds)
      /\ Len(<<>>) = 0 /\ 0 <= ChannelSize /\ 0 <= VideoCapacity
  BY EmptyFacts
<1> SUFFICES ASSUME Init
             PROVE  TypeInv
  OBVIOUS
<1>2. /\ queue \in Seq(Nat) /\ control \in Seq(Nat) /\ batch \in Seq(Nat)
      /\ incoming \in Seq(Kinds) /\ inbound \in Seq(Nat)
      /\ Len(queue) <= VideoCapacity /\ Len(control) <= ChannelSize
      /\ Len(inbound) <= ChannelSize
  BY <1>1 DEF Init
<1>3. /\ closed \in BOOLEAN /\ permit \in BOOLEAN /\ receiver \in BOOLEAN
      /\ shutdown \in BOOLEAN
  BY DEF Init
<1>4. /\ dropped \in Nat /\ pushed \in Nat /\ accepted \in Nat /\ held \in Nat
      /\ sent \in Nat /\ lastSent \in Nat /\ ctlSent \in Nat
      /\ arrived \in Nat /\ parsed \in Nat /\ consumed \in Nat
      /\ wpc \in WriterStates /\ rpc \in ReaderStates /\ senders \subseteq Senders
      /\ peer \in {"up", "gone"}
  BY DEF Init, WriterStates, ReaderStates
<1>5. BatchWhileSending
  BY DEF Init, BatchWhileSending
<1>6. QED
  BY <1>2, <1>3, <1>4, <1>5 DEF TypeInv, TypeOK

(* Every step of the senders, the tasks, the handler, the peer and the     *)
(* server keeps the types and the capacities.                              *)
LEMMA TypeInvStep == TypeInv /\ [Next]_vars => TypeInv'
<1> SUFFICES ASSUME TypeInv, [Next]_vars
             PROVE  TypeInv'
  OBVIOUS
<1> USE DEF TypeInv, TypeOK, BatchWhileSending, videoVars, controlVars, writerVars, frameVars, readerVars,
            inboundVars, envVars, WriterStates, ReaderStates
<1>1. ASSUME NEW s \in Senders, SendVideo(s)
      PROVE  TypeInv'
  <2>1. /\ Evicted(queue) \in Nat
        /\ Enqueued(queue, pushed + 1) \in Seq(Nat)
        /\ Len(Enqueued(queue, pushed + 1)) <= VideoCapacity
    <3>1. pushed + 1 \in Nat
      OBVIOUS
    <3>2. Evicted(queue) \in 0 .. 1
      BY <3>1, EnqueuedProperties
    <3>3. QED
      BY <3>1, <3>2, EnqueuedProperties
  <2>2. QED
    BY <1>1, <2>1 DEF SendVideo, NotifyOne
<1>2. ASSUME NEW s \in Senders, SendMessage(s)
      PROVE  TypeInv'
  <2>1. /\ Append(control, accepted + 1) \in Seq(Nat)
        /\ Len(Append(control, accepted + 1)) = Len(control) + 1
    BY AppendProperties, accepted + 1 \in Nat
  <2>2. QED
    BY <1>2, <2>1, LenProperties DEF SendMessage, ControlRoom
<1>3. ASSUME NEW s \in Senders, DropSender(s)
      PROVE  TypeInv'
  BY <1>3 DEF DropSender
<1>4. CASE WriterDrain
  BY <1>4, EmptySeq DEF WriterDrain
<1>5. CASE WriterNotified
  BY <1>5 DEF WriterNotified, PermitTaken
<1>6. CASE WriterCheck
  <2>1. CASE CheckReturns
    <3>1. <<>> \in Seq(Nat) /\ Len(<<>>) = 0
      BY EmptyFacts
    <3>2. QED
      BY <1>6, <2>1, <3>1 DEF WriterCheck, WriterReturns
  <2>2. CASE ~CheckReturns
    BY <1>6, <2>2 DEF WriterCheck
  <2>3. QED
    BY <2>1, <2>2
<1>7. CASE WriterPollRecv
  BY <1>7 DEF WriterPollRecv
<1>8. CASE WriterWoken
  BY <1>8 DEF WriterWoken, RecvCancelled
<1>9. CASE WriterRecv
  BY <1>9, HeadTailFacts DEF WriterRecv
<1>10. CASE WriterRecvNone
  BY <1>10, EmptySeq DEF WriterRecvNone, WriterReturns
<1>11. CASE WriterError
  BY <1>11, EmptySeq DEF WriterError, WriterReturns
<1>12. CASE WriterSendFrame
  <2>1. /\ batch # <<>> /\ Len(batch) \in Nat \ {0}
        /\ Head(batch) \in Nat /\ Tail(batch) \in Seq(Nat)
        /\ Len(batch) > 1 <=> Tail(batch) # <<>>
    BY <1>12, HeadTailFacts DEF WriterSendFrame
  <2>2. wpc' \in WriterStates /\ BatchWhileSending'
    BY <1>12, <2>1 DEF WriterSendFrame
  <2>3. QED
    BY SMTT(30), <1>12, <2>1, <2>2 DEF WriterSendFrame
<1>13. CASE WriterSendControl
  BY <1>13 DEF WriterSendControl
<1>14. CASE ReaderReturn
  BY <1>14 DEF ReaderReturn, CloseStep
<1>15. CASE ReaderShutdown \/ ReaderIdleTimeout \/ ReaderFails
  BY ZenonT(60), <1>15 DEF ReaderShutdown, ReaderIdleTimeout, ReaderFails, ReaderBreak, CloseStep
<1>16. CASE ReaderWait
  BY <1>16 DEF ReaderWait
<1>17. CASE ReaderReadClose
  BY <1>17, HeadTailFacts DEF ReaderReadClose, ReaderBreak, CloseStep
<1>18. CASE ReaderReadIgnored
  BY <1>18, HeadTailFacts DEF ReaderReadIgnored
<1>19. CASE ReaderParse
  BY <1>19, HeadTailFacts DEF ReaderParse
<1>20. CASE ReaderForward
  <2>1. /\ Append(inbound, parsed) \in Seq(Nat)
        /\ Len(Append(inbound, parsed)) = Len(inbound) + 1
    BY AppendProperties
  <2>2. QED
    BY <1>20, <2>1, LenProperties DEF ReaderForward
<1>21. CASE ReaderForwardFails
  BY <1>21 DEF ReaderForwardFails
<1>22. CASE HandlerNext
  BY SMTT(30), <1>22, HeadTailFacts DEF HandlerNext
<1>23. CASE HandlerDrop
  <2>1. inbound' \in Seq(Nat) /\ Len(inbound') = 0 /\ receiver' \in BOOLEAN
    BY <1>23, EmptyFacts DEF HandlerDrop
  <2>2. 0 <= ChannelSize
    OBVIOUS
  <2>3. QED
    BY <1>23, <2>1, <2>2 DEF HandlerDrop
<1>24. ASSUME NEW kind \in Kinds, PeerSend(kind)
       PROVE  TypeInv'
  <2>1. Append(incoming, kind) \in Seq(Kinds)
    BY AppendProperties
  <2>2. QED
    BY <1>24, <2>1 DEF PeerSend
<1>25. CASE PeerGone \/ Shutdown
  BY ZenonT(60), <1>25 DEF PeerGone, Shutdown
<1>26. CASE UNCHANGED vars
  BY <1>26 DEF vars
<1>27. QED
  BY <1>1, <1>2, <1>3, <1>4, <1>5, <1>6, <1>7, <1>8, <1>9, <1>10, <1>11, <1>12, <1>13,
     <1>14, <1>15, <1>16, <1>17, <1>18, <1>19, <1>20, <1>21, <1>22, <1>23, <1>24,
     <1>25, <1>26
  DEF Next, WriterInternal, WriterSend, ReaderStep

(* The queues and channels never outgrow their capacities and both tasks   *)
(* are always at one of their suspension points (TypeOK).                  *)
THEOREM TypeCorrect == Spec => []TypeOK
<1>1. TypeInv => TypeOK
  BY DEF TypeInv
<1>2. QED
  BY TypeInvInit, TypeInvStep, <1>1, PTL DEF Spec

--------------------------------------------------------------------------------
(* The video path.  Only a push, a drain and a send touch frames.          *)
LEMMA FrameSteps ==
  [Next]_vars =>
    \/ \E s \in Senders : SendVideo(s)
    \/ WriterDrain
    \/ WriterSendFrame
    \/ UNCHANGED <<queue, dropped, pushed, frameVars>>
  BY DEF Next, WriterInternal, WriterSend, ReaderStep, vars, videoVars, writerVars,
         SendMessage, DropSender, WriterNotified, WriterCheck, WriterPollRecv,
         WriterWoken, WriterRecv, WriterRecvNone, WriterError, WriterSendControl,
         ReaderReturn, ReaderShutdown, ReaderWait, ReaderFails, ReaderReadClose,
         ReaderReadIgnored, ReaderParse, ReaderForward, ReaderForwardFails,
         ReaderBreak, ReaderIdleTimeout, HandlerNext, HandlerDrop, PeerSend, PeerGone,
         Shutdown

VideoInv == TypeInv /\ QueueIsNewest /\ FrameAccounting

LEMMA VideoInvStep == VideoInv /\ [Next]_vars => VideoInv'
<1> SUFFICES ASSUME VideoInv, [Next]_vars
             PROVE  VideoInv'
  OBVIOUS
<1>1. TypeInv /\ TypeInv' /\ QueueIsNewest /\ FrameAccounting
  BY TypeInvStep DEF VideoInv
<1>2. /\ queue \in Seq(Nat) /\ batch \in Seq(Nat)
      /\ Len(queue) \in Nat /\ Len(batch) \in Nat
      /\ pushed \in Nat /\ sent \in Nat /\ dropped \in Nat
      /\ Len(queue) <= VideoCapacity
      /\ wpc # "done" => (wpc = "frames" <=> batch # <<>>)
  BY <1>1, LenProperties DEF TypeInv, TypeOK, BatchWhileSending
<1>3. ASSUME NEW s \in Senders, SendVideo(s)
      PROVE  QueueIsNewest' /\ FrameAccounting'
  <2> DEFINE e == Evicted(queue)
             q == Enqueued(queue, pushed + 1)
  <2>1. pushed + 1 \in Nat
    BY <1>2
  <2>2. /\ e \in 0 .. 1
        /\ e = 1 => Len(queue) = VideoCapacity
        /\ q \in Seq(Nat)
        /\ Len(q) = Len(queue) - e + 1
        /\ Len(q) <= VideoCapacity
        /\ \A i \in 1 .. Len(queue) - e : q[i] = queue[i + e]
        /\ q[Len(queue) - e + 1] = pushed + 1
    BY <1>2, <2>1, EnqueuedProperties
  <2>3. /\ queue' = q /\ pushed' = pushed + 1 /\ dropped' = dropped + e
        /\ UNCHANGED <<batch, sent>>
    BY <1>3 DEF SendVideo, writerVars, frameVars
  <2> HIDE DEF e, q
  <2>4. \A i \in 1 .. Len(q) : q[i] = (pushed + 1) - Len(q) + i
    <3> SUFFICES ASSUME NEW i \in 1 .. Len(q)
                 PROVE  q[i] = (pushed + 1) - Len(q) + i
      OBVIOUS
    <3>1. CASE i = Len(queue) - e + 1
      BY <1>2, <2>2, <3>1
    <3>2. CASE i \in 1 .. Len(queue) - e
      <4>1. i + e \in 1 .. Len(queue)
        BY <1>2, <2>2, <3>2
      <4>2. queue[i + e] = pushed - Len(queue) + (i + e)
        BY <1>1, <4>1 DEF QueueIsNewest
      <4>3. QED
        BY <1>2, <2>2, <3>2, <4>2
    <3>3. QED
      BY <1>2, <2>2, <3>1, <3>2
  <2>5. QueueIsNewest'
    BY <2>2, <2>3, <2>4 DEF QueueIsNewest
  <2>6. FrameAccounting'
    <3>1. pushed = sent + Len(batch) + Len(queue) + dropped
      BY <1>1 DEF FrameAccounting
    <3>2. pushed + 1 = sent + Len(batch) + Len(q) + (dropped + e)
      BY <1>2, <2>2, <3>1
    <3>3. QED
      BY <2>3, <3>2 DEF FrameAccounting
  <2>7. QED
    BY <2>5, <2>6
<1>4. CASE WriterDrain
  <2>1. /\ batch = <<>> /\ batch' = queue /\ queue' = <<>>
        /\ UNCHANGED <<pushed, dropped, sent>>
    BY <1>2, <1>4 DEF WriterDrain
  <2>2. Len(<<>>) = 0
    BY EmptyFacts
  <2>3. QueueIsNewest'
    BY <2>1, <2>2 DEF QueueIsNewest
  <2>4. FrameAccounting'
    BY <1>1, <1>2, <2>1, <2>2 DEF FrameAccounting
  <2>5. QED
    BY <1>1, <2>3, <2>4 DEF VideoInv
<1>5. CASE WriterSendFrame
  <2>1. /\ batch # <<>> /\ batch' = Tail(batch) /\ sent' = sent + 1
        /\ UNCHANGED <<queue, pushed, dropped>>
    BY <1>2, <1>5 DEF WriterSendFrame, videoVars
  <2>2. Len(Tail(batch)) = Len(batch) - 1
    BY <1>2, <2>1, HeadTailFacts
  <2>3. QueueIsNewest'
    BY <1>1, <2>1 DEF QueueIsNewest
  <2>4. FrameAccounting'
    BY <1>1, <1>2, <2>1, <2>2 DEF FrameAccounting
  <2>5. QED
    BY <1>1, <2>3, <2>4 DEF VideoInv
<1>6. CASE UNCHANGED <<queue, dropped, pushed, frameVars>>
  BY <1>1, <1>6 DEF VideoInv, QueueIsNewest, FrameAccounting, frameVars
<1>7. QED
  BY <1>1, <1>3, <1>4, <1>5, <1>6, FrameSteps DEF VideoInv

LEMMA VideoInvariant == Spec => []VideoInv
<1>1. Init => VideoInv
  <2>1. Len(<<>>) = 0
    BY EmptyFacts
  <2>2. QED
    BY TypeInvInit, <2>1 DEF Init, VideoInv, QueueIsNewest, FrameAccounting
<1>2. QED
  BY <1>1, VideoInvStep, PTL DEF Spec

(* Whatever pushes and drains interleave, the video queue holds the newest *)
(* frames, within its capacity (VideoQueue::push, drain): QueueIsNewest.   *)
THEOREM QueueHoldsNewest == Spec => []QueueIsNewest
<1>1. VideoInv => QueueIsNewest
  BY DEF VideoInv
<1>2. QED
  BY VideoInvariant, <1>1, PTL

(* No frame is lost or sent twice without being counted: FrameAccounting.  *)
THEOREM FramesAccounted == Spec => []FrameAccounting
<1>1. VideoInv => FrameAccounting
  BY DEF VideoInv
<1>2. QED
  BY VideoInvariant, <1>1, PTL

(* No frame is lost but to make room for a newer one, and every loss is    *)
(* counted: FramesKept.                                                    *)
THEOREM FramesAreKept == Spec => []FramesKept
<1>1. QueueIsNewest /\ FrameAccounting => FramesKept
  BY DEF FramesKept
<1>2. QED
  BY <1>1, QueueHoldsNewest, FramesAccounted, PTL

--------------------------------------------------------------------------------
(* The stream.  What the viewer is still owed is the batch and then the    *)
(* queue; frames are missing only where drop-oldest took them.             *)

(* The newest frame that was sent or is in the writer's hands.             *)
LastHeld == IF batch # <<>> THEN batch[Len(batch)] ELSE lastSent

(* The batch is a run of consecutive frames.                               *)
BatchIsRun ==
  \A i \in 1 .. Len(batch) : batch[i] = LastHeld - Len(batch) + i

(* It is newer than what was sent, and what lies between is displaced.     *)
BatchFollows ==
  batch # <<>> =>
    /\ lastSent < batch[1]
    /\ \/ batch[1] = lastSent + 1
       \/ (batch[1] - 1) + VideoCapacity <= pushed

(* The queue follows the batch, with a gap only if the queue is full.      *)
QueueFollows ==
  \/ LastHeld = pushed - Len(queue)
  \/ LastHeld < pushed - Len(queue) /\ Len(queue) = VideoCapacity

StreamInv == VideoInv /\ BatchIsRun /\ BatchFollows /\ QueueFollows

LEMMA StreamInvStep == StreamInv /\ [Next]_vars => StreamInv'
<1> SUFFICES ASSUME StreamInv, [Next]_vars
             PROVE  StreamInv'
  OBVIOUS
<1>1. /\ VideoInv /\ VideoInv' /\ TypeInv /\ QueueIsNewest
      /\ BatchIsRun /\ BatchFollows /\ QueueFollows
  BY VideoInvStep DEF StreamInv, VideoInv
<1>2. /\ queue \in Seq(Nat) /\ batch \in Seq(Nat)
      /\ Len(queue) \in Nat /\ Len(batch) \in Nat
      /\ pushed \in Nat /\ lastSent \in Nat
      /\ Len(queue) <= VideoCapacity
      /\ wpc # "done" => (wpc = "frames" <=> batch # <<>>)
  BY <1>1, LenProperties DEF TypeInv, TypeOK, BatchWhileSending
<1>3. LastHeld \in Nat
  <2>1. batch # <<>> => Len(batch) \in 1 .. Len(batch)
    BY <1>2, EmptySeq
  <2>2. QED
    BY <1>2, <2>1, ElementOfSeq DEF LastHeld
<1>4. ASSUME NEW s \in Senders, SendVideo(s)
      PROVE  StreamInv'
  <2> DEFINE e == Evicted(queue)
             q == Enqueued(queue, pushed + 1)
  <2>1. pushed + 1 \in Nat
    BY <1>2
  <2>2. /\ e \in 0 .. 1
        /\ e = 1 <=> Len(queue) = VideoCapacity
        /\ Len(q) = Len(queue) - e + 1
    BY <1>2, <2>1, EnqueuedProperties
  <2>3. queue' = q /\ pushed' = pushed + 1 /\ UNCHANGED <<batch, lastSent>>
    BY <1>4 DEF SendVideo, writerVars, frameVars
  <2>4. LastHeld' = LastHeld
    BY <2>3 DEF LastHeld
  <2> HIDE DEF e, q
  <2>5. BatchIsRun'
    BY <1>1, <2>3, <2>4 DEF BatchIsRun
  <2>6. BatchFollows'
    <3>1. batch # <<>> => batch[1] \in Nat
      BY <1>2, EmptySeq, ElementOfSeq
    <3>2. QED
      BY <1>1, <1>2, <2>3, <3>1 DEF BatchFollows
  <2>7. QueueFollows'
    <3>1. \/ LastHeld = (pushed + 1) - Len(q)
          \/ LastHeld < (pushed + 1) - Len(q) /\ Len(q) = VideoCapacity
      BY <1>1, <1>2, <1>3, <2>2 DEF QueueFollows
    <3>2. QED
      BY <2>3, <2>4, <3>1 DEF QueueFollows
  <2>8. QED
    BY <1>1, <2>5, <2>6, <2>7 DEF StreamInv
<1>5. CASE WriterDrain
  <2>1. /\ batch = <<>> /\ batch' = queue /\ queue' = <<>>
        /\ UNCHANGED <<pushed, lastSent>>
    BY <1>2, <1>5 DEF WriterDrain
  <2>2. /\ LastHeld = lastSent
        /\ Len(<<>>) = 0
    BY <2>1, EmptyFacts DEF LastHeld
  <2>3. CASE queue = <<>>
    <3>1. Len(queue) = 0 /\ lastSent = pushed
      BY <1>1, <1>2, <2>2, <2>3 DEF QueueFollows
    <3>2. LastHeld' = pushed
      BY <2>1, <2>3, <3>1 DEF LastHeld
    <3>3. BatchIsRun' /\ BatchFollows'
      BY <2>1, <2>2, <2>3 DEF BatchIsRun, BatchFollows
    <3>4. QueueFollows'
      BY <1>2, <2>1, <2>2, <3>2 DEF QueueFollows
    <3>5. QED
      BY <1>1, <3>3, <3>4 DEF StreamInv
  <2>4. CASE queue # <<>>
    <3>1. /\ Len(queue) \in Nat \ {0}
          /\ \A i \in 1 .. Len(queue) : queue[i] = pushed - Len(queue) + i
      BY <1>1, <1>2, <2>4, EmptySeq DEF QueueIsNewest
    <3>2. queue[1] = pushed - Len(queue) + 1 /\ queue[Len(queue)] = pushed
      <4>1. 1 \in 1 .. Len(queue) /\ Len(queue) \in 1 .. Len(queue)
        BY <3>1
      <4>2. /\ queue[1] = pushed - Len(queue) + 1
            /\ queue[Len(queue)] = pushed - Len(queue) + Len(queue)
        BY <3>1, <4>1
      <4>3. QED
        BY <1>2, <4>2
    <3>3. LastHeld' = pushed
      BY <2>1, <2>4, <3>2 DEF LastHeld
    <3>4. BatchIsRun'
      BY <2>1, <3>1, <3>3 DEF BatchIsRun
    <3>5. BatchFollows'
      <4>1. /\ lastSent < queue[1]
            /\ \/ queue[1] = lastSent + 1
               \/ (queue[1] - 1) + VideoCapacity <= pushed
        BY <1>1, <1>2, <2>2, <3>1, <3>2 DEF QueueFollows
      <4>2. QED
        BY <2>1, <4>1 DEF BatchFollows
    <3>6. QueueFollows'
      BY <1>2, <2>1, <2>2, <3>3 DEF QueueFollows
    <3>7. QED
      BY <1>1, <3>4, <3>5, <3>6 DEF StreamInv
  <2>5. QED
    BY <2>3, <2>4
<1>6. CASE WriterSendFrame
  <2> DEFINE t == Tail(batch)
             n == Len(batch)
  <2>1. /\ batch # <<>> /\ batch' = t /\ lastSent' = batch[1]
        /\ UNCHANGED <<queue, pushed>>
    BY <1>2, <1>6, HeadTailFacts DEF WriterSendFrame, videoVars
  <2>2. /\ n \in Nat \ {0} /\ t \in Seq(Nat) /\ Len(t) = n - 1
        /\ \A i \in 1 .. n - 1 : t[i] = batch[i + 1]
        /\ n > 1 <=> t # <<>>
    BY <1>2, <2>1, HeadTailFacts
  <2>3. LastHeld = batch[n]
    BY <2>1 DEF LastHeld
  <2>4. \A i \in 1 .. n : batch[i] = LastHeld - n + i
    BY <1>1 DEF BatchIsRun
  <2> HIDE DEF t, n
  <2>5. LastHeld' = LastHeld
    <3>1. CASE t = <<>>
      <4>1. n = 1
        BY <2>2, <3>1
      <4>2. QED
        BY <2>1, <2>3, <3>1, <4>1 DEF LastHeld
    <3>2. CASE t # <<>>
      <4>1. n - 1 \in 1 .. n - 1 /\ (n - 1) + 1 = n
        BY <2>2, <3>2
      <4>2. t[n - 1] = batch[n]
        BY <2>2, <4>1
      <4>3. QED
        BY <2>1, <2>2, <2>3, <3>2, <4>2 DEF LastHeld
    <3>3. QED
      BY <3>1, <3>2
  <2>6. BatchIsRun'
    <3>1. \A i \in 1 .. n - 1 : t[i] = LastHeld - (n - 1) + i
      <4> SUFFICES ASSUME NEW i \in 1 .. n - 1
                   PROVE  t[i] = LastHeld - (n - 1) + i
        OBVIOUS
      <4>1. i + 1 \in 1 .. n /\ t[i] = batch[i + 1]
        BY <2>2
      <4>2. t[i] = LastHeld - n + (i + 1)
        BY <2>4, <4>1
      <4>3. QED
        BY <1>3, <2>2, <4>2
    <3>2. QED
      BY <2>1, <2>2, <2>5, <3>1 DEF BatchIsRun
  <2>7. BatchFollows'
    <3>1. CASE t = <<>>
      BY <2>1, <3>1 DEF BatchFollows
    <3>2. CASE t # <<>>
      <4>1. 1 \in 1 .. n - 1 /\ 1 \in 1 .. n /\ 1 + 1 \in 1 .. n
        BY <2>2, <3>2
      <4>2. /\ t[1] = batch[1 + 1]
            /\ batch[1] = LastHeld - n + 1
            /\ batch[1 + 1] = LastHeld - n + (1 + 1)
        BY <2>2, <2>4, <4>1
      <4>3. batch[1] < t[1] /\ t[1] = batch[1] + 1
        BY <1>3, <2>2, <4>2
      <4>4. QED
        BY <2>1, <4>3 DEF BatchFollows
    <3>3. QED
      BY <3>1, <3>2
  <2>8. QueueFollows'
    BY <1>1, <2>1, <2>5 DEF QueueFollows
  <2>9. QED
    BY <1>1, <2>6, <2>7, <2>8 DEF StreamInv
<1>7. CASE UNCHANGED <<queue, dropped, pushed, frameVars>>
  <2>1. UNCHANGED <<queue, pushed, batch, lastSent>>
    BY <1>7 DEF frameVars
  <2>2. LastHeld' = LastHeld
    BY <2>1 DEF LastHeld
  <2>3. BatchIsRun' /\ BatchFollows' /\ QueueFollows'
    BY <1>1, <2>1, <2>2 DEF BatchIsRun, BatchFollows, QueueFollows
  <2>4. QED
    BY <1>1, <2>3 DEF StreamInv
<1>8. QED
  BY <1>4, <1>5, <1>6, <1>7, FrameSteps

LEMMA StreamInvInit == Init => StreamInv
<1>1. Len(<<>>) = 0
  BY EmptyFacts
<1>2. Init => VideoInv
  BY <1>1, TypeInvInit DEF Init, VideoInv, QueueIsNewest, FrameAccounting
<1>3. ASSUME Init
      PROVE  BatchIsRun /\ BatchFollows /\ QueueFollows
  <2>1. /\ batch = <<>> /\ Len(batch) = 0 /\ Len(queue) = 0
        /\ pushed = 0 /\ LastHeld = 0
    BY <1>1, <1>3 DEF Init, LastHeld
  <2>2. BatchIsRun /\ BatchFollows
    BY <2>1 DEF BatchIsRun, BatchFollows
  <2>3. QueueFollows
    BY <2>1 DEF QueueFollows
  <2>4. QED
    BY <2>2, <2>3
<1>4. QED
  BY <1>2, <1>3 DEF StreamInv

(* A step of the transport is a step of LiveStream or leaves it alone: the *)
(* frame sent is newer than the last one, and those it passes over were    *)
(* displaced from a full queue.                                            *)
LEMMA StreamStep ==
  StreamInv /\ [Next]_vars => [Stream!Next]_(Stream!vars)
<1> SUFFICES ASSUME StreamInv, [Next]_vars
             PROVE  [Stream!Next]_(Stream!vars)
  OBVIOUS
<1> USE DEF Stream!Next, Stream!vars, Stream!Produce, Stream!Show, Stream!Displaced
<1>1. /\ TypeInv /\ BatchIsRun /\ BatchFollows /\ QueueFollows
      /\ queue \in Seq(Nat) /\ batch \in Seq(Nat)
      /\ Len(queue) \in Nat /\ pushed \in Nat /\ lastSent \in Nat
      /\ wpc # "done" => (wpc = "frames" <=> batch # <<>>)
  BY LenProperties DEF StreamInv, VideoInv, TypeInv, TypeOK, BatchWhileSending
<1>2. CASE \E s \in Senders : SendVideo(s)
  BY <1>2 DEF SendVideo, writerVars, frameVars
<1>3. CASE WriterDrain
  BY <1>3 DEF WriterDrain
<1>4. CASE WriterSendFrame
  <2>1. batch # <<>> /\ lastSent' = batch[1] /\ UNCHANGED pushed
    BY <1>1, <1>4, HeadTailFacts DEF WriterSendFrame, videoVars
  <2>2. Len(batch) \in Nat \ {0}
    BY <1>1, <2>1, EmptySeq
  <2>3. 1 \in 1 .. Len(batch) /\ Len(batch) \in 1 .. Len(batch)
    BY <2>2
  <2>4. batch[1] \in Nat /\ batch[Len(batch)] \in Nat
    BY <1>1, <2>3, ElementOfSeq
  <2>5. batch[1] = batch[Len(batch)] - Len(batch) + 1
    BY <1>1, <2>1, <2>3 DEF BatchIsRun, LastHeld
  <2>6. batch[Len(batch)] <= pushed
    BY <1>1, <2>1, <2>4 DEF QueueFollows, LastHeld
  <2>7. batch[1] \in (lastSent + 1) .. pushed
    BY <1>1, <2>1, <2>2, <2>4, <2>5, <2>6 DEF BatchFollows
  <2>8. \A skipped \in (lastSent + 1) .. (batch[1] - 1) :
          skipped + VideoCapacity <= pushed
    BY SMTT(30), <1>1, <2>1, <2>4 DEF BatchFollows
  <2>9. Stream!Show
    BY <2>1, <2>7, <2>8
  <2>10. QED
    BY <2>9
<1>5. CASE UNCHANGED <<queue, dropped, pushed, frameVars>>
  BY <1>5 DEF frameVars
<1>6. QED
  BY <1>2, <1>3, <1>4, <1>5, FrameSteps

(* VideoQueue and the writer task implement LiveStream: the viewer is      *)
(* shown ever newer frames, and misses one only when VideoCapacity newer   *)
(* ones exist (StreamRefines).                                             *)
THEOREM ImplementsLiveStream == Spec => StreamRefines
<1>1. Init => Stream!Init
  BY DEF Init, Stream!Init
<1>2. QED
  BY <1>1, StreamInvInit, StreamInvStep, StreamStep, PTL
  DEF Spec, StreamRefines, Stream!Spec

--------------------------------------------------------------------------------
(* A close never cuts a burst short: the writer returns with frames still  *)
(* queued only when the socket failed or no sender is left                 *)
(* (NoFrameAbandoned), because it has nothing in hand while it waits.      *)
THEOREM BurstsAreFinished == Spec => NoFrameAbandoned
<1>1. ASSUME TypeInv, [Next]_vars, wpc # "done", wpc' = "done", peer = "up"
      PROVE  batch = <<>> /\ (queue = <<>> \/ senders = {})
  <2>1. wpc # "frames" => batch = <<>>
    BY <1>1 DEF TypeInv, BatchWhileSending
  <2>2. \/ WriterCheck /\ CheckReturns
        \/ WriterRecvNone
    BY <1>1 DEF Next, WriterInternal, WriterSend, ReaderStep, vars, writerVars,
       SendVideo, SendMessage, DropSender, WriterDrain, WriterNotified, WriterCheck,
       WriterPollRecv, WriterWoken, WriterRecv, WriterError, WriterSendFrame,
       WriterSendControl, ReaderReturn, ReaderShutdown, ReaderWait, ReaderFails,
       ReaderReadClose, ReaderReadIgnored, ReaderParse, ReaderForward,
       ReaderForwardFails, ReaderBreak, ReaderIdleTimeout, HandlerNext, HandlerDrop,
       PeerSend, PeerGone, Shutdown
  <2>3. QED
    BY <2>1, <2>2 DEF WriterCheck, CheckReturns, WriterRecvNone
<1>2. TypeInv /\ [Next]_vars =>
        [wpc # "done" /\ wpc' = "done" /\ peer = "up"
           => batch = <<>> /\ (queue = <<>> \/ senders = {})]_vars
  BY <1>1
<1>3. QED
  BY <1>2, TypeInvInit, TypeInvStep, PTL DEF Spec, NoFrameAbandoned

--------------------------------------------------------------------------------
(* The control messages.  Only a send, a receive and a write touch them,   *)
(* until the writer returns.                                               *)
LEMMA ControlSteps ==
  [Next]_vars =>
    \/ \E s \in Senders : SendMessage(s)
    \/ WriterRecv
    \/ WriterSendControl
    \/ wpc' = "done"
    \/ /\ UNCHANGED <<control, accepted, held, ctlSent>>
       /\ wpc # "done"
       /\ wpc' = "write" <=> wpc = "write"
  BY DEF Next, WriterInternal, WriterSend, ReaderStep, vars, controlVars, writerVars,
         SendVideo, DropSender, WriterDrain, WriterNotified, WriterCheck,
         WriterPollRecv, WriterWoken, WriterRecvNone, WriterError, WriterSendFrame,
         WriterReturns, RecvCancelled,
         ReaderReturn, ReaderShutdown, ReaderWait, ReaderFails, ReaderReadClose,
         ReaderReadIgnored, ReaderParse, ReaderForward, ReaderForwardFails,
         ReaderBreak, ReaderIdleTimeout, HandlerNext, HandlerDrop, PeerSend, PeerGone,
         Shutdown

(* The message being written is the next to send; the channel holds those  *)
(* after it, up to the last one accepted.                                  *)
InHand == IF held # 0 THEN 1 ELSE 0

ControlOwed ==
  wpc # "done" =>
    /\ held # 0 <=> wpc = "write"
    /\ held # 0 => held = ctlSent + 1
    /\ accepted = ctlSent + InHand + Len(control)
    /\ \A i \in 1 .. Len(control) : control[i] = ctlSent + InHand + i

ControlInv == TypeInv /\ ControlOwed

LEMMA ControlInvStep == ControlInv /\ [Next]_vars => ControlInv'
<1> SUFFICES ASSUME ControlInv, [Next]_vars
             PROVE  ControlOwed'
  BY TypeInvStep DEF ControlInv
<1>1. /\ control \in Seq(Nat) /\ Len(control) \in Nat
      /\ accepted \in Nat /\ ctlSent \in Nat /\ held \in Nat
      /\ InHand \in 0 .. 1
  BY LenProperties DEF ControlInv, TypeInv, TypeOK, InHand
<1>2. ASSUME NEW s \in Senders, SendMessage(s)
      PROVE  ControlOwed'
  <2> DEFINE c == Append(control, accepted + 1)
  <2>1. /\ wpc # "done" /\ control' = c /\ accepted' = accepted + 1
        /\ UNCHANGED <<wpc, held, ctlSent>>
    BY <1>2 DEF SendMessage, writerVars
  <2>2. accepted + 1 \in Nat
    BY <1>1
  <2>3. /\ Len(c) = Len(control) + 1
        /\ \A i \in 1 .. Len(control) : c[i] = control[i]
        /\ c[Len(control) + 1] = accepted + 1
    BY <1>1, <2>2, AppendProperties
  <2> HIDE DEF c
  <2>4. ControlOwed
    BY DEF ControlInv
  <2>5. \A i \in 1 .. Len(c) : c[i] = ctlSent + InHand + i
    BY <1>1, <2>1, <2>3, <2>4 DEF ControlOwed
  <2>6. InHand' = InHand
    BY <2>1 DEF InHand
  <2>7. accepted + 1 = ctlSent + InHand + Len(c)
    BY <1>1, <2>1, <2>3, <2>4 DEF ControlOwed
  <2>8. QED
    BY <2>1, <2>4, <2>5, <2>6, <2>7 DEF ControlOwed
<1>3. CASE WriterRecv
  <2> DEFINE c == Tail(control)
  <2>1. /\ wpc = "recv" /\ wpc' = "write" /\ control # <<>>
        /\ held' = control[1] /\ control' = c
        /\ UNCHANGED <<accepted, ctlSent>>
    BY <1>1, <1>3, HeadTailFacts DEF WriterRecv
  <2>2. /\ Len(control) \in Nat \ {0} /\ Len(c) = Len(control) - 1
        /\ \A i \in 1 .. Len(control) - 1 : c[i] = control[i + 1]
    BY <1>1, <2>1, HeadTailFacts
  <2> HIDE DEF c
  <2>3. held = 0 /\ InHand = 0
    BY <2>1 DEF ControlInv, ControlOwed, InHand
  <2>4. /\ accepted = ctlSent + Len(control)
        /\ \A i \in 1 .. Len(control) : control[i] = ctlSent + i
    BY <1>1, <2>1, <2>3 DEF ControlInv, ControlOwed
  <2>5. control[1] = ctlSent + 1
    BY <2>2, <2>4
  <2>6. InHand' = 1 /\ held' # 0
    BY <1>1, <2>1, <2>5 DEF InHand
  <2>7. \A i \in 1 .. Len(c) : c[i] = ctlSent + 1 + i
    <3> SUFFICES ASSUME NEW i \in 1 .. Len(c)
                 PROVE  c[i] = ctlSent + 1 + i
      OBVIOUS
    <3>1. i + 1 \in 1 .. Len(control) /\ c[i] = control[i + 1]
      BY <2>2
    <3>2. QED
      BY <1>1, <2>4, <3>1
  <2>8. accepted = ctlSent + 1 + Len(c)
    BY <1>1, <2>2, <2>4
  <2>9. QED
    BY <2>1, <2>5, <2>6, <2>7, <2>8 DEF ControlOwed
<1>4. CASE WriterSendControl
  <2>1. /\ wpc = "write" /\ wpc' = "drain" /\ held' = 0 /\ ctlSent' = held
        /\ UNCHANGED <<control, accepted>>
    BY <1>4 DEF WriterSendControl, controlVars
  <2>2. held = ctlSent + 1 /\ InHand = 1 /\ InHand' = 0
    BY <2>1 DEF ControlInv, ControlOwed, InHand
  <2>3. /\ accepted = held + 0 + Len(control)
        /\ \A i \in 1 .. Len(control) : control[i] = held + 0 + i
    BY <1>1, <2>1, <2>2 DEF ControlInv, ControlOwed
  <2>4. QED
    BY <2>1, <2>2, <2>3 DEF ControlOwed
<1>5. CASE wpc' = "done"
  BY <1>5 DEF ControlOwed
<1>6. CASE /\ UNCHANGED <<control, accepted, held, ctlSent>>
           /\ wpc # "done"
           /\ wpc' = "write" <=> wpc = "write"
  BY <1>6 DEF ControlInv, ControlOwed, InHand
<1>7. QED
  BY <1>2, <1>3, <1>4, <1>5, <1>6, ControlSteps

(* What the writer owes, as the run states it.                             *)
LEMMA ControlInvFifo == ControlInv => ControlFifo
<1> DEFINE h == IF held # 0 THEN <<held>> ELSE <<>>
<1> SUFFICES ASSUME ControlInv, wpc # "done"
             PROVE  /\ Len(h \o control) = accepted - ctlSent
                    /\ \A i \in 1 .. Len(h \o control) :
                         (h \o control)[i] = ctlSent + i
  BY DEF ControlFifo
<1>1. /\ control \in Seq(Nat) /\ Len(control) \in Nat
      /\ accepted \in Nat /\ ctlSent \in Nat /\ held \in Nat
      /\ ControlOwed
  BY LenProperties DEF ControlInv, TypeInv, TypeOK
<1>2. /\ h \in Seq(Nat) /\ Len(h) = InHand /\ InHand \in 0 .. 1
      /\ \A i \in 1 .. Len(h) : h[i] = ctlSent + i
  <2>1. CASE held # 0
    BY <1>1, <2>1 DEF ControlOwed, InHand
  <2>2. CASE held = 0
    <3>1. h = <<>> /\ InHand = 0
      BY <2>2 DEF InHand
    <3>2. QED
      BY <3>1, EmptyFacts
  <2>3. QED
    BY <2>1, <2>2
<1> HIDE DEF h
<1>3. /\ Len(h \o control) = Len(h) + Len(control)
      /\ \A i \in 1 .. Len(h) + Len(control) :
           (h \o control)[i] = IF i <= Len(h) THEN h[i] ELSE control[i - Len(h)]
  BY <1>1, <1>2, ConcatProperties
<1>4. \A i \in 1 .. Len(control) : control[i] = ctlSent + InHand + i
  BY <1>1 DEF ControlOwed
<1>5. ASSUME NEW i \in 1 .. Len(h \o control)
      PROVE  (h \o control)[i] = ctlSent + i
  <2>1. CASE i <= Len(h)
    BY <1>1, <1>2, <1>3, <2>1
  <2>2. CASE i > Len(h)
    <3>1. i - Len(h) \in 1 .. Len(control)
      BY <1>1, <1>2, <1>3, <2>2
    <3>2. (h \o control)[i] = control[i - Len(h)]
      BY SMTT(20), <1>1, <1>2, <1>3, <2>2
    <3>3. QED
      BY <1>1, <1>2, <1>4, <3>1, <3>2
  <2>3. QED
    BY <1>1, <1>2, <1>3, <2>1, <2>2
<1>6. Len(h \o control) = accepted - ctlSent
  BY <1>1, <1>2, <1>3 DEF ControlOwed
<1>7. QED
  BY <1>5, <1>6

(* Video's priority in the writer may delay a control message but never    *)
(* drops, repeats or reorders one (ControlFifo).                           *)
THEOREM ControlInOrder == Spec => []ControlFifo
<1>1. Init => ControlInv
  <2>1. Len(<<>>) = 0
    BY EmptyFacts
  <2>2. QED
    BY <2>1, TypeInvInit DEF Init, ControlInv, ControlOwed, InHand
<1>2. QED
  BY <1>1, ControlInvStep, ControlInvFifo, PTL DEF Spec

--------------------------------------------------------------------------------
(* The messages for the handler.  Only the parse, the forward and the      *)
(* handler touch them.                                                     *)
LEMMA InboundSteps ==
  [Next]_vars =>
    \/ ReaderParse
    \/ ReaderForward
    \/ HandlerNext
    \/ receiver' = FALSE
    \/ /\ UNCHANGED <<inbound, parsed, consumed, receiver>>
       /\ receiver => (rpc' = "forward" <=> rpc = "forward")
  BY DEF Next, WriterInternal, WriterSend, ReaderStep, vars, readerVars, inboundVars,
         SendVideo, SendMessage, DropSender, WriterDrain, WriterNotified, WriterCheck,
         WriterPollRecv, WriterWoken, WriterRecv, WriterRecvNone, WriterError,
         WriterSendFrame, WriterSendControl, Selecting,
         ReaderReturn, ReaderShutdown, ReaderWait, ReaderFails, ReaderReadClose,
         ReaderReadIgnored, ReaderForwardFails, ReaderBreak, ReaderIdleTimeout,
         HandlerDrop, PeerSend, PeerGone, Shutdown

(* The channel holds the messages after the last one the handler took; the *)
(* one the reader waits to forward, if any, is the next.                   *)
Waiting == IF rpc = "forward" THEN 1 ELSE 0

InboundOwed ==
  receiver =>
    /\ parsed = consumed + Len(inbound) + Waiting
    /\ \A i \in 1 .. Len(inbound) : inbound[i] = consumed + i

InboundInv == TypeInv /\ InboundOwed

LEMMA InboundInvStep == InboundInv /\ [Next]_vars => InboundInv'
<1> SUFFICES ASSUME InboundInv, [Next]_vars
             PROVE  InboundOwed'
  BY TypeInvStep DEF InboundInv
<1>1. /\ inbound \in Seq(Nat) /\ Len(inbound) \in Nat
      /\ parsed \in Nat /\ consumed \in Nat /\ InboundOwed
      /\ receiver \in BOOLEAN
  BY LenProperties DEF InboundInv, TypeInv, TypeOK
<1>2. CASE ReaderParse
  <2>1. /\ rpc # "forward" /\ rpc' = "forward" /\ parsed' = parsed + 1
        /\ UNCHANGED <<inbound, consumed, receiver>>
    BY <1>2 DEF ReaderParse, Selecting, inboundVars
  <2>2. Waiting = 0 /\ Waiting' = 1
    BY <2>1 DEF Waiting
  <2>3. receiver => parsed + 1 = consumed + Len(inbound) + 1
    BY <1>1, <2>2 DEF InboundOwed
  <2>4. QED
    BY <1>1, <2>1, <2>2, <2>3 DEF InboundOwed
<1>3. CASE ReaderForward
  <2> DEFINE q == Append(inbound, parsed)
  <2>1. /\ rpc = "forward" /\ rpc' # "forward" /\ receiver /\ inbound' = q
        /\ UNCHANGED <<parsed, consumed, receiver>>
    BY <1>3 DEF ReaderForward
  <2>2. /\ Len(q) = Len(inbound) + 1
        /\ \A i \in 1 .. Len(inbound) : q[i] = inbound[i]
        /\ q[Len(inbound) + 1] = parsed
    BY <1>1, AppendProperties
  <2> HIDE DEF q
  <2>3. Waiting = 1 /\ Waiting' = 0
    BY <2>1 DEF Waiting
  <2>4. /\ parsed = consumed + Len(inbound) + 1
        /\ \A i \in 1 .. Len(inbound) : inbound[i] = consumed + i
    BY <1>1, <2>1, <2>3 DEF InboundOwed
  <2>5. \A i \in 1 .. Len(q) : q[i] = consumed + i
    BY <1>1, <2>2, <2>4
  <2>6. parsed = consumed + Len(q) + 0
    BY <1>1, <2>2, <2>4
  <2>7. QED
    BY <2>1, <2>3, <2>5, <2>6 DEF InboundOwed
<1>4. CASE HandlerNext
  <2> DEFINE q == Tail(inbound)
  <2>1. /\ receiver /\ inbound # <<>> /\ consumed' = inbound[1] /\ inbound' = q
        /\ UNCHANGED <<rpc, parsed, receiver>>
    BY <1>1, <1>4, HeadTailFacts DEF HandlerNext, readerVars
  <2>2. /\ Len(inbound) \in Nat \ {0} /\ Len(q) = Len(inbound) - 1
        /\ \A i \in 1 .. Len(inbound) - 1 : q[i] = inbound[i + 1]
    BY <1>1, <2>1, HeadTailFacts
  <2> HIDE DEF q
  <2>3. Waiting' = Waiting /\ Waiting \in 0 .. 1
    BY <2>1 DEF Waiting
  <2>4. /\ parsed = consumed + Len(inbound) + Waiting
        /\ \A i \in 1 .. Len(inbound) : inbound[i] = consumed + i
    BY <1>1, <2>1 DEF InboundOwed
  <2>5. inbound[1] = consumed + 1
    BY <2>2, <2>4
  <2>6. \A i \in 1 .. Len(q) : q[i] = (consumed + 1) + i
    <3> SUFFICES ASSUME NEW i \in 1 .. Len(q)
                 PROVE  q[i] = (consumed + 1) + i
      OBVIOUS
    <3>1. i + 1 \in 1 .. Len(inbound) /\ q[i] = inbound[i + 1]
      BY <2>2
    <3>2. QED
      BY <1>1, <2>4, <3>1
  <2>7. parsed = (consumed + 1) + Len(q) + Waiting
    BY <1>1, <2>2, <2>3, <2>4
  <2>8. QED
    BY <2>1, <2>3, <2>5, <2>6, <2>7 DEF InboundOwed
<1>5. CASE receiver' = FALSE
  BY <1>5 DEF InboundOwed
<1>6. CASE /\ UNCHANGED <<inbound, parsed, consumed, receiver>>
           /\ receiver => (rpc' = "forward" <=> rpc = "forward")
  BY <1>1, <1>6 DEF InboundOwed, Waiting
<1>7. QED
  BY <1>2, <1>3, <1>4, <1>5, <1>6, InboundSteps

(* What is owed to the handler, as the run states it.                      *)
LEMMA InboundInvFifo == InboundInv => InboundFifo
<1> DEFINE w == IF rpc = "forward" THEN <<parsed>> ELSE <<>>
<1> SUFFICES ASSUME InboundInv, receiver
             PROVE  /\ Len(inbound \o w) = parsed - consumed
                    /\ \A i \in 1 .. Len(inbound \o w) :
                         (inbound \o w)[i] = consumed + i
  BY DEF InboundFifo
<1>1. /\ inbound \in Seq(Nat) /\ Len(inbound) \in Nat
      /\ parsed \in Nat /\ consumed \in Nat
      /\ parsed = consumed + Len(inbound) + Waiting
      /\ \A i \in 1 .. Len(inbound) : inbound[i] = consumed + i
  BY LenProperties DEF InboundInv, InboundOwed, TypeInv, TypeOK
<1>2. /\ w \in Seq(Nat) /\ Len(w) = Waiting /\ Waiting \in 0 .. 1
      /\ \A i \in 1 .. Len(w) : w[i] = parsed
  <2>1. CASE rpc = "forward"
    BY <1>1, <2>1 DEF Waiting
  <2>2. CASE rpc # "forward"
    <3>1. w = <<>> /\ Waiting = 0
      BY <2>2 DEF Waiting
    <3>2. QED
      BY <3>1, EmptyFacts
  <2>3. QED
    BY <2>1, <2>2
<1> HIDE DEF w
<1>3. /\ Len(inbound \o w) = Len(inbound) + Len(w)
      /\ \A i \in 1 .. Len(inbound) + Len(w) :
           (inbound \o w)[i] = IF i <= Len(inbound) THEN inbound[i]
                               ELSE w[i - Len(inbound)]
  BY <1>1, <1>2, ConcatProperties
<1>4. Len(inbound \o w) = parsed - consumed
  BY <1>1, <1>2, <1>3
<1>5. ASSUME NEW i \in 1 .. Len(inbound \o w)
      PROVE  (inbound \o w)[i] = consumed + i
  <2>1. CASE i <= Len(inbound)
    BY <1>1, <1>2, <1>3, <2>1
  <2>2. CASE i > Len(inbound)
    <3>1. i - Len(inbound) \in 1 .. Len(w)
      BY <1>1, <1>2, <1>3, <2>2
    <3>2. (inbound \o w)[i] = parsed
      BY <1>1, <1>2, <1>3, <2>2, <3>1
    <3>3. i \in Nat /\ i <= Len(inbound) + Waiting /\ Len(inbound) < i
      BY <1>1, <1>2, <1>3, <2>2
    <3>4. parsed = consumed + i
      BY SMTT(20), <1>1, <1>2, <3>3
    <3>5. QED
      BY <3>2, <3>4
  <2>3. QED
    BY <1>1, <1>2, <1>3, <2>1, <2>2
<1>6. QED
  BY <1>4, <1>5

(* While it listens, the handler gets every message that parsed, in order  *)
(* (InboundFifo).                                                          *)
THEOREM InboundInOrder == Spec => []InboundFifo
<1>1. Init => InboundInv
  <2>1. Len(<<>>) = 0
    BY EmptyFacts
  <2>2. QED
    BY <2>1, TypeInvInit DEF Init, InboundInv, InboundOwed, Waiting
<1>2. QED
  BY <1>1, InboundInvStep, InboundInvFifo, PTL DEF Spec

(* Both directions of the socket keep their messages and their order       *)
(* (MessagesInOrder).                                                      *)
THEOREM MessagesAreInOrder == Spec => []MessagesInOrder
<1>1. ControlFifo /\ InboundFifo => MessagesInOrder
  BY DEF MessagesInOrder
<1>2. QED
  BY <1>1, ControlInOrder, InboundInOrder, PTL

--------------------------------------------------------------------------------
(* The session.  What it does to the transport are steps of the transport, *)
(* so whatever is proved of one holds in the other.                        *)
LEMMA SessionStepIsTransportStep ==
  TypeInv /\ [SessionNext]_allVars => [Next]_vars
<1> SUFFICES ASSUME TypeInv, [SessionNext]_allVars
             PROVE  [Next]_vars
  OBVIOUS
<1>1. senders \subseteq Senders
  BY DEF TypeInv, TypeOK
<1>2. CASE Announce \/ Produce
  BY <1>1, <1>2 DEF Announce, Produce, Next
<1>3. CASE WriterWorks \/ ReceiveText \/ ReceiveBinary
  BY <1>3 DEF WriterWorks, ReceiveText, ReceiveBinary, Next, WriterSend
<1>4. CASE UNCHANGED transportVars
  BY <1>4 DEF transportVars
<1>5. QED
  BY <1>2, <1>3, <1>4
  DEF SessionNext, allVars, RestartStream, EncodeWorks, BrowserWorks

(* A session's stream goes over a Transport (WsRylusSender, the writer     *)
(* task).                                                                  *)
THEOREM SessionUsesTransport == SessionSpec => Spec
<1>1. SessionInit => Init
  BY DEF SessionInit
<1>2. TypeInv /\ [SessionNext]_allVars => [Next]_vars /\ TypeInv'
  BY SessionStepIsTransportStep, TypeInvStep
<1>3. QED
  BY <1>1, <1>2, TypeInvInit, PTL DEF Spec, SessionSpec

(* The encode thread hands over no more than its contract allows           *)
(* (encode_thread): nothing the transport or the browser does disturbs it. *)
THEOREM SessionUsesEncoder == SessionSpec => Encode!Spec
<1>1. SessionInit => Encode!Init
  BY DEF SessionInit
<1>2. [SessionNext]_allVars => [Encode!Next]_(Encode!vars)
  BY DEF SessionNext, allVars, RestartStream, EncodeWorks, Announce, Produce, WriterWorks,
         ReceiveText, ReceiveBinary, BrowserWorks, encodeVars, Encode!vars, Encode!Next,
         Encode!Internal
<1>3. QED
  BY <1>1, <1>2, PTL DEF SessionSpec, Encode!Spec

(* What the writer's inner steps leave alone, and what the two sends do.   *)
LEMMA WriterKeeps ==
  WriterInternal => UNCHANGED <<pushed, lastSent, accepted, ctlSent>>
  BY DEF WriterInternal, WriterDrain, WriterNotified, WriterCheck, WriterPollRecv,
         WriterWoken, WriterRecv, WriterRecvNone, WriterError, videoVars, controlVars,
         frameVars

LEMMA FrameSent ==
  StreamInv /\ WriterSendFrame =>
    /\ UNCHANGED <<pushed, accepted, ctlSent>>
    /\ lastSent' \in (lastSent + 1) .. pushed
    /\ \A i \in (lastSent + 1) .. (lastSent' - 1) : i + VideoCapacity <= pushed
<1> SUFFICES ASSUME StreamInv, WriterSendFrame
             PROVE  /\ UNCHANGED <<pushed, accepted, ctlSent>>
                    /\ lastSent' \in (lastSent + 1) .. pushed
                    /\ \A i \in (lastSent + 1) .. (lastSent' - 1) :
                         i + VideoCapacity <= pushed
  OBVIOUS
<1>1. UNCHANGED <<pushed, accepted, ctlSent>> /\ sent' = sent + 1 /\ sent \in Nat
  BY DEF WriterSendFrame, videoVars, controlVars, StreamInv, VideoInv, TypeInv, TypeOK
<1>2. [Stream!Next]_(Stream!vars)
  BY StreamStep DEF Next, WriterSend
<1>3. lastSent' # lastSent
  <2>1. /\ TypeInv /\ BatchFollows /\ batch \in Seq(Nat) /\ batch # <<>>
        /\ lastSent' = Head(batch)
    BY DEF StreamInv, VideoInv, TypeInv, TypeOK, BatchWhileSending, WriterSendFrame
  <2>2. Head(batch) = batch[1] /\ batch[1] \in Nat /\ lastSent \in Nat
    BY <2>1, HeadTailFacts DEF TypeInv, TypeOK
  <2>3. QED
    BY <2>1, <2>2 DEF BatchFollows
<1>4. Stream!Show
  BY <1>1, <1>2, <1>3 DEF Stream!Next, Stream!vars, Stream!Produce
<1>5. QED
  BY <1>1, <1>4 DEF Stream!Show, Stream!Displaced

(* The control message that is sent is one that was accepted.              *)
LEMMA ControlWritten ==
  ControlInv /\ WriterSendControl =>
    /\ UNCHANGED <<pushed, lastSent, accepted>>
    /\ ctlSent' \in 1 .. accepted
<1> SUFFICES ASSUME ControlInv, WriterSendControl
             PROVE  /\ UNCHANGED <<pushed, lastSent, accepted>>
                    /\ ctlSent' \in 1 .. accepted
  OBVIOUS
<1>1. UNCHANGED <<pushed, lastSent, accepted>> /\ ctlSent' = held /\ wpc = "write"
  BY DEF WriterSendControl, videoVars, controlVars, frameVars
<1>2. /\ held # 0 /\ held = ctlSent + 1
      /\ accepted = ctlSent + 1 + Len(control)
      /\ Len(control) \in Nat /\ ctlSent \in Nat
  BY <1>1, LenProperties DEF ControlInv, ControlOwed, InHand, TypeInv, TypeOK
<1>3. QED
  BY <1>1, <1>2

--------------------------------------------------------------------------------
(* The types of the session's own state, with the lengths of its history.  *)
Places ==
  {"ready", "NewVideo", "open", "init", "VideoInit", "swap", "trailer", "fragment",
   "last", "done"}

BinaryMessage == [stream : 1 .. MaxStreams, what : Parts, key : BOOLEAN]
Announcement  == [stream : 1 .. MaxStreams, what : {"NewVideo", "VideoInit"}]

ThreadTypes ==
  /\ at \in Places /\ encoding \in BOOLEAN /\ opened \in BOOLEAN
  /\ stream \in 0 .. MaxStreams

HistoryTypes ==
  /\ binaries \in Seq(BinaryMessage) /\ Len(binaries) = pushed
  /\ texts \in Seq(Announcement) /\ Len(texts) = accepted

PlayerTypes ==
  /\ source \in [for : 0 .. MaxStreams, buffer : {"none", "open", "broken"},
                 updating : BOOLEAN, inited : 0 .. MaxStreams]
  /\ waiting \in Seq(BinaryMessage)
  /\ codec \in 0 .. MaxStreams
  /\ probe \in {"undecided", "probing", "decided"}
  /\ pipe \in [on : BOOLEAN, decoder : 0 .. MaxStreams, key : BOOLEAN,
               fed : 0 .. MaxStreams, offered : BOOLEAN]

(* A part of a stream is handed over only while there is such a stream, and *)
(* a trailer only after another stream has been announced.                  *)
Restarting == at \in {"NewVideo", "open", "init", "VideoInit", "swap"}

StreamsCount ==
  /\ encoding \/ Restarting \/ at \in {"fragment", "last"} => stream >= 1
  /\ (Restarting /\ encoding) \/ at = "trailer" => stream >= 2

ThreadInv == ThreadTypes /\ StreamsCount

LEMMA ThreadInvInit == SessionInit => ThreadInv
<1> SUFFICES ASSUME SessionInit
             PROVE  ThreadInv
  OBVIOUS
<1>1. at = "ready" /\ encoding = FALSE /\ opened = FALSE /\ stream = 0
  BY DEF SessionInit, Encode!Init
<1>2. ThreadTypes
  <2>1. encoding \in BOOLEAN /\ opened \in BOOLEAN
    BY <1>1
  <2>2. at \in Places
    BY <1>1 DEF Places
  <2>3. stream \in 0 .. MaxStreams
    BY <1>1, StreamAssumption
  <2>4. QED
    BY <2>1, <2>2, <2>3 DEF ThreadTypes
<1>3. ~encoding /\ ~Restarting /\ at \notin {"fragment", "last", "trailer"}
  BY <1>1 DEF Restarting
<1>4. QED
  BY <1>2, <1>3 DEF ThreadInv, StreamsCount

LEMMA ThreadInvStep == ThreadInv /\ [SessionNext]_allVars => ThreadInv'
<1> SUFFICES ASSUME ThreadInv, [SessionNext]_allVars
             PROVE  ThreadInv'
  OBVIOUS
<1> USE DEF ThreadInv, ThreadTypes, StreamsCount, Places, Restarting
<1>1. MaxStreams \in Nat
  BY StreamAssumption
<1>2. CASE RestartStream
  BY <1>1, <1>2 DEF RestartStream, Encode!Restart
<1>3. CASE EncodeWorks
  <2>1. UNCHANGED stream
    BY <1>3 DEF EncodeWorks, historyVars
  <2>2. CASE Encode!Opens
    BY <2>1, <2>2 DEF Encode!Opens
  <2>3. CASE Encode!OpenFails
    BY <2>1, <2>3 DEF Encode!OpenFails
  <2>4. CASE Encode!Encodes
    BY <2>1, <2>4 DEF Encode!Encodes
  <2>5. CASE Encode!Swap
    BY <2>1, <2>5 DEF Encode!Swap
  <2>6. CASE Encode!Stops
    BY <2>1, <2>6 DEF Encode!Stops
  <2>7. QED
    BY <1>3, <2>2, <2>3, <2>4, <2>5, <2>6 DEF EncodeWorks
<1>4. CASE Announce
  BY <1>4 DEF Announce, Encode!Say, Encode!NewVideoSaid, Encode!VideoInitSaid
<1>5. CASE Produce
  BY <1>5 DEF Produce, Encode!Emit, Encode!InitEmitted, Encode!TrailerEmitted,
     Encode!FragmentEmitted, Encode!LastEmitted
<1>6. CASE UNCHANGED <<encodeVars, stream>>
  BY <1>6 DEF encodeVars
<1>7. QED
  BY <1>2, <1>3, <1>4, <1>5, <1>6
  DEF SessionNext, allVars, WriterWorks, ReceiveText, ReceiveBinary, BrowserWorks, historyVars

--------------------------------------------------------------------------------
(* What was handed over.  Parts come stream by stream but for a trailer,   *)
(* which follows the next stream's init segment; nothing of a stream comes *)
(* before its init segment.                                                *)
PartsInOrder ==
  /\ \A i \in 1 .. Len(binaries) : binaries[i].stream <= stream
  /\ at \in {"NewVideo", "open", "init"} =>
       \A i \in 1 .. Len(binaries) : binaries[i].stream < stream
  /\ \A i, j \in 1 .. Len(binaries) :
       binaries[i].what = "init" =>
         /\ binaries[j].stream = binaries[i].stream => i <= j
         /\ i < j /\ binaries[j].what \in {"init", "fragment"} =>
              binaries[i].stream <= binaries[j].stream

(* What a call of the encode thread adds to the history.                   *)
LEMMA Handed ==
  ASSUME ThreadInv, HistoryTypes, Produce
  PROVE  \E m \in BinaryMessage :
           /\ binaries' = Append(binaries, m) /\ pushed' = pushed + 1
           /\ m.what = at /\ m.stream = StreamOfPart
           /\ UNCHANGED <<stream, texts, accepted, lastSent, ctlSent, browserVars>>
           /\ at \in {"init", "trailer", "fragment", "last"}
           /\ at' \in {"VideoInit", "ready", "done"}
<1>1. /\ pushed' = pushed + 1
      /\ UNCHANGED <<stream, texts, accepted, lastSent, ctlSent, browserVars>>
  BY DEF Produce, SendVideo, controlVars, writerVars, frameVars
<1>2. /\ at \in {"init", "trailer", "fragment", "last"}
      /\ at' \in {"VideoInit", "ready", "done"}
  BY DEF Produce, Encode!Emit, Encode!InitEmitted, Encode!TrailerEmitted,
     Encode!FragmentEmitted, Encode!LastEmitted
<1>3. StreamOfPart \in 1 .. MaxStreams
  <2>1. at = "init" => Restarting
    BY DEF Restarting
  <2>2. at = "trailer" => stream >= 2
    BY DEF ThreadInv, StreamsCount
  <2>3. at # "trailer" => stream >= 1
    BY <1>2, <2>1 DEF ThreadInv, StreamsCount
  <2>4. stream \in 0 .. MaxStreams /\ MaxStreams \in Nat
    BY StreamAssumption DEF ThreadInv, ThreadTypes
  <2> HIDE DEF Restarting
  <2>5. QED
    BY <2>2, <2>3, <2>4 DEF StreamOfPart
<1>4. KeyOfPart \subseteq BOOLEAN
  BY DEF KeyOfPart
<1>5. PICK key \in KeyOfPart :
        binaries' = Append(binaries, [stream |-> StreamOfPart, what |-> at, key |-> key])
  BY DEF Produce
<1> DEFINE m == [stream |-> StreamOfPart, what |-> at, key |-> key]
<1>6. m \in BinaryMessage /\ m.what = at /\ m.stream = StreamOfPart
  <2>1. key \in BOOLEAN /\ at \in Parts
    BY <1>2, <1>4 DEF Parts
  <2>2. QED
    BY <1>3, <2>1 DEF BinaryMessage
<1>7. QED
  BY <1>1, <1>2, <1>5, <1>6

LEMMA Announced ==
  ASSUME ThreadInv, HistoryTypes, Announce
  PROVE  \E m \in Announcement :
           /\ texts' = Append(texts, m) /\ accepted' = accepted + 1
           /\ UNCHANGED <<stream, binaries, pushed, lastSent, ctlSent, browserVars>>
<1>1. /\ accepted' = accepted + 1
      /\ texts' = Append(texts, [stream |-> stream, what |-> at])
      /\ UNCHANGED <<stream, binaries, pushed, lastSent, ctlSent, browserVars>>
  BY DEF Announce, SendMessage, videoVars, writerVars, frameVars
<1>2. at \in {"NewVideo", "VideoInit"}
  BY DEF Announce, Encode!Say, Encode!NewVideoSaid, Encode!VideoInitSaid
<1>3. stream \in 1 .. MaxStreams
  BY <1>2 DEF ThreadInv, ThreadTypes, StreamsCount, Restarting
<1>4. [stream |-> stream, what |-> at] \in Announcement
  BY <1>2, <1>3 DEF Announcement
<1>5. QED
  BY <1>1, <1>4

(* Every other step leaves the history alone.                              *)
LEMMA HistorySteps ==
  ControlInv /\ StreamInv /\ [SessionNext]_allVars =>
    \/ Announce
    \/ Produce
    \/ UNCHANGED <<binaries, texts, pushed, accepted>>
<1> SUFFICES ASSUME ControlInv, StreamInv, [SessionNext]_allVars
             PROVE  \/ Announce
                    \/ Produce
                    \/ UNCHANGED <<binaries, texts, pushed, accepted>>
  OBVIOUS
<1>1. CASE WriterWorks
  BY <1>1, WriterKeeps DEF WriterWorks, historyVars
<1>2. CASE ReceiveText
  BY <1>2, ControlWritten DEF ReceiveText, historyVars
<1>3. CASE ReceiveBinary
  BY <1>3, FrameSent DEF ReceiveBinary, historyVars
<1>4. CASE UNCHANGED <<binaries, texts, transportVars>>
  BY <1>4 DEF transportVars, vars, videoVars, controlVars
<1>5. QED
  BY <1>1, <1>2, <1>3, <1>4
  DEF SessionNext, allVars, RestartStream, EncodeWorks, BrowserWorks, historyVars

HistoryInv == ThreadInv /\ HistoryTypes

LEMMA HistoryInvInit == SessionInit => HistoryInv
<1> SUFFICES ASSUME SessionInit
             PROVE  HistoryTypes
  BY ThreadInvInit DEF HistoryInv
<1>1. binaries = <<>> /\ texts = <<>> /\ pushed = 0 /\ accepted = 0
  BY DEF SessionInit, Init
<1>2. QED
  BY <1>1, EmptyFacts DEF HistoryTypes

LEMMA HistoryInvStep ==
  HistoryInv /\ ControlInv /\ StreamInv /\ [SessionNext]_allVars => HistoryInv'
<1> SUFFICES ASSUME HistoryInv, ControlInv, StreamInv, [SessionNext]_allVars
             PROVE  HistoryTypes'
  BY ThreadInvStep DEF HistoryInv
<1>1. ThreadInv /\ HistoryTypes
  BY DEF HistoryInv
<1>2. CASE Announce
  <2>1. PICK m \in Announcement :
          /\ texts' = Append(texts, m) /\ accepted' = accepted + 1
          /\ UNCHANGED <<stream, binaries, pushed, lastSent, ctlSent, browserVars>>
    BY <1>1, <1>2, Announced
  <2>2. texts' \in Seq(Announcement) /\ Len(texts') = Len(texts) + 1
    BY <1>1, <2>1, AppendProperties DEF HistoryTypes
  <2>3. QED
    BY <1>1, <2>1, <2>2 DEF HistoryTypes
<1>3. CASE Produce
  <2>1. PICK m \in BinaryMessage :
          /\ binaries' = Append(binaries, m) /\ pushed' = pushed + 1
          /\ UNCHANGED <<stream, texts, accepted, lastSent, ctlSent, browserVars>>
    BY <1>1, <1>3, Handed
  <2>2. binaries' \in Seq(BinaryMessage) /\ Len(binaries') = Len(binaries) + 1
    BY <1>1, <2>1, AppendProperties DEF HistoryTypes
  <2>3. QED
    BY <1>1, <2>1, <2>2 DEF HistoryTypes
<1>4. CASE UNCHANGED <<binaries, texts, pushed, accepted>>
  BY <1>1, <1>4 DEF HistoryTypes
<1>5. QED
  BY <1>2, <1>3, <1>4, HistorySteps
LEMMA PartsInOrderStep ==
  HistoryInv /\ PartsInOrder /\ ControlInv /\ StreamInv /\ [SessionNext]_allVars
    => PartsInOrder'
<1> SUFFICES ASSUME HistoryInv, PartsInOrder, ControlInv, StreamInv, [SessionNext]_allVars
             PROVE  PartsInOrder'
  OBVIOUS
<1> DEFINE n == Len(binaries)
<1>1. /\ ThreadInv /\ HistoryTypes
      /\ binaries \in Seq(BinaryMessage) /\ n \in Nat /\ DOMAIN binaries = 1 .. n
      /\ stream \in Nat
  BY LenProperties DEF HistoryInv, HistoryTypes, ThreadInv, ThreadTypes
<1>2. \A i \in 1 .. n : binaries[i].stream \in Nat
  <2>1. \A i \in 1 .. n : binaries[i] \in BinaryMessage
    BY <1>1, ElementOfSeq
  <2>2. \A m \in BinaryMessage : m.stream \in Nat
    BY DEF BinaryMessage
  <2>3. QED
    BY <2>1, <2>2
<1>3. CASE Produce
  <2>1. PICK m \in BinaryMessage :
          /\ binaries' = Append(binaries, m) /\ UNCHANGED stream
          /\ m.what = at /\ m.stream = StreamOfPart
          /\ at \in {"init", "trailer", "fragment", "last"}
          /\ at' \in {"VideoInit", "ready", "done"}
    BY <1>1, <1>3, Handed
  <2>2. m.stream \in Nat /\ m.stream <= stream
    BY <1>1, <2>1 DEF StreamOfPart, BinaryMessage
  <2>3. at \in {"init", "fragment"} => m.stream = stream
    BY <2>1 DEF StreamOfPart
  <2>4. at = "init" => \A i \in 1 .. n : binaries[i].stream < m.stream
    BY <2>3 DEF PartsInOrder
  <2>5. /\ Len(binaries') = n + 1
        /\ \A i \in 1 .. n : binaries'[i] = binaries[i]
        /\ binaries'[n + 1] = m
    BY <1>1, <2>1, AppendProperties
  <2> HIDE DEF n
  <2>6. \A i \in 1 .. n + 1 : i \in 1 .. n \/ i = n + 1
    BY <1>1
  <2>7. \A i \in 1 .. n + 1 : binaries'[i].stream <= stream'
    BY <2>1, <2>2, <2>5, <2>6 DEF PartsInOrder, n
  <2>8. ASSUME NEW i \in 1 .. n + 1, NEW j \in 1 .. n + 1, binaries'[i].what = "init"
        PROVE  /\ binaries'[j].stream = binaries'[i].stream => i <= j
               /\ i < j /\ binaries'[j].what \in {"init", "fragment"} =>
                    binaries'[i].stream <= binaries'[j].stream
    <3>1. CASE i = n + 1
      <4>1. m.what = "init" /\ at = "init"
        BY <2>1, <2>5, <2>8, <3>1
      <4>2. ~(i < j)
        BY <1>1, <3>1
      <4>3. j \in 1 .. n => binaries'[j].stream # binaries'[i].stream
        BY <1>2, <2>2, <2>4, <2>5, <3>1, <4>1
      <4>4. QED
        BY <1>1, <2>6, <3>1, <4>2, <4>3
    <3>2. CASE i \in 1 .. n /\ j = n + 1
      <4>1. i <= j
        BY <1>1, <3>2
      <4>2. binaries'[j].what \in {"init", "fragment"} => m.stream = stream
        BY <2>1, <2>3, <2>5, <3>2
      <4>3. binaries'[i].stream <= stream
        BY <2>1, <2>7
      <4>4. QED
        BY <2>5, <3>2, <4>1, <4>2, <4>3
    <3>3. CASE i \in 1 .. n /\ j \in 1 .. n
      BY <2>5, <2>8, <3>3 DEF PartsInOrder, n
    <3>4. QED
      BY <2>6, <3>1, <3>2, <3>3
  <2>9. QED
    BY <2>1, <2>5, <2>7, <2>8 DEF PartsInOrder
<1>4. CASE RestartStream
  <2>1. stream' = stream + 1 /\ UNCHANGED binaries
    BY <1>4 DEF RestartStream
  <2>2. \A i \in 1 .. n : binaries[i].stream < stream'
    BY <1>1, <1>2, <2>1 DEF PartsInOrder
  <2>3. \A i \in 1 .. n : binaries[i].stream <= stream'
    BY <1>1, <1>2, <2>1, <2>2
  <2>4. QED
    BY <2>1, <2>2, <2>3 DEF PartsInOrder
<1>5. CASE /\ UNCHANGED <<stream, binaries>>
           /\ at' \in {"NewVideo", "open", "init"} => at \in {"NewVideo", "open", "init"}
  BY <1>5 DEF PartsInOrder
<1>6. EncodeWorks \/ Announce =>
        /\ UNCHANGED <<stream, binaries>>
        /\ at' \in {"NewVideo", "open", "init"} => at \in {"NewVideo", "open", "init"}
  BY DEF EncodeWorks, Announce, historyVars, Encode!Opens, Encode!OpenFails, Encode!Swap,
     Encode!Encodes, Encode!Stops, Encode!Say, Encode!NewVideoSaid, Encode!VideoInitSaid
<1>7. QED
  BY <1>3, <1>4, <1>5, <1>6
  DEF SessionNext, allVars, WriterWorks, ReceiveText, ReceiveBinary, BrowserWorks, historyVars,
      encodeVars

--------------------------------------------------------------------------------
(* What has arrived: everything up to the last message sent, but for what  *)
(* the queue dropped.                                                      *)
ArrivesOrDropped ==
  /\ received \subseteq 1 .. lastSent
  /\ lastSent <= pushed
  /\ \A i \in 1 .. lastSent : i \in received \/ i + VideoCapacity <= pushed

LEMMA ArrivesOrDroppedStep ==
  ArrivesOrDropped /\ HistoryInv /\ ControlInv /\ StreamInv /\ [SessionNext]_allVars
    => ArrivesOrDropped'
<1> SUFFICES ASSUME ArrivesOrDropped, HistoryInv, ControlInv, StreamInv,
                    [SessionNext]_allVars
             PROVE  ArrivesOrDropped'
  OBVIOUS
<1>1. /\ pushed \in Nat /\ lastSent \in Nat /\ VideoCapacity \in Nat
      /\ ThreadInv /\ HistoryTypes
  BY DEF StreamInv, VideoInv, TypeInv, TypeOK, HistoryInv
<1>2. CASE Produce
  <2>1. pushed' = pushed + 1 /\ UNCHANGED <<lastSent, received>>
    BY <1>1, <1>2, Handed DEF browserVars
  <2>2. QED
    BY <1>1, <2>1 DEF ArrivesOrDropped
<1>3. CASE ReceiveBinary
  <2>1. /\ UNCHANGED pushed
        /\ lastSent' \in (lastSent + 1) .. pushed
        /\ \A i \in (lastSent + 1) .. (lastSent' - 1) : i + VideoCapacity <= pushed
        /\ received' = received \cup {lastSent'}
    BY <1>3, FrameSent DEF ReceiveBinary
  <2>2. \A i \in 1 .. lastSent' :
          i \in 1 .. lastSent \/ i \in (lastSent + 1) .. (lastSent' - 1) \/ i = lastSent'
    <3> DEFINE n == lastSent'
    <3>1. n \in Nat /\ lastSent \in Nat
      BY <1>1, <2>1
    <3> HIDE DEF n
    <3>2. \A i \in 1 .. n : i \in 1 .. lastSent \/ i \in (lastSent + 1) .. (n - 1) \/ i = n
      BY ONLY <3>1
    <3>3. QED
      BY <3>2 DEF n
  <2>3. received' \subseteq 1 .. lastSent' /\ lastSent' <= pushed'
    BY <1>1, <2>1 DEF ArrivesOrDropped
  <2>4. QED
    BY <2>1, <2>2, <2>3 DEF ArrivesOrDropped
<1>4. CASE UNCHANGED <<pushed, lastSent, received>>
  BY <1>4 DEF ArrivesOrDropped
<1>5. Announce => UNCHANGED <<pushed, lastSent, received>>
  BY <1>1, Announced DEF browserVars
<1>6. WriterWorks \/ ReceiveText => UNCHANGED <<pushed, lastSent, received>>
  BY WriterKeeps, ControlWritten DEF WriterWorks, ReceiveText, browserVars
<1>7. RestartStream \/ EncodeWorks \/ BrowserWorks \/ UNCHANGED allVars
        => UNCHANGED <<pushed, lastSent, received>>
  BY DEF RestartStream, EncodeWorks, BrowserWorks, allVars, transportVars, vars, videoVars,
     writerVars, frameVars, browserVars
<1>8. QED
  BY <1>2, <1>3, <1>4, <1>5, <1>6, <1>7 DEF SessionNext

(* A fragment lacks its init segment only if that was displaced.           *)
LEMMA OrderAndArrivals ==
  HistoryInv /\ StreamInv /\ PartsInOrder /\ ArrivesOrDropped => InitLostOnlyByDrop
<1> SUFFICES ASSUME HistoryInv, StreamInv, PartsInOrder, ArrivesOrDropped,
                    NEW j \in received, NEW i \in InitOf(binaries[j].stream)
             PROVE  i <= j /\ (i \in received \/ i + VideoCapacity <= pushed)
  BY DEF InitLostOnlyByDrop
<1>1. /\ pushed \in Nat /\ lastSent \in Nat /\ Len(binaries) = pushed
  BY DEF StreamInv, VideoInv, TypeInv, TypeOK, HistoryInv, HistoryTypes
<1>2. j \in 1 .. lastSent /\ j \in 1 .. Len(binaries)
  BY <1>1 DEF ArrivesOrDropped
<1>3. i \in 1 .. Len(binaries) /\ binaries[i].stream = binaries[j].stream
      /\ binaries[i].what = "init"
  BY DEF InitOf
<1>4. i <= j
  BY <1>2, <1>3 DEF PartsInOrder
<1>5. i \in 1 .. lastSent
  BY <1>1, <1>2, <1>3, <1>4
<1>6. QED
  BY <1>4, <1>5 DEF ArrivesOrDropped

--------------------------------------------------------------------------------
(* The player's types.                                                     *)
SourceType == [for : 0 .. MaxStreams, buffer : {"none", "open", "broken"},
               updating : BOOLEAN, inited : 0 .. MaxStreams]
PipeType   == [on : BOOLEAN, decoder : 0 .. MaxStreams, key : BOOLEAN,
               fed : 0 .. MaxStreams, offered : BOOLEAN]

LEMMA Appends ==
  ASSUME source \in SourceType, NEW m \in BinaryMessage
  PROVE  Browser!Appended(m) \in SourceType
<1>1. m.stream \in 0 .. MaxStreams
  BY StreamAssumption DEF BinaryMessage
<1>2. [source EXCEPT !.updating = TRUE, !.inited = m.stream] \in SourceType
  BY <1>1 DEF SourceType
<1>3. [source EXCEPT !.buffer = "broken", !.updating = FALSE] \in SourceType
  BY DEF SourceType
<1>4. [source EXCEPT !.updating = TRUE] \in SourceType
  BY DEF SourceType
<1>5. QED
  BY <1>2, <1>3, <1>4 DEF Browser!Appended

LEMMA Updates ==
  ASSUME source \in SourceType, NEW q \in Seq(BinaryMessage), NEW updating \in BOOLEAN,
         Browser!UpdBuf(q, updating)
  PROVE  source' \in SourceType /\ waiting' \in Seq(BinaryMessage)
<1>1. CASE q # <<>> /\ source' = Browser!Appended(Head(q)) /\ waiting' = Tail(q)
  BY <1>1, Appends, HeadTailFacts
<1>2. CASE source' = [source EXCEPT !.updating = updating] /\ waiting' = q
  BY <1>2 DEF SourceType
<1>3. QED
  BY <1>1, <1>2 DEF Browser!UpdBuf

LEMMA PlayerTypesInit == SessionInit => PlayerTypes
<1> SUFFICES ASSUME SessionInit
             PROVE  PlayerTypes
  OBVIOUS
<1>1. /\ source = Browser!NoSource /\ waiting = <<>> /\ codec = 0
      /\ probe = "undecided" /\ pipe = Browser!NoPipe
  BY DEF SessionInit, Browser!Init
<1>2. 0 \in 0 .. MaxStreams
  BY StreamAssumption
<1>3. QED
  BY <1>1, <1>2, EmptyFacts DEF PlayerTypes, Browser!NoSource, Browser!NoPipe

(* What the browser is told by a message, or does by itself.               *)
LEMMA NewVideoTypes ==
  ASSUME PlayerTypes, NEW s \in 1 .. MaxStreams, Browser!NewVideo(s)
  PROVE  PlayerTypes'
<1>1. s \in 0 .. MaxStreams /\ 0 \in 0 .. MaxStreams
  BY StreamAssumption
<1>2. UNCHANGED <<codec, probe>>
  BY DEF Browser!NewVideo
<1>3. CASE pipe.on
  <2>1. pipe' = [pipe EXCEPT !.key = FALSE] /\ UNCHANGED <<source, waiting>>
    BY <1>3 DEF Browser!NewVideo
  <2>2. QED
    BY <1>2, <2>1 DEF PlayerTypes
<1>4. CASE ~pipe.on
  <2>1. /\ source' = [Browser!NoSource EXCEPT !.for = s] /\ waiting' = <<>>
        /\ UNCHANGED pipe
    BY <1>4 DEF Browser!NewVideo
  <2>2. source' \in SourceType
    BY <1>1, <2>1 DEF SourceType, Browser!NoSource
  <2>3. QED
    BY <1>2, <2>1, <2>2, EmptyFacts DEF PlayerTypes, SourceType
<1>5. QED
  BY <1>3, <1>4

LEMMA VideoInitTypes ==
  ASSUME PlayerTypes, NEW s \in 1 .. MaxStreams, Browser!VideoInit(s)
  PROVE  PlayerTypes'
<1>1. s \in 0 .. MaxStreams
  BY StreamAssumption
<1>2. codec' = s /\ probe' \in {"probing", probe} /\ UNCHANGED <<source, waiting, pipe>>
  BY DEF Browser!VideoInit
<1>3. QED
  BY <1>1, <1>2 DEF PlayerTypes

LEMMA BinaryTypes ==
  ASSUME PlayerTypes, NEW m \in BinaryMessage, Browser!Binary(m)
  PROVE  PlayerTypes'
<1>1. UNCHANGED <<codec, probe>>
  BY DEF Browser!Binary
<1>2. m.stream \in 0 .. MaxStreams /\ 0 \in 0 .. MaxStreams /\ m.key \in BOOLEAN
  BY StreamAssumption DEF BinaryMessage
<1>3. pipe \in PipeType /\ source \in SourceType /\ waiting \in Seq(BinaryMessage)
  BY DEF PlayerTypes, PipeType, SourceType
<1>4. CASE pipe.on
  <2>1. Browser!Feed(m) /\ UNCHANGED <<source, waiting>>
    BY <1>4 DEF Browser!Binary
  <2>2. [pipe EXCEPT !.decoder = m.stream, !.key = FALSE, !.fed = 0] \in PipeType
    BY <1>2, <1>3 DEF PipeType
  <2>3. Browser!FedChunk(m) \in PipeType
    <3>1. pipe.offered \/ m.key \in BOOLEAN
      BY <1>2, <1>3 DEF PipeType
    <3>2. [pipe EXCEPT !.key = TRUE, !.fed = m.stream, !.offered = pipe.offered \/ m.key]
            \in PipeType
      BY <1>2, <1>3, <3>1 DEF PipeType
    <3>3. [pipe EXCEPT !.offered = pipe.offered \/ m.key] \in PipeType
      BY <1>3, <3>1 DEF PipeType
    <3>4. QED
      BY <3>2, <3>3 DEF Browser!FedChunk
  <2>4. pipe' \in PipeType
    BY <2>1, <2>2, <2>3 DEF Browser!Feed
  <2>5. QED
    BY <1>1, <2>1, <2>4 DEF PlayerTypes, PipeType
<1>5. CASE ~pipe.on
  <2>1. Browser!UpdBuf(Append(waiting, m), source.updating) /\ UNCHANGED pipe
    BY <1>5 DEF Browser!Binary
  <2>2. Append(waiting, m) \in Seq(BinaryMessage) /\ source.updating \in BOOLEAN
    BY <1>3, AppendProperties DEF SourceType
  <2>3. source' \in SourceType /\ waiting' \in Seq(BinaryMessage)
    BY <1>3, <2>1, <2>2, Updates
  <2>4. QED
    BY <1>1, <2>1, <2>3 DEF PlayerTypes, SourceType
<1>6. QED
  BY <1>4, <1>5

LEMMA InternalTypes ==
  ASSUME PlayerTypes, Browser!Internal
  PROVE  PlayerTypes'
<1>1. pipe \in PipeType /\ source \in SourceType /\ waiting \in Seq(BinaryMessage)
  BY DEF PlayerTypes, PipeType, SourceType
<1>2. 0 \in 0 .. MaxStreams
  BY StreamAssumption
<1>3. CASE Browser!SourceOpens
  BY <1>3 DEF Browser!SourceOpens, PlayerTypes
<1>4. CASE Browser!UpdateEnd
  <2>1. source' \in SourceType /\ waiting' \in Seq(BinaryMessage)
    BY <1>1, <1>4, Updates DEF Browser!UpdateEnd
  <2>2. QED
    BY <1>4, <2>1 DEF Browser!UpdateEnd, PlayerTypes, SourceType
<1>5. CASE Browser!ProbeSucceeds \/ Browser!DecoderFails
  <2>1. pipe' \in PipeType
    <3>1. Browser!NoPipe \in PipeType /\ [Browser!NoPipe EXCEPT !.on = TRUE] \in PipeType
      BY <1>2 DEF Browser!NoPipe, PipeType
    <3>2. QED
      BY <1>5, <3>1 DEF Browser!ProbeSucceeds, Browser!DecoderFails
  <2>2. probe' \in {"undecided", "probing", "decided"} /\ UNCHANGED <<source, waiting, codec>>
    BY <1>5 DEF Browser!ProbeSucceeds, Browser!DecoderFails, PlayerTypes
  <2>3. QED
    BY <2>1, <2>2 DEF PlayerTypes, PipeType
<1>6. CASE Browser!ProbeFails
  BY <1>6 DEF Browser!ProbeFails, PlayerTypes
<1>7. QED
  BY <1>3, <1>4, <1>5, <1>6 DEF Browser!Internal
(* The message that arrives is known for what it was.                      *)
LEMMA TextReceived ==
  ASSUME HistoryInv, ControlInv, ReceiveText
  PROVE  \E m \in Announcement :
           /\ Browser!NewVideo(m.stream) \/ Browser!VideoInit(m.stream)
           /\ UNCHANGED <<pushed, lastSent, encodeVars, historyVars, received>>
<1>1. ctlSent' \in 1 .. accepted /\ UNCHANGED <<pushed, lastSent>>
  BY ControlWritten DEF ReceiveText
<1>2. texts \in Seq(Announcement) /\ Len(texts) = accepted
  BY DEF HistoryInv, HistoryTypes
<1>3. texts[ctlSent'] \in Announcement
  BY <1>1, <1>2, ElementOfSeq
<1>4. QED
  BY <1>1, <1>3 DEF ReceiveText

LEMMA BinaryReceived ==
  ASSUME HistoryInv, StreamInv, ReceiveBinary
  PROVE  /\ binaries[lastSent'] \in BinaryMessage
         /\ Browser!Binary(binaries[lastSent'])
         /\ received' = received \cup {lastSent'}
         /\ lastSent' \in (lastSent + 1) .. pushed
         /\ UNCHANGED <<pushed, encodeVars, historyVars>>
<1>1. /\ lastSent' \in (lastSent + 1) .. pushed /\ UNCHANGED pushed
      /\ lastSent \in Nat /\ pushed \in Nat
  BY FrameSent DEF ReceiveBinary, StreamInv, VideoInv, TypeInv, TypeOK
<1>2. lastSent' \in 1 .. pushed
  BY <1>1
<1>3. binaries \in Seq(BinaryMessage) /\ Len(binaries) = pushed
  BY DEF HistoryInv, HistoryTypes
<1>4. binaries[lastSent'] \in BinaryMessage
  BY <1>2, <1>3, ElementOfSeq
<1>5. QED
  BY <1>1, <1>4 DEF ReceiveBinary

LEMMA PlayerTypesStep ==
  PlayerTypes /\ HistoryInv /\ ControlInv /\ StreamInv /\ [SessionNext]_allVars
    => PlayerTypes'
<1> SUFFICES ASSUME PlayerTypes, HistoryInv, ControlInv, StreamInv, [SessionNext]_allVars
             PROVE  PlayerTypes'
  OBVIOUS
<1>1. CASE ReceiveText
  <2>1. PICK m \in Announcement : Browser!NewVideo(m.stream) \/ Browser!VideoInit(m.stream)
    BY <1>1, TextReceived
  <2>2. m.stream \in 1 .. MaxStreams
    BY DEF Announcement
  <2>3. QED
    BY <2>1, <2>2, NewVideoTypes, VideoInitTypes
<1>2. CASE ReceiveBinary
  BY <1>2, BinaryReceived, BinaryTypes
<1>3. CASE BrowserWorks
  BY <1>3, InternalTypes DEF BrowserWorks
<1>4. CASE UNCHANGED playerVars
  BY <1>4 DEF PlayerTypes, playerVars
<1>5. QED
  BY <1>1, <1>2, <1>3, <1>4
  DEF SessionNext, allVars, RestartStream, EncodeWorks, Announce, Produce, WriterWorks,
      browserVars

--------------------------------------------------------------------------------
(* The WebCodecs decoder.  It was configured by the last init segment that *)
(* has arrived, and what it was fed since has arrived since.               *)
Is(i, what, s) == binaries[i].what = what /\ binaries[i].stream = s

ConfiguredBy(i) ==
  /\ Is(i, "init", pipe.decoder)
  /\ \A k \in received : binaries[k].what = "init" => k <= i
  /\ pipe.fed # 0 => \E j \in received : i < j /\ Is(j, "fragment", pipe.fed)

DecoderFromInit ==
  /\ pipe.decoder # 0 => pipe.on /\ \E i \in received : ConfiguredBy(i)
  /\ pipe.decoder = 0 => pipe.fed = 0

LEMMA DecoderFromInitStep ==
  DecoderFromInit /\ PlayerTypes /\ HistoryInv /\ ArrivesOrDropped /\ ControlInv
    /\ StreamInv /\ [SessionNext]_allVars => DecoderFromInit'
<1> SUFFICES ASSUME DecoderFromInit, PlayerTypes, HistoryInv, ArrivesOrDropped,
                    ControlInv, StreamInv, [SessionNext]_allVars
             PROVE  DecoderFromInit'
  OBVIOUS
<1>1. /\ pipe \in PipeType /\ received \subseteq 1 .. lastSent
      /\ lastSent \in Nat /\ pushed \in Nat /\ lastSent <= pushed
      /\ Len(binaries) = pushed /\ ThreadInv /\ HistoryTypes
  BY DEF PlayerTypes, PipeType, ArrivesOrDropped, StreamInv, VideoInv, TypeInv, TypeOK,
     HistoryInv, HistoryTypes
<1>2. CASE Produce
  <2>1. PICK m \in BinaryMessage :
          binaries' = Append(binaries, m) /\ UNCHANGED <<pipe, received>>
    BY <1>1, <1>2, Handed DEF browserVars, playerVars
  <2>2. \A k \in received : binaries'[k] = binaries[k]
    <3>1. binaries \in Seq(BinaryMessage)
      BY <1>1 DEF HistoryTypes
    <3>2. \A k \in 1 .. Len(binaries) : Append(binaries, m)[k] = binaries[k]
      BY <3>1, AppendProperties
    <3>3. received \subseteq 1 .. Len(binaries)
      BY <1>1
    <3>4. QED
      BY <2>1, <3>2, <3>3
  <2>3. \A k \in received : ConfiguredBy(k) => ConfiguredBy(k)'
    BY <2>1, <2>2 DEF ConfiguredBy, Is
  <2>4. QED
    BY <2>1, <2>3 DEF DecoderFromInit
<1>3. CASE ReceiveBinary
  <2>0. PICK l \in Nat : l = lastSent'
    BY <1>1, <1>3, BinaryReceived
  <2> DEFINE m == binaries[l]
  <2>1. /\ m \in BinaryMessage /\ Browser!Binary(m)
        /\ received' = received \cup {l} /\ UNCHANGED binaries
        /\ l \in (lastSent + 1) .. pushed
    BY <1>3, <2>0, BinaryReceived DEF historyVars
  <2>2. \A k \in received : k < l
    BY <1>1, <2>1
  <2>3. l \in Nat /\ l \in received'
    BY <1>1, <2>1
  <2>4. CASE ~pipe.on
    <3>1. UNCHANGED pipe /\ pipe.decoder = 0
      BY <2>1, <2>4 DEF Browser!Binary, DecoderFromInit
    <3>2. QED
      BY <3>1 DEF DecoderFromInit
  <2>5. CASE pipe.on /\ m.what = "init"
    <3>1. pipe' = [pipe EXCEPT !.decoder = m.stream, !.key = FALSE, !.fed = 0]
      BY <2>1, <2>5 DEF Browser!Binary, Browser!Feed
    <3>2. pipe'.decoder = m.stream /\ pipe'.on /\ pipe'.fed = 0
      BY <1>1, <2>5, <3>1 DEF PipeType
    <3>3. \A k \in received' : k <= l
      <4>1. \A k \in received : k \in Nat
        BY <1>1
      <4>2. QED
        BY <2>1, <2>2, <2>3, <4>1
    <3>4. ConfiguredBy(l)'
      BY <2>1, <2>5, <3>2, <3>3 DEF ConfiguredBy, Is
    <3>5. QED
      BY <2>3, <3>2, <3>4 DEF DecoderFromInit
  <2>6. CASE pipe.on /\ m.what # "init"
    <3>1. pipe' = Browser!FedChunk(m)
      BY <2>1, <2>6 DEF Browser!Binary, Browser!Feed
    <3>2. /\ pipe'.decoder = pipe.decoder /\ pipe'.on
          /\ \/ pipe'.fed = pipe.fed
             \/ pipe'.fed = m.stream /\ m.what = "fragment" /\ pipe.decoder # 0
      BY <1>1, <2>6, <3>1 DEF Browser!FedChunk, Browser!Decodes, PipeType
    <3>3. ASSUME NEW i \in received, ConfiguredBy(i)
          PROVE  ConfiguredBy(i)'
      <4>1. Is(i, "init", pipe.decoder)'
        BY <2>1, <3>2, <3>3 DEF ConfiguredBy, Is
      <4>2. \A k \in received' : binaries'[k].what = "init" => k <= i
        BY <2>1, <2>6, <3>3 DEF ConfiguredBy
      <4>3. pipe'.fed # 0 =>
              \E j \in received' : i < j /\ binaries'[j].what = "fragment"
                                    /\ binaries'[j].stream = pipe'.fed
        <5>1. CASE pipe'.fed = pipe.fed
          BY <2>1, <3>3, <5>1 DEF ConfiguredBy, Is
        <5>2. CASE pipe'.fed = m.stream /\ m.what = "fragment"
          BY <2>1, <2>2, <2>3, <3>3, <5>2
        <5>3. QED
          BY <3>2, <5>1, <5>2
      <4>4. QED
        BY <4>1, <4>2, <4>3 DEF ConfiguredBy, Is
    <3>4. QED
      BY <2>1, <3>2, <3>3 DEF DecoderFromInit
  <2>7. QED
    BY <2>4, <2>5, <2>6
<1>4. CASE /\ UNCHANGED <<binaries, received>>
           /\ \/ pipe' = Browser!NoPipe
              \/ pipe' = [Browser!NoPipe EXCEPT !.on = TRUE]
  <2>1. pipe'.decoder = 0 /\ pipe'.fed = 0
    BY <1>4 DEF Browser!NoPipe
  <2>2. QED
    BY <2>1 DEF DecoderFromInit
<1>5. CASE /\ UNCHANGED <<binaries, received>>
           /\ pipe' = pipe \/ pipe' = [pipe EXCEPT !.key = FALSE]
  <2>1. pipe'.decoder = pipe.decoder /\ pipe'.fed = pipe.fed /\ pipe'.on = pipe.on
    BY <1>1, <1>5 DEF PipeType
  <2>2. QED
    BY <1>5, <2>1 DEF DecoderFromInit, ConfiguredBy, Is
<1>6. CASE ReceiveText
  <2>1. UNCHANGED <<binaries, received>>
    BY <1>6 DEF ReceiveText, historyVars
  <2>2. PICK s : Browser!NewVideo(s) \/ Browser!VideoInit(s)
    BY <1>6, TextReceived
  <2>3. QED
    BY <1>5, <2>1, <2>2 DEF Browser!NewVideo, Browser!VideoInit
<1>7. CASE BrowserWorks
  BY <1>4, <1>5, <1>7 DEF BrowserWorks, historyVars, Browser!Internal, Browser!SourceOpens,
     Browser!UpdateEnd, Browser!ProbeSucceeds, Browser!ProbeFails, Browser!DecoderFails
<1>8. RestartStream \/ EncodeWorks \/ WriterWorks \/ Announce \/ UNCHANGED allVars
        => UNCHANGED <<binaries, received, pipe>>
  BY DEF RestartStream, EncodeWorks, WriterWorks, Announce, allVars, historyVars, browserVars,
     playerVars
<1>9. QED
  BY <1>2, <1>3, <1>5, <1>6, <1>7, <1>8 DEF SessionNext
--------------------------------------------------------------------------------
(* The inductive invariant of the session, beside the transport's.         *)
SessionInv ==
  /\ StreamInv /\ ControlInv
  /\ HistoryInv /\ PartsInOrder /\ ArrivesOrDropped
  /\ PlayerTypes /\ DecoderFromInit

LEMMA SessionInvInit == SessionInit => SessionInv
<1> SUFFICES ASSUME SessionInit
             PROVE  SessionInv
  OBVIOUS
<1>1. Init
  BY DEF SessionInit
<1>2. StreamInv
  BY <1>1, StreamInvInit
<1>3. ControlInv
  <2>1. Len(<<>>) = 0
    BY EmptyFacts
  <2>2. QED
    BY <1>1, <2>1, TypeInvInit DEF Init, ControlInv, ControlOwed, InHand
<1>4. PartsInOrder
  <2>1. binaries = <<>> /\ Len(<<>>) = 0
    BY EmptyFacts DEF SessionInit
  <2>2. QED
    BY <2>1 DEF PartsInOrder
<1>5. ArrivesOrDropped
  BY <1>1 DEF SessionInit, Init, ArrivesOrDropped
<1>6. DecoderFromInit
  <2>1. pipe.decoder = 0 /\ pipe.fed = 0
    BY DEF SessionInit, Browser!Init, Browser!NoPipe
  <2>2. QED
    BY <2>1 DEF DecoderFromInit
<1>7. QED
  BY <1>2, <1>3, <1>4, <1>5, <1>6, HistoryInvInit, PlayerTypesInit DEF SessionInv

LEMMA SessionInvStep == SessionInv /\ [SessionNext]_allVars => SessionInv'
<1> SUFFICES ASSUME SessionInv, [SessionNext]_allVars
             PROVE  SessionInv'
  OBVIOUS
<1>1. [Next]_vars
  BY SessionStepIsTransportStep DEF SessionInv, ControlInv
<1>2. StreamInv' /\ ControlInv'
  BY <1>1, StreamInvStep, ControlInvStep DEF SessionInv
<1>3. HistoryInv' /\ PartsInOrder'
  BY HistoryInvStep, PartsInOrderStep DEF SessionInv
<1>4. ArrivesOrDropped' /\ DecoderFromInit'
  BY ArrivesOrDroppedStep, DecoderFromInitStep DEF SessionInv
<1>5. PlayerTypes'
  BY PlayerTypesStep DEF SessionInv
<1>6. QED
  BY <1>2, <1>3, <1>4, <1>5 DEF SessionInv

LEMMA SessionInvariant == SessionSpec => []SessionInv
  BY SessionInvInit, SessionInvStep, PTL DEF SessionSpec

(* The history knows every message that was handed over, and the player's  *)
(* state is always of its type (SessionTypeOK; handle_messages).           *)
THEOREM SessionTypeCorrect == SessionSpec => []SessionTypeOK
<1>1. ASSUME SessionInv
      PROVE  SessionTypeOK
  <2>1. stream \in 0 .. MaxStreams
    BY <1>1 DEF SessionInv, HistoryInv, ThreadInv, ThreadTypes
  <2>2. /\ Len(binaries) = pushed /\ Len(texts) = accepted
        /\ binaries \in Seq(BinaryMessage)
    BY <1>1 DEF SessionInv, HistoryInv, HistoryTypes
  <2>3. \A i \in 1 .. Len(binaries) :
          binaries[i] \in [stream : 1 .. MaxStreams, what : Parts, key : BOOLEAN]
    BY <2>2, ElementOfSeq DEF BinaryMessage
  <2>4. /\ {source.for, source.inited, codec, pipe.decoder, pipe.fed} \subseteq 0 .. MaxStreams
        /\ source.buffer \in {"none", "open", "broken"}
        /\ probe \in {"undecided", "probing", "decided"}
    BY <1>1 DEF SessionInv, PlayerTypes
  <2>5. received \subseteq 1 .. pushed
    <3>1. pushed \in Nat /\ lastSent \in Nat
      BY <1>1 DEF SessionInv, ControlInv, TypeInv, TypeOK
    <3>2. QED
      BY <1>1, <3>1 DEF SessionInv, ArrivesOrDropped
  <2>6. QED
    BY <2>1, <2>2, <2>3, <2>4, <2>5 DEF SessionTypeOK
<1>2. QED
  BY <1>1, SessionInvariant, PTL

(* A fragment meets the browser without its stream's init segment only     *)
(* when VideoQueue has displaced that segment (InitLostOnlyByDrop): the    *)
(* thread hands it over first (VideoEncoder::open_video), and the writer   *)
(* skips only what LiveStream lets it skip (VideoQueue::push).             *)
THEOREM InitsAreLostOnlyByDrop == SessionSpec => []InitLostOnlyByDrop
<1>1. SessionInv => InitLostOnlyByDrop
  BY OrderAndArrivals DEF SessionInv
<1>2. QED
  BY <1>1, SessionInvariant, PTL

(* A WebCodecs decoder is fed another stream than its own only when        *)
(* VideoQueue has displaced that stream's init segment                     *)
(* (DecoderFedItsStream; feed, NewVideo and the probe in handle_messages). *)
THEOREM DecodersAreFedTheirStream == SessionSpec => []DecoderFedItsStream
<1>1. ASSUME SessionInv, pipe.fed # 0, pipe.fed # pipe.decoder, NEW k \in InitOf(pipe.fed)
      PROVE  k \notin received /\ k + VideoCapacity <= pushed
  <2>1. PICK i \in received : ConfiguredBy(i)
    BY <1>1 DEF SessionInv, DecoderFromInit
  <2>2. PICK j \in received : i < j /\ Is(j, "fragment", pipe.fed)
    BY <1>1, <2>1 DEF ConfiguredBy
  <2>3. k \in received \/ k + VideoCapacity <= pushed
    BY <1>1, <2>2, OrderAndArrivals DEF SessionInv, InitLostOnlyByDrop, Is
  <2>4. ASSUME k \in received
        PROVE  FALSE
    <3>1. /\ received \subseteq 1 .. Len(binaries)
          /\ binaries \in Seq(BinaryMessage)
      <4>1. pushed \in Nat /\ lastSent \in Nat
        BY <1>1 DEF SessionInv, ControlInv, TypeInv, TypeOK
      <4>2. QED
        BY <1>1, <4>1 DEF SessionInv, ArrivesOrDropped, HistoryInv, HistoryTypes
    <3>2. Is(k, "init", pipe.fed) /\ Is(i, "init", pipe.decoder) /\ k <= i
      BY <2>1, <2>4 DEF InitOf, Is, ConfiguredBy
    <3>3. k # i
      BY <1>1, <3>2 DEF Is
    <3>4. k < i /\ i < j
      BY <2>2, <3>1, <3>2, <3>3, <2>4
    <3>5. pipe.fed <= pipe.decoder
      BY <1>1, <2>4, <3>1, <3>2, <3>4 DEF SessionInv, PartsInOrder, Is
    <3>6. pipe.decoder <= pipe.fed
      BY <1>1, <2>2, <3>1, <3>2, <3>4 DEF SessionInv, PartsInOrder, Is
    <3>7. pipe.fed \in Nat /\ pipe.decoder \in Nat
      BY <1>1 DEF SessionInv, PlayerTypes
    <3>8. QED
      BY <1>1, <3>5, <3>6, <3>7
  <2>5. QED
    BY <2>3, <2>4
<1>2. SessionInv => DecoderFedItsStream
  BY <1>1 DEF DecoderFedItsStream
<1>3. QED
  BY <1>2, SessionInvariant, PTL

(* The viewer of a session, too, is shown ever newer frames, and misses    *)
(* one only when VideoCapacity newer ones exist (StreamRefines).           *)
THEOREM SessionImplementsLiveStream == SessionSpec => StreamRefines
  BY SessionUsesTransport, ImplementsLiveStream, PTL
================================================================================
