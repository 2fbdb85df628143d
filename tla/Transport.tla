------------------------------- MODULE Transport -------------------------------
(***************************************************************************)
(* crates/rylus-transport/src/websocket.rs: the two tokio tasks that carry *)
(* one client's WebSocket, and the queues between them and the threads of  *)
(* the session.                                                            *)
(*                                                                         *)
(*   session threads --push-->  VideoQueue (drop-oldest)  --\              *)
(*   session threads --send-->  control channel (bounded)  ---> writer     *)
(*   handler thread  <--recv--  inbound channel (bounded)  <--- reader     *)
(*                                                                         *)
(* The writer waits on a tokio Notify, which remembers at most one         *)
(* notification, and on the control channel.  The reader waits on the      *)
(* socket, on the shutdown semaphore and on the idle timer.                *)
(*                                                                         *)
(* Frames and messages are their numbers in the order they were queued.    *)
(***************************************************************************)
EXTENDS Naturals, Sequences, FiniteSets

CONSTANTS
  Senders,        \* the clones of WsRylusSender held by session threads
  VideoCapacity,  \* VIDEO_QUEUE_CAPACITY
  ChannelSize,    \* CHANNEL_BUFFER_SIZE, of both channels
  MaxFrames,      \* bound: frames pushed in a behaviour
  MaxControl,     \* bound: control messages sent in a behaviour
  MaxIncoming     \* bound: WebSocket messages the peer sends in a behaviour

ASSUME TransportAssumption ==
  /\ VideoCapacity \in Nat \ {0}
  /\ ChannelSize \in Nat \ {0}
  /\ MaxFrames \in Nat
  /\ MaxControl \in Nat
  /\ MaxIncoming \in Nat

VARIABLES
  queue,      \* VideoQueue.inner
  dropped,    \* VideoQueue.dropped
  closed,     \* VideoQueue.closed
  permit,     \* VideoQueue.notify holds a notification nobody has taken
  pushed,     \* frames pushed so far; the newest frame's number
  control,    \* sender_outbound -> receiver_outbound
  accepted,   \* control messages the channel has taken so far
  senders,    \* the clones of WsRylusSender not yet dropped
  wpc,        \* where the writer task is
  batch,      \* frames drained by the writer and not sent yet
  held,       \* the control message the writer is sending (0: none)
  sent,       \* frames sent so far
  lastSent,   \* number of the last frame sent
  ctlSent,    \* number of the last control message sent
  rpc,        \* where the reader task is
  incoming,   \* WebSocket messages the peer sent and the reader has not read
  arrived,    \* how many the peer has sent so far
  parsed,     \* protocol messages the reader has parsed so far
  inbound,    \* sender_inbound -> receiver_inbound
  consumed,   \* number of the last message taken by the handler
  receiver,   \* WsRylusReceiver is alive
  peer,       \* "up", or "gone" once reads and writes fail
  shutdown    \* the shutdown semaphore has permits

videoVars   == <<queue, dropped, closed, permit, pushed>>
controlVars == <<control, accepted, senders>>
frameVars   == <<batch, sent, lastSent>>
writerVars  == <<wpc, frameVars, held, ctlSent>>
readerVars  == <<rpc, incoming, arrived, parsed>>
inboundVars == <<inbound, consumed, receiver>>
envVars     == <<peer, shutdown>>
vars == <<videoVars, controlVars, writerVars, readerVars, inboundVars, envVars>>

(* What the peer may send: a protocol message that parses, a WebSocket     *)
(* message the reader ignores (oversized or unparsable text, binary, ping, *)
(* pong) or a close frame.                                                 *)
Kinds == {"proto", "ignored", "close"}

WriterStates == {"drain", "frames", "select", "check", "recv", "write", "done"}
ReaderStates == {"select", "wait", "forward", "closing", "done"}

Init ==
  /\ queue = <<>> /\ dropped = 0 /\ closed = FALSE /\ permit = FALSE
  /\ pushed = 0
  /\ control = <<>> /\ accepted = 0 /\ senders = Senders
  /\ wpc = "drain" /\ batch = <<>> /\ held = 0
  /\ sent = 0 /\ lastSent = 0 /\ ctlSent = 0
  /\ rpc = "select" /\ incoming = <<>> /\ arrived = 0 /\ parsed = 0
  /\ inbound = <<>> /\ consumed = 0 /\ receiver = TRUE
  /\ peer = "up" /\ shutdown = FALSE

--------------------------------------------------------------------------------
(* VideoQueue and the senders.                                             *)

(* A plausible slip: the queue is let grow one frame past its capacity.    *)
EvictedLate(q) == IF Len(q) > VideoCapacity THEN Len(q) - VideoCapacity ELSE 0

(* Frames evicted by the while loop of push before it appends.             *)
Evicted(q) == IF Len(q) >= VideoCapacity THEN Len(q) - VideoCapacity + 1 ELSE 0

(* A plausible slip: a full queue makes room at the wrong end.             *)
EnqueuedDropNewest(q, f) == Append(SubSeq(q, 1, Len(q) - Evicted(q)), f)

Enqueued(q, f) == Append(SubSeq(q, Evicted(q) + 1, Len(q)), f)

(* A plausible slip: Notify::notify_waiters, which only reaches a task     *)
(* that is already waiting.                                                *)
NotifyWaiters == permit' = (permit \/ wpc = "recv")

(* Notify::notify_one: the notification is kept until it is taken.         *)
NotifyOne == permit' = TRUE

(* WsRylusSender::send_video, from any thread that holds a clone: never    *)
(* blocks, even after the writer has gone.                                 *)
SendVideo(s) ==
  /\ s \in senders
  /\ pushed < MaxFrames
  /\ pushed' = pushed + 1
  /\ queue' = Enqueued(queue, pushed + 1)
  /\ dropped' = dropped + Evicted(queue)
  /\ NotifyOne
  /\ UNCHANGED <<controlVars, writerVars, readerVars, inboundVars, envVars,
                 closed>>

ControlRoom == Len(control) < ChannelSize

(* WsRylusSender::send_message: blocking_send waits for room; when the     *)
(* writer has dropped its end it returns an error and nothing changes.     *)
SendMessage(s) ==
  /\ s \in senders
  /\ accepted < MaxControl
  /\ wpc # "done"
  /\ ControlRoom
  /\ accepted' = accepted + 1
  /\ control' = Append(control, accepted + 1)
  /\ UNCHANGED <<videoVars, writerVars, readerVars, inboundVars, envVars,
                 senders>>

(* A session thread ends and drops its clone of the sender.                *)
DropSender(s) ==
  /\ s \in senders
  /\ senders' = senders \ {s}
  /\ UNCHANGED <<videoVars, writerVars, readerVars, inboundVars, envVars,
                 control, accepted>>

--------------------------------------------------------------------------------
(* The writer task.                                                        *)

(* The task returns: its end of the control channel goes with it.          *)
WriterReturns == wpc' = "done" /\ control' = <<>> /\ held' = 0

(* write_video.drain() at the head of the loop.                            *)
WriterDrain ==
  /\ wpc = "drain"
  /\ batch' = queue
  /\ queue' = <<>>
  /\ wpc' = IF queue # <<>> THEN "frames" ELSE "select"
  /\ UNCHANGED <<controlVars, readerVars, inboundVars, envVars, dropped, closed,
                 permit, pushed, held, sent, lastSent, ctlSent>>

(* One write.send(Binary) of the for loop; after the last one the loop     *)
(* starts again at the drain.                                              *)
WriterSendFrame ==
  /\ wpc = "frames"
  /\ peer = "up"
  /\ lastSent' = Head(batch)
  /\ sent' = sent + 1
  /\ batch' = Tail(batch)
  /\ wpc' = IF Len(batch) > 1 THEN "frames" ELSE "drain"
  /\ UNCHANGED <<videoVars, controlVars, readerVars, inboundVars, envVars, held,
                 ctlSent>>

(* A plausible slip: a level-triggered flag that nobody clears.            *)
PermitLeft == UNCHANGED permit

PermitTaken == permit' = FALSE

(* The select polls the Notify first (biased).                             *)
WriterNotified ==
  /\ wpc = "select"
  /\ permit
  /\ PermitTaken
  /\ wpc' = "check"
  /\ UNCHANGED <<controlVars, frameVars, readerVars, inboundVars, envVars,
                 queue, dropped, closed, pushed, held, ctlSent>>

(* A plausible slip: the check forgets the frames still queued.            *)
CheckReturnsUnlessOpen == closed

(* After a notification: return if closed and nothing is queued, else loop.*)
CheckReturns == closed /\ queue = <<>>

WriterCheck ==
  /\ wpc = "check"
  /\ \/ CheckReturns /\ WriterReturns
     \/ ~CheckReturns /\ wpc' = "drain" /\ UNCHANGED <<control, held>>
  /\ UNCHANGED <<videoVars, frameVars, readerVars, inboundVars, envVars,
                 accepted, senders, ctlSent>>

(* No notification: the select goes on to poll the control channel.        *)
WriterPollRecv ==
  /\ wpc = "select"
  /\ ~permit
  /\ wpc' = "recv"
  /\ UNCHANGED <<videoVars, controlVars, frameVars, readerVars, inboundVars,
                 envVars, held, ctlSent>>

(* A plausible slip: a receive that is not cancel safe loses the message   *)
(* it had taken when the other branch of the select wins.                  *)
RecvCancelledLossy == control' = IF control # <<>> THEN Tail(control) ELSE control

(* mpsc::Receiver::recv is cancel safe.                                    *)
RecvCancelled == UNCHANGED control

(* A notification wakes the waiting select, which polls from the top.  One *)
(* that comes between the two polls may also find the second poll ready.   *)
WriterWoken ==
  /\ wpc = "recv"
  /\ permit
  /\ wpc' = "select"
  /\ RecvCancelled
  /\ UNCHANGED <<videoVars, frameVars, readerVars, inboundVars, envVars,
                 accepted, senders, held, ctlSent>>

WriterRecv ==
  /\ wpc = "recv"
  /\ control # <<>>
  /\ held' = Head(control)
  /\ control' = Tail(control)
  /\ wpc' = "write"
  /\ UNCHANGED <<videoVars, frameVars, readerVars, inboundVars, envVars,
                 accepted, senders, ctlSent>>

(* recv() is None: the channel is empty and every sender is dropped.       *)
WriterRecvNone ==
  /\ wpc = "recv"
  /\ control = <<>>
  /\ senders = {}
  /\ WriterReturns
  /\ UNCHANGED <<videoVars, frameVars, readerVars, inboundVars, envVars,
                 accepted, senders, ctlSent>>

WriterSendControl ==
  /\ wpc = "write"
  /\ peer = "up"
  /\ ctlSent' = held
  /\ held' = 0
  /\ wpc' = "drain"
  /\ UNCHANGED <<videoVars, controlVars, frameVars, readerVars, inboundVars,
                 envVars>>

(* write.send fails: the task returns; what it had drained is abandoned.   *)
WriterError ==
  /\ wpc \in {"frames", "write"}
  /\ peer = "gone"
  /\ WriterReturns
  /\ UNCHANGED <<videoVars, frameVars, readerVars, inboundVars, envVars,
                 accepted, senders, ctlSent>>

--------------------------------------------------------------------------------
(* The reader task.                                                        *)

Selecting == rpc \in {"select", "wait"}

(* A plausible slip: the two statements of close the other way round.      *)
CloseStepSwapped(n) ==
  \/ n = 1 /\ permit' = TRUE /\ UNCHANGED closed
  \/ n = 2 /\ closed' = TRUE /\ UNCHANGED permit

(* VideoQueue::close stores the flag, then notifies.                       *)
CloseStep(n) ==
  \/ n = 1 /\ closed' = TRUE /\ UNCHANGED permit
  \/ n = 2 /\ permit' = TRUE /\ UNCHANGED closed

(* The loop breaks; read_video.close() begins.                             *)
ReaderBreak ==
  /\ rpc' = "closing"
  /\ CloseStep(1)
  /\ UNCHANGED <<controlVars, writerVars, inboundVars, envVars, queue, dropped,
                 pushed, arrived>>

(* close() finishes; the task ends and drops sender_inbound.               *)
ReaderReturn ==
  /\ rpc = "closing"
  /\ rpc' = "done"
  /\ CloseStep(2)
  /\ UNCHANGED <<controlVars, writerVars, inboundVars, envVars, queue, dropped,
                 pushed, incoming, arrived, parsed>>

ReaderShutdown ==
  /\ Selecting
  /\ shutdown
  /\ ReaderBreak
  /\ UNCHANGED <<incoming, parsed>>

(* Nothing to read yet: the select sleeps on all its branches.             *)
ReaderWait ==
  /\ rpc = "select"
  /\ incoming = <<>>
  /\ rpc' = "wait"
  /\ UNCHANGED <<videoVars, controlVars, writerVars, inboundVars, envVars,
                 incoming, arrived, parsed>>

(* IDLE_TIMEOUT elapses.  The select is not biased: a message that arrives *)
(* at the same moment may lose to the timer.                               *)
ReaderIdleTimeout ==
  /\ rpc = "wait"
  /\ ReaderBreak
  /\ UNCHANGED <<incoming, parsed>>

ReaderFails ==
  /\ Selecting
  /\ peer = "gone"
  /\ ReaderBreak
  /\ UNCHANGED <<incoming, parsed>>

(* A plausible slip: a close frame is skipped like a ping.                 *)
ReaderSkipsClose ==
  /\ Selecting
  /\ incoming # <<>> /\ Head(incoming) = "close"
  /\ incoming' = Tail(incoming)
  /\ rpc' = "select"
  /\ UNCHANGED <<videoVars, controlVars, writerVars, inboundVars, envVars,
                 arrived, parsed>>

ReaderReadClose ==
  /\ Selecting
  /\ incoming # <<>> /\ Head(incoming) = "close"
  /\ incoming' = Tail(incoming)
  /\ ReaderBreak
  /\ UNCHANGED parsed

ReaderReadIgnored ==
  /\ Selecting
  /\ incoming # <<>> /\ Head(incoming) = "ignored"
  /\ incoming' = Tail(incoming)
  /\ rpc' = "select"
  /\ UNCHANGED <<videoVars, controlVars, writerVars, inboundVars, envVars,
                 arrived, parsed>>

(* A protocol message parses: sender_inbound.send(msg).await begins, and   *)
(* the select (shutdown, idle timer, socket) is not polled until it ends.  *)
ReaderParse ==
  /\ Selecting
  /\ incoming # <<>> /\ Head(incoming) = "proto"
  /\ incoming' = Tail(incoming)
  /\ parsed' = parsed + 1
  /\ rpc' = "forward"
  /\ UNCHANGED <<videoVars, controlVars, writerVars, inboundVars, envVars,
                 arrived>>

ReaderForward ==
  /\ rpc = "forward"
  /\ receiver
  /\ Len(inbound) < ChannelSize
  /\ inbound' = Append(inbound, parsed)
  /\ rpc' = "select"
  /\ UNCHANGED <<videoVars, controlVars, writerVars, envVars, incoming, arrived,
                 parsed, consumed, receiver>>

(* A plausible slip: a failed send is tried again.                         *)
ReaderForwardRetries ==
  /\ rpc = "forward"
  /\ ~receiver
  /\ UNCHANGED vars

(* The handler has dropped its end: the message is lost, the loop goes on. *)
ReaderForwardFails ==
  /\ rpc = "forward"
  /\ ~receiver
  /\ rpc' = "select"
  /\ UNCHANGED <<videoVars, controlVars, writerVars, inboundVars, envVars,
                 incoming, arrived, parsed>>

--------------------------------------------------------------------------------
(* The handler's end of the inbound channel, the peer and the server.      *)

(* WsRylusReceiver::next returns a message.                                *)
HandlerNext ==
  /\ receiver
  /\ inbound # <<>>
  /\ consumed' = Head(inbound)
  /\ inbound' = Tail(inbound)
  /\ UNCHANGED <<videoVars, controlVars, writerVars, readerVars, envVars,
                 receiver>>

(* The handler's loop ends, because next() is None (reader gone, channel   *)
(* empty) or because it returned or unwound earlier: the receiver is       *)
(* dropped with what it still held.                                        *)
HandlerDrop ==
  /\ receiver
  /\ receiver' = FALSE
  /\ inbound' = <<>>
  /\ UNCHANGED <<videoVars, controlVars, writerVars, readerVars, envVars,
                 consumed>>

PeerSend(kind) ==
  /\ peer = "up"
  /\ arrived < MaxIncoming
  /\ arrived' = arrived + 1
  /\ incoming' = Append(incoming, kind)
  /\ UNCHANGED <<videoVars, controlVars, writerVars, inboundVars, envVars, rpc,
                 parsed>>

PeerGone ==
  /\ peer = "up"
  /\ peer' = "gone"
  /\ UNCHANGED <<videoVars, controlVars, writerVars, readerVars, inboundVars,
                 shutdown>>

Shutdown ==
  /\ ~shutdown
  /\ shutdown' = TRUE
  /\ UNCHANGED <<videoVars, controlVars, writerVars, readerVars, inboundVars,
                 peer>>

--------------------------------------------------------------------------------
WriterInternal ==
  \/ WriterDrain \/ WriterNotified \/ WriterCheck \/ WriterPollRecv
  \/ WriterWoken \/ WriterRecv \/ WriterRecvNone \/ WriterError

WriterSend == WriterSendFrame \/ WriterSendControl

ReaderStep ==
  \/ ReaderReturn \/ ReaderShutdown \/ ReaderWait \/ ReaderFails
  \/ ReaderReadClose \/ ReaderReadIgnored \/ ReaderParse
  \/ ReaderForward \/ ReaderForwardFails

Next ==
  \/ \E s \in Senders : SendVideo(s) \/ SendMessage(s) \/ DropSender(s)
  \/ WriterInternal
  \/ WriterSend
  \/ ReaderStep
  \/ ReaderIdleTimeout
  \/ HandlerNext
  \/ HandlerDrop
  \/ \E kind \in Kinds : PeerSend(kind)
  \/ PeerGone
  \/ Shutdown

Spec == Init /\ [][Next]_vars

(* Fairness.  The runtime polls a task that can proceed, so the writer's   *)
(* and the reader's own steps are weakly fair, and so is the handler's     *)
(* next().  WF of WriterSend is an assumption on the peer, not on the      *)
(* code: it keeps reading until the connection breaks (the writer has no   *)
(* write timeout).  Nothing makes the peer, the server or the session      *)
(* threads send, push, leave or shut down.                                 *)
LiveSpec ==
  /\ Spec
  /\ WF_vars(WriterInternal)
  /\ WF_vars(WriterSend)
  /\ WF_vars(ReaderStep)
  /\ WF_vars(HandlerNext)

--------------------------------------------------------------------------------
(* Properties.                                                             *)

(* Type invariant of both tasks and their queues: the sequences hold       *)
(* numbers, the control and inbound channels respect their capacity, and   *)
(* the tasks are at one of their suspension points.                        *)
TypeOK ==
  /\ queue \in Seq(Nat) /\ dropped \in Nat
  /\ closed \in BOOLEAN /\ permit \in BOOLEAN
  /\ pushed \in Nat
  /\ control \in Seq(Nat) /\ Len(control) <= ChannelSize
  /\ accepted \in Nat /\ senders \subseteq Senders
  /\ wpc \in WriterStates /\ batch \in Seq(Nat) /\ held \in Nat
  /\ sent \in Nat /\ lastSent \in Nat /\ ctlSent \in Nat
  /\ rpc \in ReaderStates /\ incoming \in Seq(Kinds)
  /\ arrived \in Nat /\ parsed \in Nat
  /\ inbound \in Seq(Nat) /\ Len(inbound) <= ChannelSize
  /\ consumed \in Nat /\ receiver \in BOOLEAN
  /\ peer \in {"up", "gone"} /\ shutdown \in BOOLEAN

(* Drop-oldest: however pushes from several threads and drains interleave, *)
(* the queue holds the newest frames, all of them back to some point, and  *)
(* never more than VIDEO_QUEUE_CAPACITY (push, drain).                     *)
QueueIsNewest ==
  /\ Len(queue) <= VideoCapacity
  /\ \A i \in 1 .. Len(queue) : queue[i] = pushed - Len(queue) + i

(* Every frame pushed is accounted for: sent, in the writer's hands,       *)
(* queued, or counted in VideoQueue.dropped - none twice, none in silence. *)
FrameAccounting == pushed = sent + Len(batch) + Len(queue) + dropped

(* No frame is lost but to make room for a newer one, and every loss is    *)
(* counted (push, drain).                                                  *)
FramesKept == QueueIsNewest /\ FrameAccounting

(* While the writer lives, the control messages it still owes are exactly  *)
(* those accepted after the last one sent, in order: the priority video    *)
(* has may delay a control message, never drop, repeat or reorder one.     *)
ControlFifo ==
  wpc # "done" =>
    LET owed == (IF held # 0 THEN <<held>> ELSE <<>>) \o control
    IN  /\ Len(owed) = accepted - ctlSent
        /\ \A i \in 1 .. Len(owed) : owed[i] = ctlSent + i

(* While the handler keeps its receiver, every protocol message the reader *)
(* parsed is on its way to the handler in order, the one the reader is     *)
(* blocked on included: a full inbound channel makes the reader wait, it   *)
(* never makes it drop a message.                                          *)
InboundFifo ==
  receiver =>
    LET owed == inbound \o (IF rpc = "forward" THEN <<parsed>> ELSE <<>>)
    IN  /\ Len(owed) = parsed - consumed
        /\ \A i \in 1 .. Len(owed) : owed[i] = consumed + i

(* The messages of both directions keep their order and are all delivered, *)
(* whatever video, a full channel or a cancelled receive has them wait for.*)
MessagesInOrder == ControlFifo /\ InboundFifo

(* The writer returns with frames still queued only when the socket has    *)
(* failed or every session thread has dropped its sender: a close in the   *)
(* middle of a burst does not cut the burst short (the check after         *)
(* notified()).                                                            *)
NoFrameAbandoned ==
  [][wpc # "done" /\ wpc' = "done" /\ peer = "up"
       => batch = <<>> /\ (queue = <<>> \/ senders = {})]_vars

(* The stream the viewer sees implements LiveStream: newer frames only,    *)
(* and a frame is skipped only once VideoCapacity newer ones exist.        *)
Stream == INSTANCE LiveStream WITH Capacity <- VideoCapacity
StreamRefines == Stream!Spec

(* The end of a burst is shown: after push k some frame as new as k is     *)
(* sent unless the writer is gone; a push between the writer's drain and   *)
(* its wait is not forgotten.                                              *)
NewestFrameShown ==
  \A k \in 1 .. MaxFrames : (pushed >= k) ~> (lastSent >= k \/ wpc = "done")

(* A control message the channel accepted is sent once the video pauses,   *)
(* unless the writer is gone.                                              *)
ControlSent ==
  \A k \in 1 .. MaxControl : (accepted >= k) ~> (ctlSent >= k \/ wpc = "done")

(* When the reader closes a queue that is empty, the writer returns unless *)
(* another frame is pushed, even if no sender is ever dropped: the flag is *)
(* set before the notification (close).                                    *)
QuietCloseReleasesWriter ==
  (rpc = "closing" /\ queue = <<>>) ~> (wpc = "done" \/ queue # <<>>)

CloseFrameArrived == \E i \in DOMAIN incoming : incoming[i] = "close"

ReaderStops ==
  /\ (shutdown \/ peer = "gone") ~> (rpc = "done")
  /\ CloseFrameArrived ~> (rpc = "done")

(* A shutdown, a failed socket or a close frame - whatever frames it comes *)
(* after, and although a full inbound channel may block the reader on one  *)
(* of them - ends the reader, and the writer ends once the session's       *)
(* threads have dropped their senders: no connection task outlives its     *)
(* session.                                                                *)
WriterStops == (senders = {}) ~> (wpc = "done")
TasksEnd == ReaderStops /\ WriterStops
===============================================================================
