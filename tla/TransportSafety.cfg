\* Capacity 2 with 4 frames overflows the queue twice; one control slot fills.
CONSTANTS
  handler = handler
  encoder = encoder
  Senders <- Clones
  VideoCapacity = 2
  ChannelSize = 1
  MaxFrames = 4
  MaxControl = 2
  MaxIncoming = 2
SPECIFICATION Spec
SYMMETRY Symmetric
INVARIANTS FramesKept MessagesInOrder
PROPERTIES NoFrameAbandoned StreamRefines
\* A session ends: every task and thread is done and nothing is left to do.
CHECK_DEADLOCK FALSE
