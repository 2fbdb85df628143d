\* One stream, the queue as large as in the code.
CONSTANTS
  Senders <- EncodeThread
  VideoCapacity = 4
  ChannelSize = 2
  MaxFrames = 3
  MaxControl = 2
  MaxIncoming = 0
  MaxStreams = 1
  WebCodecs = FALSE
SPECIFICATION SessionSpec
INVARIANT SourceGetsInit
CHECK_DEADLOCK FALSE
