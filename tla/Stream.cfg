\* Three streams, one of which may fail to open, through a queue of two: one
\* stream's messages are still under way when the next one's are handed over.
CONSTANTS
  Senders <- EncodeThread
  VideoCapacity = 2
  ChannelSize = 2
  MaxFrames = 5
  MaxControl = 6
  MaxIncoming = 0
  MaxStreams = 3
  WebCodecs = TRUE
SPECIFICATION SessionSpec
INVARIANTS InitLostOnlyByDrop DecoderFedItsStream
CHECK_DEADLOCK FALSE
