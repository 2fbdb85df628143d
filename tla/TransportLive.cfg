\* Two messages fill the one-slot inbound channel and block the reader; two
\* frames meet the writer before, between and after its two polls.
\* No symmetry: it is not sound for liveness.
CONSTANTS
  handler = handler
  encoder = encoder
  Senders <- OneClone
  VideoCapacity = 1
  ChannelSize = 1
  MaxFrames = 2
  MaxControl = 1
  MaxIncoming = 2
SPECIFICATION LiveSpec
PROPERTIES NewestFrameShown ControlSent QuietCloseReleasesWriter TasksEnd
CHECK_DEADLOCK FALSE
