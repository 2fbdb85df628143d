\* Everything may fail, and a limit of 1 scales the larger of the two sizes.
CONSTANTS
  Sizes = {1, 2}
  Limits = {1}
  Qps = {1}
  QpDefault = 1
  MaxFailures = 2
  Faults = {"capture", "open", "small", "scale", "codec", "panic"}
  MaxCommands = 3
SPECIFICATION LiveSpec
INVARIANTS FrameFitsEncoder BuffersBounded
PROPERTIES ThreadsEnd OutputRefines KeyframeServed
CHECK_DEADLOCK FALSE
