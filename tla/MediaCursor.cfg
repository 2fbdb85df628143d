\* The instance of Media.cfg, for what composite_cursor says of its bounds.
CONSTANTS
    Sizes <- TwoSizes
    CursorSpots <- Around
    CursorWidth = 2
    MaxSegments = 3
    Builds <- Platforms
    MaxOpens = 2
    MaxFailures = 2
SPECIFICATION Spec
INVARIANT CursorWithinCapture
\* The bounds on opens and segments end the behaviours.
CHECK_DEADLOCK FALSE
