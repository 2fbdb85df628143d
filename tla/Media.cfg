\* A recorder that fails twice in a row is given up; two encoders are opened.
CONSTANTS
    Sizes <- TwoSizes
    CursorSpots <- Around
    CursorWidth = 2
    MaxSegments = 3
    Builds <- Platforms
    MaxOpens = 2
    MaxFailures = 2
SPECIFICATION Spec
INVARIANTS SegmentIsSound ServedAsReceived HeapIsOwned InUseIsComplete
\* The bounds on opens and segments end the behaviours.
CHECK_DEADLOCK FALSE
