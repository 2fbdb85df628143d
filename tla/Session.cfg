\* An attempt succeeds, fails, or is the last; a window that comes and goes sorts
\* before one that stays, so an index may mean either.
CONSTANTS
  s0 = s0
  s1 = s1
  s2 = s2
  First = s0
  Later <- LaterSockets
  MaxAttempts = 2
  Fixed = {2}
  Transient = {1}
  MaxInFlight = 2
SPECIFICATION SessionLiveSpec
INVARIANTS ShownIsCaptured InputFollowsVideo PauseFollowsSwitch OneSocket BannerTellsTheState OneOfEach
PROPERTY LossIsResolved
