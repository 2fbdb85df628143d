\* Two clients and two servers: a client left over from the first server would
\* meet the second.  No symmetry: it is not sound for liveness.
CONSTANTS
  c1 = c1
  c2 = c2
  Clients <- TwoClients
  UiCapacity = 1
  MaxStarts = 2
SPECIFICATION LiveSpec
INVARIANTS ClientsCounted StateIsShown
PROPERTIES ServiceRefines StopReturns
\* Rylus is dropped in the end.
CHECK_DEADLOCK FALSE
