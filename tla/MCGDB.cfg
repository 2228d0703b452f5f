CONSTANTS
  NbCtxs = 2
  MaxInputs = 6
  NbHalves = 4
  MAX_BREAKPOINT = 4
  WatchCtxs = {1, 2}
  Addresses = {1, 2, 3}
SPECIFICATION QuietSpec
INVARIANTS GDBInv BreakpointsInv WatchpointsInv HandshakesAreSafe
PROPERTIES StopsAreReported WaitsEnd
CHECK_DEADLOCK FALSE
