CONSTANTS
  MaxProcs = 2
  MaxHomes = 2
  MaxSleeps = 1
  MaxFaults = 2
  MaxSeq = 2
  Overtaking = FALSE
SPECIFICATION RosalinaSpec
INVARIANTS  HooksInv ControllerInv 
PROPERTIES AppThreadsWake EndIsCleanedUp PulseEnds
CHECK_DEADLOCK FALSE
