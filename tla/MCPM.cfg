\* One application with one module; the clients wait for pm.
CONSTANTS
  Titles = {"app", "base", "pxi"}
  Apps = {"app"}
  Kips = {"pxi"}
  Deps <- MCDeps
  NbNodes = 4
  MaxPid = 4
  Patient = TRUE
  Stubborn = {}
  Commands = {"LaunchTitle", "LaunchTitleUpdate", "LaunchAppDebug", "DebugNextApplicationByForce", "RunQueuedProcess", "TerminateTitle", "TerminateApplication", "PrepareForReboot", "LaunchFirm", "ChainloadHomebrewDirty"}
  Failures = {"register", "load", "set up"}
  MaxRequests = 2
SPECIFICATION FairSpec
INVARIANTS PMInv 
 
CHECK_DEADLOCK FALSE
