\* The application ends by itself and is asked to end, too.
CONSTANTS
  Titles = {"app", "base", "module", "pxi"}
  Apps = {"app"}
  Kips = {"pxi"}
  Deps <- MCDeps
  NbNodes = 4
  MaxPid = 4
  Patient = TRUE
  Stubborn = {}
  Commands = {"LaunchTitle", "TerminateApplication"}
  Failures = {}
  MaxRequests = 2
SPECIFICATION Spec
INVARIANTS RefcountsCover
CHECK_DEADLOCK FALSE
