CONSTANTS
  p1 = p1  n1 = n1  s1 = s1  s2 = s2   a = a  A = A  q1 = q1
  Pids <- MCPids
  Section0 <- MCNone
  Nodes <- MCNodes
  Notifs <- MCNotifs
  RingSize = 1
  MaxSubs = 1
  NoPid = NoPid
  Sessions <- MCSessions
  Names <- MCNames
  Garbled = Garbled
  Ports <- MCPorts
  NoPort = NoPort
  NoSession = NoSession
  MaxSessions <- MCMax
  MaxServices = 1
  SrvMax = 1
  SrvPmMax = 1
  SemMax = 1
SPECIFICATION Spec
INVARIANTS NothingOfUnregistered
SYMMETRY Symmetry
CHECK_DEADLOCK FALSE
