CONSTANTS
  p1 = p1  p2 = p2  s1 = s1  s2 = s2  s3 = s3  q1 = q1  q2 = q2  A = A
  Pids <- MCPids1
  NoPid = NoPid
  Sessions <- MCSessions
  Names <- MCNames
  Garbled = Garbled
  Ports <- MCPorts1
  NoPort = NoPort
  NoSession = NoSession
  MaxSessions <- MCMax
  MaxServices = 2
  SrvMax = 2
  SrvPmMax = 1
  SemMax = 3
SPECIFICATION SFairSpec
PROPERTIES WokenIsResumed RemovedByOwner
CHECK_DEADLOCK FALSE
