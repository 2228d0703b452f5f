CONSTANTS
  p1 = p1  p2 = p2  s1 = s1  s2 = s2  s3 = s3  q1 = q1  q2 = q2  A = A
  Pids <- MCPids1
  NoPid = NoPid
  Sessions <- MCSessions3
  Names <- MCNames
  Garbled = Garbled
  Ports <- MCPorts
  NoPort = NoPort
  NoSession = NoSession
  MaxSessions <- MCMax
  MaxServices = 2
  SrvMax = 3
  SrvPmMax = 0
  SemMax = 3
SPECIFICATION SSpec
INVARIANTS HandlesAlwaysValid
CHECK_DEADLOCK FALSE
