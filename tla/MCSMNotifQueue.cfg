CONSTANTS
  p1 = p1  p2 = p2  n1 = n1  n2 = n2  a = a  b = b
  Pids <- MCPids1
  Section0 <- MCPids1
  Nodes <- MCNodes1
  Notifs <- MCNotifs2
  RingSize = 3
  MaxSubs = 1
  NoPid = NoPid
SPECIFICATION NFairSpec
INVARIANTS SemaphoreMatchesPending
PROPERTIES ImplementsQueues PendingIsReceived
