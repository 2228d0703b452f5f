CONSTANTS
  p1 = p1  p2 = p2  e1 = e1  e2 = e2  e3 = e3  e4 = e4
  Entries <- MCEntries
  Pids <- MCPids
  owner <- MCOwner
  MaxServices = 4
  Empty = Empty
  NoPid = NoPid
  NbNodes = 4
  Lists = {"free", "inUse", "waiting"}
  Pool = "free"
  Null = 0
  NbTasks = 4
  NbBuffers = 3
  Threads = {"service", "runner", "monitor"}
  Depth <- MCDepth
  NULL = NULL
  Programs <- MCPrograms
  MaxTurns = 2
  StackBits = 2
  CountRange = 4
  LoopRange = 4
  LineRange = 8
  Files <- MCFiles
  BufferSize = 6
  DescriptionSize = 1
  ListRange = 3
SPECIFICATION PartsSpec
INVARIANTS WalksAgree HeapInv CheatsInv
PROPERTIES ImplementsSet ImplementsLists TasksInTurn SubmittedIsRun 
CHECK_DEADLOCK FALSE
