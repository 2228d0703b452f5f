\* As many buffers as the services need together, like the 21 of the source,
\* and fewer than that provided at a time.
CONSTANTS
 Services = {0, 1, 2}
 Srv11 = 9
 Needs <- MCNeeds
 NbBuffers = 3
 Slots = 2
 Considerate = TRUE
 MaxCommands = 2
SPECIFICATION FairPXI
INVARIANTS PXIInv 
PROPERTIES CommandsAnswered Terminates
CHECK_DEADLOCK FALSE
