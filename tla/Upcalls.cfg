SPECIFICATION FairSpec
CONSTANTS
  MaxItems = 5
  MaxQueue = 3
  AllocFails = TRUE
  DeadEvents <- ReadWrite
CHECK_DEADLOCK FALSE
INVARIANTS
  TypeOK
  NothingLeft
  DeferredKept
PROPERTIES
  UpcallEnds
