\* Three channels on two SIDs, one level of calls from within callbacks.
CONSTANTS
  c1 = c1
  c2 = c2
  c3 = c3
  NoChannel = NoChannel
  Channels = {c1, c2, c3}
  NChannels = 2
  Role = "client"
  MaxQueue = 2
  MaxDepth = 1
  Denials = TRUE
  Forbidden <- Careful
SPECIFICATION Spec
SYMMETRY Symmetry
CHECK_DEADLOCK FALSE
INVARIANTS
  TypeOK
  RegistrySound
  LowImpliesEmptyQueue
  ResetAfterData
  HandlersInOrder
  NotificationsInOrder
  ReleasedOnce
  ClosedIsClean
  SettledAtRest
PROPERTIES
  ServiceSpec
