\* Two channels on two SIDs; the application calls back from the low handlers.
CONSTANTS
  c1 = c1
  c2 = c2
  NoChannel = NoChannel
  Channels = {c1, c2}
  NChannels = 2
  Role = "client"
  MaxQueue = 1
  MaxDepth = 1
  Denials = FALSE
  Forbidden <- OnlyFromLow
SPECIFICATION FairSpec
CHECK_DEADLOCK FALSE
PROPERTIES
  ClosingEnds
