\* The application also makes the call <<"channel", "close">> (callback, call).
CONSTANTS
  c1 = c1
  c2 = c2
  NoChannel = NoChannel
  Channels = {c1, c2}
  NChannels = 2
  Role = "client"
  MaxQueue = 2
  MaxDepth = 1
  Denials = TRUE
  Forbidden <- CloseInChannelHandler
SPECIFICATION Spec
SYMMETRY Symmetry
CHECK_DEADLOCK FALSE
INVARIANT ResetAfterData
