\* Two channels on two SIDs; the application calls whatever it likes from any callback.
CONSTANTS
  c1 = c1
  c2 = c2
  NoChannel = NoChannel
  Channels = {c1, c2}
  NChannels = 2
  Role = "client"
  MaxQueue = 2
  MaxDepth = 1
  Denials = TRUE
  Forbidden = {}
SPECIFICATION Spec
SYMMETRY Symmetry
CHECK_DEADLOCK FALSE
INVARIANTS
  CloseNeverForgotten
