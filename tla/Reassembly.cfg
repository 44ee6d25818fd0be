SPECIFICATION Spec
CONSTANTS
  Streams = {1, 2, 3}
  Script <- Mixed
  Negotiated = {2}
  Unreliable = {2, 3}
  Switched = {2}
  MaxSwitches = 3
  MidMessage = FALSE
CHECK_DEADLOCK FALSE
INVARIANTS
  TypeOK
  DeliveredWhole
  StreamedNotBuffered
  DcepWhole
