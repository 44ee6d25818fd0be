SPECIFICATION Spec
CONSTANTS
  Streams = {1, 2}
  Script <- LongOpens
  Negotiated = {}
  Unreliable = {2}
  Switched = {2}
  MaxSwitches = 3
  MidMessage = FALSE
CHECK_DEADLOCK FALSE
INVARIANT
  DcepWhole
