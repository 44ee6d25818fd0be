SPECIFICATION FairSpec
CONSTANTS
  long = long
  empty = empty
  short = short
  open = open
  tooLong = tooLong
  Messages = {long, short, tooLong, empty, open}
  Dcep = {open}
  StreamOf <- MCStreamOf
  Size <- MCSize
  ChunkSize = 2
  MaxSize = 5
  Failures = TRUE
CHECK_DEADLOCK FALSE
INVARIANTS
  TypeOK
  FramedAsSent
  Contiguous
PROPERTIES
  FifoSpec
  DeferredLeaves
