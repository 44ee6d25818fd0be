\* One stream of either end, and a channel after the other on it.
SPECIFICATION FairSpec
CONSTANTS
  NumCreated = 2
  NChannels = 2
  Asked <- MCAsked
  MaxSends = 1
  Failures = TRUE
CHECK_DEADLOCK FALSE
INVARIANTS
  Inv
  OpenAccepted
  NothingAstray
  AsAsked
  SettledAgrees
PROPERTIES
  ClosingEnds
