CONSTANTS
  k1 = k1
  None = None
  MaxSeq = 3
  Own = {k1}
  JoinAttempts = 2
  MaxCopies = 1
  MaxTurns = 2
SPECIFICATION FairThreadSpec
INVARIANTS LiveMeansListening
PROPERTIES  AnnouncedIsShown
CHECK_DEADLOCK FALSE
