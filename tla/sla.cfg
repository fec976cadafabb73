CONSTANTS
  k1 = k1  k2 = k2  s1 = s1  s2 = s2
  DayLength = 3
  WeekLength = 2
  Lookahead = 9
  Never = 99
  Cases = {k1}
  Sweepers = {s1, s2}
  Histories <- AllHistories
  Promises <- AllPromises
  Automatic = {k1}
  BatchSize = 2
  Horizon = 5
  MaxWaits = 1
  MaxLag = 1
  MaxCrashes = 1
SPECIFICATION Spec
INVARIANTS ClockAgreesWithTheDoor  StagesFireOnce 
 
CHECK_DEADLOCK FALSE
