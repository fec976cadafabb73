CONSTANTS
  o1 = o1  o2 = o2  o3 = o3  r1 = r1  r2 = r2
  Events = {o1, o2, o3}
  Relays = {r1, r2}
  MaxAttempts = 2
  MaxCrashes = 2
SPECIFICATION FairSpec
INVARIANTS RepeatsNeedACrash
PROPERTIES OwedUntilHeard EventsSettle
CHECK_DEADLOCK FALSE
