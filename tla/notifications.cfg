CONSTANTS
  e1 = e1  e2 = e2  w1 = w1  w2 = w2
  None = None
  Events = {e1, e2}
  KeyOf <- SharedKey
  Workers = {w1, w2}
  MaxAttempts = 2
  MaxCrashes = 1
  MaxSlow = 1
  MaxReplays = 1
SPECIFICATION FairSpec
INVARIANTS CountedEventsAreTold RepeatsHaveAReason
PROPERTIES NotificationsSettle
