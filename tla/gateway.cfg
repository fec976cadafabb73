CONSTANTS
  e1 = e1  u1 = u1  w1 = w1  w2 = w2  c1 = c1
  None = None
  Principals = {e1, u1}
  Employees = {e1}
  Settled = {u1}
  Sockets = {w1, w2}
  Channels = {c1}
  Ceiling = 1
  MaxVersion = 1
  MaxFailures = 1
SPECIFICATION FairSpec
INVARIANTS OnlyTheRoomHears NobodyIsDeaf SlotsAreLive
PROPERTIES LapsedAccessIsRevoked RevokedSessionsAreClosed
CHECK_DEADLOCK FALSE
