CONSTANTS
  c1 = c1  c2 = c2  k1 = k1  e1 = e1  e2 = e2  s1 = s1  s2 = s2
  d1 = d1  d2 = d2  r1 = r1
  None = None
  Conversations = {c1, c2}
  Cases = {k1}
  Employees = {e1, e2}
  Leads = {e1}
  Sweepers = {s1}
  Desks = {d1}
  Replies = {r1}
  Commands = {"claim", "transfer", "resolve", "reopen"}
  Hours = {"OPEN"}
  Capacity = 1
  MaxReopens = 1
  MaxLevel = 0
SPECIFICATION Spec
INVARIANTS WaitingWorkIsReachable AssignedWorkIsOwned HistoryFollowsState ResolutionIsCoherent OwnerHoldsTheSeat
PROPERTIES LifecycleConforms HandOverIsComplete
SYMMETRY ConversationSymmetry
