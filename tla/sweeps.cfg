CONSTANTS
  c1 = c1  c2 = c2  k1 = k1  e1 = e1  e2 = e2  s1 = s1  s2 = s2
  d1 = d1  d2 = d2  r1 = r1
  None = None
  Conversations = {c1, c2}
  Cases = {k1}
  Employees = {e1}
  Leads = {e1}
  Sweepers = {s1, s2}
  Desks = {d1}
  Replies = {r1}
  Commands = {"claim", "resolve", "reopen"}
  Hours = {"OPEN", "AFTER_HOURS"}
  Capacity = 1
  MaxReopens = 2
  MaxLevel = 0
SPECIFICATION ForkedSpec
PROPERTIES  ArrivalsAreQueued 
