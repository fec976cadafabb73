CONSTANTS
  c1 = c1  agent = agent  colleague = colleague  customer = customer
  m1 = m1  m2 = m2  m3 = m3  t1 = t1  t2 = t2  q1 = q1  q2 = q2
  None = None
  Conversations = {c1}
  Internal = {}
  People = {agent, colleague, customer}
  Restless = {colleague}
  OwnerOf <- Owners
  Keys = {m1, m2, m3}
  Draft <- ThreadDraft
  Texts = {t1, t2}
  Requests = {q1, q2}
  MaxEdits = 2
SYMMETRY Interchangeable
SPECIFICATION Spec
INVARIANTS OneMessagePerKey NumberingIsGapFree 
PROPERTIES RevisionsTellTheTruth
CHECK_DEADLOCK FALSE
