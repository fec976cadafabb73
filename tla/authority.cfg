CONSTANTS
  motor = motor  health = health  sales = sales  support = support  x1 = x1  x2 = x2
  None = None
  Grants <- AllGrants
  Delegations <- AllDelegations
  Temporary <- AllTemporary
  Rooms <- AllRooms
  Actions <- Vocabulary
  AdminRoles = {"ADMIN"}
  SensitivityRoles <- Unlocking
SPECIFICATION Spec
INVARIANTS StandingStaysOut AuditIsAccountable
PROPERTIES LosingNeverGives
