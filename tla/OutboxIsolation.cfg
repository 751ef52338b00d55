SPECIFICATION FairSpec
CONSTANTS
  p1 = p1
  p2 = p2
  None = None
  Events = {1, 2, 3}
  Tenants = {1, 2, 3}
  TenantOf <- MCThreeRows
  Copies = {1, 2}
  Large = {}
  Unsendable = {1}
  Publishers = {p1}
  BatchSize = 1
  FaultBudget = 1
PROPERTIES Isolation
CHECK_DEADLOCK FALSE
