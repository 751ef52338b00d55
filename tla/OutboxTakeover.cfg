SPECIFICATION Spec
CONSTANTS
  p1 = p1
  p2 = p2
  None = None
  Events = {1, 2}
  Tenants = {1, 2}
  TenantOf <- MCTwoRows
  Copies = {1, 2, 3, 4}
  Large = {1}
  Unsendable = {}
  Publishers = {p1, p2}
  BatchSize = 2
  FaultBudget = 2
SYMMETRY MCSymmetry
INVARIANTS TypeOK PublishedWasSent PointerResolves OneLeader DuplicatesNeedFaults
CHECK_DEADLOCK FALSE
