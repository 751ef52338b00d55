SPECIFICATION FairSpec
CONSTANTS
  p1 = p1
  p2 = p2
  w1 = w1
  w2 = w2
  None = None
  Events = {1}
  Tenants = {1}
  TenantOf <- MCOneRow
  Copies = {1, 2}
  Large = {1}
  Unsendable = {}
  Publishers = {p1}
  BatchSize = 1
  PublisherFaults = 1
  Workers = {w1}
  MaxAttempts = 2
  AckLimit = 1
  WorkerFaults = 1
  AttemptCap = 4
PROPERTIES KeepsPromise HonoursDelivery Resolves
CHECK_DEADLOCK FALSE
