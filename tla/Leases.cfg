SPECIFICATION Spec
CONSTANTS
  Receipts = {r1, r2, r3}
  Lease = 3
  Margin = 1
  ReceiveDelay = 1
  RetryDelay = 1
  BatchSize = 2
  MaxTime = 5
SYMMETRY MCSymmetry
INVARIANTS CurrentIsOwned
PROPERTIES DelayKept UncertainStays
CHECK_DEADLOCK FALSE
