SPECIFICATION FairSpec
CONSTANTS
  small = small
  large = large
  None = None
  w1 = w1
  w2 = w2
  Workers = {w1}
  Events = {large}
  Copies = {1, 2, 3}
  Large = {large}
  Malformed <- MCBadMessage
  MaxAttempts = 2
  AckLimit = 1
  FaultBudget = 2
  AttemptCap = 5
INVARIANTS AttemptBudget
PROPERTIES CompleteStays Settles
CHECK_DEADLOCK FALSE
