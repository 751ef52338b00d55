SPECIFICATION Spec
CONSTANTS
  small = small
  large = large
  None = None
  w1 = w1
  w2 = w2
  Workers = {w1, w2}
  Events = {small}
  Copies = {1}
  Large = {}
  Malformed <- MCNoMessages
  MaxAttempts = 2
  AckLimit = 1
  FaultBudget = 1
  AttemptCap = 3
SYMMETRY MCSymmetry
INVARIANTS NoLoss DeadLetterArchived TerminalRecorded
CHECK_DEADLOCK FALSE
