SPECIFICATION Spec
CONSTANTS
  Workers = {w1, w2}
  Threshold = 2
  Cooldown = 2
  MaxTime = 8
INVARIANTS NeverStuck OpensWhenAlone QuietWhenAlone
CHECK_DEADLOCK FALSE
