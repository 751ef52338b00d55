SPECIFICATION Spec
CONSTANTS
  Workers = {w1}
  Threshold = 2
  Cooldown = 2
  MaxTime = 8
PROPERTIES FailedProbeReopens
CHECK_DEADLOCK FALSE
