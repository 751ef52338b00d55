SPECIFICATION Spec
CONSTANTS
  Requests = {r1, r2, r3}
  Sources = {s1, s2, s3}
  IdemKeys = {k1, k2}
  Elsewhere = {s3}
  None = None
SYMMETRY MCSymmetry
INVARIANTS OneReplay NoOrphans RepeatAnswered
CHECK_DEADLOCK FALSE
