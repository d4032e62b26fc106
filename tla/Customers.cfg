SPECIFICATION Spec
CONSTANTS
  Lead = {l1}
  Client = {c1, c2}
  Email = {e1, e2}
  Request = {r1, r2}
  MayFail = TRUE
  Null = Null
INVARIANTS ConvertedOnce EmailsDistinct
PROPERTY WonIsFinal
SYMMETRY CustomerSymmetry
CHECK_DEADLOCK FALSE
