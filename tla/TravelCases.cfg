SPECIFICATION Spec
CONSTANTS
  Case = {c1, c2}
  Passenger = {p1, p2, p3}
  Plan = {k1, k2}
  Request = {r1, r2}
  MaxChanges = 2
  Mixes <- FourMixes
  MayFail = TRUE
  Null = Null
INVARIANTS NothingIsMissing HistoryIsChain ActiveIsKept OneLeader OnePlan
SYMMETRY CaseSymmetry
CHECK_DEADLOCK FALSE
