SPECIFICATION OrderlySpec
CONSTANTS
  Invoice = {i1, i2}
  Note = {c1, c2}
  Request = {r1, r2}
  Total = {2, 3}
  Amount = {2}
  MaxReceived = 2
  Ops = {"update", "issue", "markSent", "recordPayment", "cancel", "remove", "issueNote", "applyNote"}
  MayFail = TRUE
  Null = Null
SYMMETRY RequestSymmetry
INVARIANT PaidIsComplete
PROPERTY AtomicSpec
CHECK_DEADLOCK FALSE
