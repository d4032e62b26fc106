SPECIFICATION Spec
CONSTANTS
  Invoice = {i1}
  Note = {c1}
  Request = {r1, r2}
  Total = {1, 3}
  Amount = {1, 2}
  MaxReceived = 1
  Ops = {"update", "issue", "markSent", "recordPayment", "cancel", "remove", "createPayment", "issueNote", "applyNote"}
  MayFail = TRUE
  Null = Null
INVARIANT PaidNeverOverstated
SYMMETRY RequestSymmetry
CHECK_DEADLOCK FALSE
