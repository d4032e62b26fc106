SPECIFICATION Spec
CONSTANTS
  Invoice = {i1}
  Note = {c1}
  Request = {r1, r2}
  Total = {3}
  Amount = {1}
  MaxReceived = 1
  Ops = {"recordPayment"}
  MayFail = FALSE
  Null = Null
INVARIANT PaidIsComplete
CHECK_DEADLOCK FALSE
