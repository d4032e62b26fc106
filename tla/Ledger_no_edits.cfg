SPECIFICATION FairSpec
CONSTANTS
  Invoice = {i1}
  Note = {c1}
  Request = {r1, r2}
  Total = {3}
  Amount = {1, 2}
  MaxReceived = 2
  Ops = {"issue", "markSent", "recordPayment", "cancel", "remove", "issueNote", "applyNote"}
  MayFail = FALSE
  Null = Null
INVARIANTS BalanceIsOutstanding StatusTellsBalance
PROPERTY AppliedReachesInvoice
CHECK_DEADLOCK FALSE
