SPECIFICATION FairSpec
CONSTANTS
  Quotation = {q1, q2}
  q1 = q1
  Item = {x1, x2}
  Price <- PowersOfTwo
  x1 = x1
  x2 = x2
  Request = {r1, r2}
  Discount = {0, 1}
  Mixes <- ThreeMixes
  MayFail = TRUE
  Null = Null
INVARIANTS DecisionAgrees TotalIsCurrent AcceptedStays
PROPERTIES AcceptedIsFinal SentReachesQuotation
CHECK_DEADLOCK FALSE
