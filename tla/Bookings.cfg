SPECIFICATION Spec
CONSTANTS
  Booking = {b1, b2}
  Client = {c1, c2}
  Amount = {1, 2}
  Cost = {2}
  Request = {r1, r2}
  MayFail = TRUE
  Null = Null
INVARIANTS StatsAreCurrent MarginIsCurrent ConfirmedIsKept
SYMMETRY BookingSymmetry
CHECK_DEADLOCK FALSE
