SPECIFICATION Spec
CONSTANTS
  Tenant = {t1, t2}
  Kind = {"invoice_invoice", "invoice_receipt", "credit_note"}
  Request = {r1, r2, r3}
  FirstYear = 2025
  LastYear = 2026
  MayFail = TRUE
INVARIANTS NoCollision Accounted
SYMMETRY CallSymmetry
CHECK_DEADLOCK FALSE
