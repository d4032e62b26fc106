SPECIFICATION OfficeSpec
CONSTANTS
  Request = {r1, r2}
  Mixes <- ApprovalMixes
  MayFail = TRUE
  Null = Null
  User = {u1, u2}
  Founder = {u1}
  MaxAttempts = 2
  MaxFailed = 3
  Role = {admin, agent}
  Permission = {p1, p2}
  Member = {m1}
  Owner = m1
  AdminRole = admin
  Gone = Gone
  Call = {c1, c2}
  Document = {d1, d2}
  Template = {t1, t2}
  TemplateType = {contract, voucher}
  Horizon = 2
  Soon = 1
  Message = {n1, n2}
  MessageTemplate = {q1, q2}
  Kind <- Confirmation
  Task = {k1}
  Approval = {a1}
  Reminder = {s1}
  Approver = {u1, u2}
INVARIANTS GrantedIsApproved
CHECK_DEADLOCK FALSE
