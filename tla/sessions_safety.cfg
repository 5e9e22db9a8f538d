SPECIFICATION Spec
CONSTANTS
  Requests = {r1, r2}
  NoReq = NoReq
  MaxSessions = 1
  Challenges = {c1}
  MaxIssued = 2
  MaxVersion = 2
  MaxRevokeAlls = 1
CHECK_DEADLOCK FALSE
INVARIANTS
  AdmittedFresh
  LimitHolds
