SPECIFICATION Spec
CONSTANTS
  Uploads = {c, r1, r2}
  Creator = c
  Workers = {w1, w2}
  Requests = {q1, q2, q3}
  IfMatches = {0, 1}
  Policies = {"fail"}
  Kinds = {"good"}
  MaxDeliver = 2
  CasAttempts = 3
  UpdateAttempts = 3
  MaxItems = 3
  MaxFaults = 0
  MaxLapses = 0
SYMMETRY Perms
INVARIANTS VersionsDense
CHECK_DEADLOCK FALSE
