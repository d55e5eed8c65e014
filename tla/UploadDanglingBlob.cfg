SPECIFICATION Spec
CONSTANTS
  Uploads = {c, r}
  Creator = c
  Workers = {w1, w2}
  Requests = {q1, q2}
  IfMatches = {0}
  Policies = {"supersede"}
  Kinds = {"good"}
  MaxDeliver = 2
  CasAttempts = 3
  UpdateAttempts = 3
  MaxItems = 2
  MaxFaults = 2
  MaxLapses = 0
SYMMETRY Perms
INVARIANTS ReferencedBlobsKept
CHECK_DEADLOCK FALSE
