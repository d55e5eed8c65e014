SPECIFICATION FairSpec
CONSTANTS
  Uploads = {c}
  Creator = c
  Workers = {w1, w2}
  Requests = {q1, q2}
  IfMatches = {0}
  Policies = {"supersede"}
  Kinds = {"good", "badsize", "refused", "invalid"}
  MaxDeliver = 3
  CasAttempts = 3
  UpdateAttempts = 3
  MaxItems = 1
  MaxFaults = 2
  MaxLapses = 0
INVARIANTS ReclaimSparesVersions
PROPERTIES ScanningEnds BytesResolved
CHECK_DEADLOCK FALSE
