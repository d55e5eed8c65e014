SPECIFICATION FairSpec
CONSTANTS
  d1 = d1
  d2 = d2
  i1 = i1
  i2 = i2
  Docs = {d1}
  Instances = {i1, i2}
  Exclusive = TRUE
  BatchSize = 2
  Produced = {"created", "imported", "validated", "metadata", "deleted", "indexed", "stage_failed", "touched", "unknown"}
  Patched = {"metadata"}
  MaxLog = 3
  MaxFaults = 1
  MaxLapses = 1
  MaxResets = 1
INVARIANTS RowsFollowTheLog NothingSkipped
PROPERTY CatchesUp
CHECK_DEADLOCK FALSE
