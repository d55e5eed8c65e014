SPECIFICATION Spec
CONSTANTS
  d1 = d1
  d2 = d2
  i1 = i1
  i2 = i2
  Docs = {d1, d2}
  Instances = {i1, i2}
  Exclusive = TRUE
  BatchSize = 2
  Produced = {"created", "imported", "validated", "metadata", "deleted", "indexed", "stage_failed", "touched", "unknown"}
  Patched = {"created", "validated", "metadata"}
  MaxLog = 3
  MaxFaults = 0
  MaxLapses = 0
  MaxResets = 0
SYMMETRY Symmetry
INVARIANT IndexIsOfVersion
CHECK_DEADLOCK FALSE
