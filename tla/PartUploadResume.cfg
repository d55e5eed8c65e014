SPECIFICATION FairSpec
CONSTANTS
  MIN_PART_BYTES = 2
  MAX_PART_BYTES = 4
  MAX_PARTS = 3
  MAX_OBJECT_BYTES = 12
  Sizes = {0, 1, 5, 6, 7, 9, 12, 13}
  Targets = {1, 2, 3}
  MaxUploadBytes = 12
  Concurrency = 2
  Passes = 3
  MaxOdd = 1
INVARIANTS PartsInPlace WholeObject
PROPERTIES UploadEnds
CHECK_DEADLOCK FALSE
