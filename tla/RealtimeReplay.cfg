SPECIFICATION Spec
CONSTANTS
  Turns = 2
  MaxExtras = 1
  MaxBacklog = 1
  MaxTroubles = 1
INVARIANTS PageSettles
PROPERTIES NoSilentGap
CHECK_DEADLOCK FALSE
