SPECIFICATION Spec
CONSTANTS
  Turns = {t1, t2}
  Workers = {w1, w2}
  Slots = {s1, s2}
  None = None
  MaxTroubles = 0
PROPERTIES CommittedKept
CHECK_DEADLOCK FALSE
