SPECIFICATION Spec
CONSTANTS
  Turns = {t1, t2}
  Workers = {w1, w2}
  Slots = {s1, s2}
  None = None
  MaxTroubles = 1
SYMMETRY Symmetry
INVARIANTS OutcomeAfterCommit AnsweredOnce AckedIsSettled
PROPERTIES LockKept
CHECK_DEADLOCK FALSE
