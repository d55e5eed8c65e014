SPECIFICATION FairSpec
CONSTANTS
  Turns = {t1, t2}
  Workers = {w1}
  Slots = {s1}
  None = None
  MaxTroubles = 1
PROPERTIES CommandSettles ConversationFreed
CHECK_DEADLOCK FALSE
