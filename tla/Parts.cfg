CONSTANTS
  LockClients = {c1, c2}
  LockTurns = {t1, t2}
SPECIFICATION Spec
SYMMETRY Symmetry
INVARIANTS
  SlotHasOneWorker
  VerdictsMatchRows
  NoLostWakeup
  CommittedKeepsBytes
  OutcomeIsKept
  CursorBehindRows
  SerialIngestIsWhole
  SessionIsOwn
  RacersAreServed
  TokenIsLive
  DoublesAgree
  RetrievedOnce
  PagesAreWhole
  AcceptedIsScanned
  ChunksCover
PROPERTIES
  NoTornTurn
  CallsAreAtomic
CHECK_DEADLOCK FALSE
