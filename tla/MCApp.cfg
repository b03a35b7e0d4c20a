SPECIFICATION FairSpec

CONSTANTS
  m_threads_num = 2
  MaxConns = 2
  MaxErrors = 1
  MaxSpawns = 2
  HasOnError = TRUE
  Stoppers = {0, 1, 3}
  MayThrow = TRUE
  MayBoth = FALSE

INVARIANTS
  AppTypeOK
  LInv
  StopJoins
  AcceptedInOrder
  OneOutcome
  DiesTold
  AbortHasCause

PROPERTIES
  NothingAfterDestroy
  ConnectionsHanded
  ConnectTold
  StopEnds
  SignalEnds

CHECK_DEADLOCK FALSE
