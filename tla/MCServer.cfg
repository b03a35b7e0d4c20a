SPECIFICATION Spec

CONSTANTS
  m1 = m1
  m2 = m2
  Message = {m1, m2}
  NeedEof = {m2}
  IsRequest = TRUE
  HasOnError = TRUE
  Overlap = TRUE
  Timed = {TRUE, FALSE}
  MaxRecvs = 2

INVARIANTS
  TypeOK
  WriteUsesLiveMessage
  NoLostWakeup
  SInv
  NoIdleTimer
  ShutdownHasCause
  WholeDispatchedOnce
  DiesIdle
  FailedReadIsTold

PROPERTIES
  StreamPromise
  NothingAfterDeath

CHECK_DEADLOCK FALSE
