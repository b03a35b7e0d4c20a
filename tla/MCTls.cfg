SPECIFICATION TlsFairSpec

CONSTANTS
  m1 = m1
  m2 = m2
  Message = {m1, m2}
  NeedEof = {m2}
  IsRequest = TRUE
  HasOnError = TRUE
  Overlap = FALSE
  Timed = {TRUE}
  MaxRecvs = 2

INVARIANTS
  TlsInv
  FailedHandshakeStartsNothing
  DeadlineWatched
  TlsDiesIdle

PROPERTIES
  TlsSessionEnds

CHECK_DEADLOCK FALSE
