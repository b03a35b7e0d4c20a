SPECIFICATION Spec

CONSTANTS
  m1 = m1
  Message = {m1}
  NeedEof = {}
  IsRequest = TRUE
  HasOnError = TRUE
  Overlap = FALSE
  Timed = {TRUE, FALSE}
  MaxRecvs = 2

INVARIANTS
  EveryReadHasItsMessage

CHECK_DEADLOCK FALSE
