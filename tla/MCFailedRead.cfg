SPECIFICATION Spec

CONSTANTS
  m1 = m1
  Message = {m1}
  NeedEof = {}
  IsRequest = FALSE
  HasOnError = TRUE
  Overlap = TRUE
  Timed = {TRUE, FALSE}
  MaxRecvs = 1

INVARIANTS
  HandlersOnlyForMessages

CHECK_DEADLOCK FALSE
