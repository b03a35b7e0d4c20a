SPECIFICATION Spec

CONSTANTS
  m1 = m1
  Message = {m1}
  NeedEof = {}
  IsRequest = TRUE
  HasOnError = TRUE
  Overlap = FALSE
  Timed = {TRUE}
  MaxRecvs = 1

PROPERTIES
  TimeoutOnlyWhileOutstanding

CHECK_DEADLOCK FALSE
