SPECIFICATION FairSpec

CONSTANTS
  m1 = m1
  Message = {m1}
  NeedEof = {}
  IsRequest = FALSE
  HasOnError = TRUE
  Overlap = TRUE
  Timed = {TRUE}
  MaxRecvs = 1

PROPERTIES
  TimedReadEnds

CHECK_DEADLOCK FALSE
