SPECIFICATION FairSpec

CONSTANTS
  m1 = m1
  m2 = m2
  Message = {m1, m2}
  NeedEof = {m2}
  IsRequest = TRUE
  HasOnError = TRUE
  Overlap = FALSE
  Timed = {TRUE}
  MaxRecvs = 2

INVARIANTS
  DeadlineWatched

PROPERTIES
  SessionEnds
  TimedReadEnds
  TimedWriteEnds

CHECK_DEADLOCK FALSE
