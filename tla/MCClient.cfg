SPECIFICATION Spec

CONSTANTS
  m1 = m1
  m2 = m2
  m3 = m3
  m4 = m4
  Message = {m1, m2, m3, m4}
  NeedEof = {m3}
  IsRequest = FALSE
  HasOnError = FALSE
  Overlap = TRUE
  Timed = {FALSE}
  MaxRecvs = 2

INVARIANTS
  NoLostWakeup
  HaltOnlyOnClose

PROPERTIES
  StreamPromise

CHECK_DEADLOCK FALSE
