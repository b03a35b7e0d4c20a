SPECIFICATION Spec

CONSTANTS
  m_threads_num = 2
  MaxConns = 1
  MaxErrors = 0
  MaxSpawns = 1
  HasOnError = TRUE
  Stoppers = {1}
  MayThrow = FALSE
  MayBoth = FALSE

INVARIANTS
  StopOnlyStops

CHECK_DEADLOCK FALSE
