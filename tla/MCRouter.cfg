SPECIFICATION FairSpec

CONSTANTS
  s1 = s1
  s2 = s2
  w1 = w1
  w2 = w2
  p = p
  q = q
  bad = bad
  Session = {s1, s2}
  Thread = {w1, w2}
  Method = {"get"}
  Pattern = {p, q, bad}
  Invalid = {bad}
  MaxLen = 2

INVARIANTS
  TypeOK
  RInv

PROPERTIES
  RoutePromise
  MapStandsStill
  DispatchEnds

CHECK_DEADLOCK FALSE
