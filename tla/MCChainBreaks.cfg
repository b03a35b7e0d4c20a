SPECIFICATION Spec

CONSTANTS
  s1 = s1
  w1 = w1
  p = p
  Session = {s1}
  Thread = {w1}
  Method = {"get"}
  Pattern = {p}
  Invalid = {}
  MaxLen = 2

PROPERTIES
  ChainBreaks

CHECK_DEADLOCK FALSE
