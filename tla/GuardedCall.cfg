CONSTANTS
  a = a
  b = b
  s = s
  u = u
  Agents = {a, b}
  Tools = {s, u}
  AllowedTools <- MCAllowedTools
  MaxToolCalls <- MCMaxToolCalls
  MaxReported = 2
  MaxChanges = 1
SPECIFICATION CallFairSpec
INVARIANTS FailClosed ViolationsAudited
PROPERTIES NoStrayWork CallsEnd
CHECK_DEADLOCK FALSE
