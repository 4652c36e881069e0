CONSTANTS
  a = a
  b = b
  s = s
  u = u
  Agents = {a, b}
  Tools = {s, u}
  AllowedTools <- MCAllowedTools
  MaxToolCalls <- MCMaxToolCalls
  MaxReported = 2
  MaxChanges = 0
SPECIFICATION CallerFairSpec
PROPERTY WallClockCap
CHECK_DEADLOCK FALSE
