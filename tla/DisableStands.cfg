CONSTANTS
  t1 = t1
  t2 = t2
  Threads = {t1, t2}
  AgentIds = {a}
  OtherIds = {}
  f = f
  g = g
  Fields = {f}
  Values = {0, 1}
  Contracts <- NoContracts
SPECIFICATION Spec
PROPERTY DisableStands
CHECK_DEADLOCK FALSE
