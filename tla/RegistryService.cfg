CONSTANTS
  t1 = t1
  t2 = t2
  Threads = {t1, t2}
  AgentIds = {a}
  OtherIds = {m}
  f = f
  g = g
  Fields = {f, g}
  Values = {0, 1}
  Contracts <- MCContracts
SYMMETRY ThreadSymmetry
SPECIFICATION Spec
INVARIANTS TypeOK AnswersHold
PROPERTIES BodyKept IdsLinearizable
CHECK_DEADLOCK FALSE
