CONSTANTS
  a = a
  b = b
  Agents = {a, b}
  Runs = {r1}
  Routings <- PairOnly
  MaxIterations = 1
  RecursionLimit = 50
  Parallel = TRUE
  MaxParallel = 5
  MaxChanges = 0
  MaxSinkFailures = 0
  MaxRestarts = 1
SPECIFICATION FairSpec
PROPERTY ApprovalSurvives
CHECK_DEADLOCK FALSE
