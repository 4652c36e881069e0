CONSTANTS
  a = a
  b = b
  Agents = {a, b}
  Runs = {r1}
  Routings <- PairOnly
  MaxIterations = 1
  RecursionLimit = 50
  Parallel = TRUE
  MaxParallel = 5
  MaxChanges = 1
  MaxSinkFailures = 0
  MaxRestarts = 0
SPECIFICATION Spec
INVARIANT RejectionHonoured
CHECK_DEADLOCK FALSE
