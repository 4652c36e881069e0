CONSTANTS
  a = a
  b = b
  Agents = {a, b}
  Runs = {r1}
  Routings <- MCRoutings
  MaxIterations = 2
  RecursionLimit = 7
  Parallel = TRUE
  MaxParallel = 2
  MaxChanges = 2
  MaxSinkFailures = 1
  MaxRestarts = 1
SPECIFICATION FairSpec
INVARIANTS TypeOK HumanDecides AskedOnce RecordsTrue LoopBounded
PROPERTIES ImplementsHumanGate RunsEnd
CHECK_DEADLOCK FALSE
