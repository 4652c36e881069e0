CONSTANTS
  Others <- MCOthers
  MaxRuns = 2
SPECIFICATION TeamSpec
INVARIANTS ImpossibleIsProven
CHECK_DEADLOCK FALSE
