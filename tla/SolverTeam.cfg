CONSTANTS
  Others <- MCOthers
  MaxRuns = 2
SPECIFICATION TeamSpec
INVARIANTS DecisionRight PassIsEarned VerdictsAgree ComparisonTells
CHECK_DEADLOCK FALSE
