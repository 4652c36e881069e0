CONSTANTS
  Agents = {a1, a2}
  MaxParallel = 2
  Limits <- MCLimits
  MaxRouted = 3
  MaxEdits = 2
SPECIFICATION FairSpec
INVARIANTS DecisionGrounded AbstainsWhenExhausted WorkIsWhole
PROPERTIES RunEnds
CHECK_DEADLOCK FALSE
