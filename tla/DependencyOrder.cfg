CONSTANTS
  Cities <- MCCities
  MaxConstraints = 4
SPECIFICATION Spec
INVARIANTS VerdictRight CycleFound
CHECK_DEADLOCK FALSE
