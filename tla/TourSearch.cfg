CONSTANTS
  Problems <- MCProblems
  ExactLimit = 4
  Capacity = 2
  Far = 100
SPECIFICATION FairSpec
INVARIANTS LoopSound ExactIsBest LocalOptimum VerdictsTrue
PROPERTIES TourEnds
CHECK_DEADLOCK FALSE
