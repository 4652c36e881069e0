CONSTANTS
  Problems <- MCOneWay
  ExactLimit = 9
  Capacity = 6
  Far = 100
SPECIFICATION FairSpec
PROPERTY NeverLoops
CHECK_DEADLOCK FALSE
