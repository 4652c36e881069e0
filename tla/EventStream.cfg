CONSTANTS
  Emitters = {p1, p2}
  Consumers = {c1, c2}
  SinkFirst = TRUE
  MaxEvents = 2
  MaxSinkFailures = 1
SPECIFICATION FairSpec
INVARIANTS FaithfulDelivery
PROPERTIES StreamEnds Delivered
CHECK_DEADLOCK FALSE
