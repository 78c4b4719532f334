SPECIFICATION FairSpec
CONSTANTS
  Rates = {1, 9, 10, 25, 47}
  Bodies = {0, 1, 7, 12}
  Deliveries <- AnyDelivery
INVARIANTS
  TypeOK
  PaceIsExact
PROPERTIES
  CopyEnds
CHECK_DEADLOCK FALSE
