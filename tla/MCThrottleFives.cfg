SPECIFICATION Spec
CONSTANTS
  Rates = {100}
  Bodies = {200}
  Deliveries <- Fives
INVARIANTS
  TakesItsTime
CHECK_DEADLOCK FALSE
