SPECIFICATION Spec
CONSTANTS
  Nil = Nil
  RateScale = 1000000
  ToUpper <- MCToUpper
  Canonical <- MCCanonical
  validName <- MCValidName
  IsMethod <- MCIsMethod
  Calls <- MCCalls
  MaxProxies = 2
  MaxRules = 3
  MaxCounter = 9
  MaxWindow = 4
INVARIANTS
  CoordinatesAreUnique
  AcceptedFaultActs
  AcceptedWindowFires
  WindowIsProgression
  CheckIsAGate
CHECK_DEADLOCK FALSE
