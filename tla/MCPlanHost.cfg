SPECIFICATION PlanSpec
CONSTANTS
  Nil = Nil
  RateScale = 1000000
  HalfWord = 2048
  Millisecond = 10
  ToUpper <- MCToUpper
  Canonical <- MCCanonical
  validName <- MCValidName
  IsMethod <- MCIsMethod
  Draw <- MCDraw
  RuleLists <- HostRuleLists
  Shapes <- MCShapes
  Asks <- HostAsks
  Counters = {1, 4094}
  Requests = {4}
  MaxRules = 1
INVARIANT PlanIsLiveForAnyHeader
CHECK_DEADLOCK FALSE
