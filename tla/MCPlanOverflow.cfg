SPECIFICATION PlanSpec
CONSTANTS
  Nil = Nil
  RateScale = 1000000
  HalfWord = 2048
  Millisecond = 10
  ToUpper <- MCToUpper
  Canonical <- MCCanonical
  validName <- MCValidName
  IsMethod <- MCIsMethod
  Draw <- MCDraw
  RuleLists <- MCRuleLists
  Shapes <- MCShapes
  Asks <- MCAsks
  Counters = {1, 4094}
  Requests = {2}
  MaxRules = 2
INVARIANTS
  EveryRuleAddsLatency
CHECK_DEADLOCK FALSE
