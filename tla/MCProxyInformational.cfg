SPECIFICATION Spec
CONSTANTS
  Nil = Nil
  RateScale = 1000000
  HalfWord = 2048
  Millisecond = 10
  ToUpper <- MCToUpper
  Canonical <- MCCanonical
  validName <- MCValidName
  IsMethod <- MCIsMethod
  Draw <- MCDraw
  r1 = r1
  r2 = r2
  r3 = r3
  Requests = {r1, r2, r3}
  Planned <- MCPlanned
  UpstreamStatuses = {200, 503}
  MaxCounter = 3
  MaxRuns = 1
INVARIANT LoggedStatusIsTheClients
CHECK_DEADLOCK FALSE
