SPECIFICATION Spec
CONSTANTS
  Nil = Nil
  RateScale = 1000000
  ToUpper <- MCToUpper
  Canonical <- MCCanonical
  validName <- MCValidName
  IsMethod <- MCIsMethod
  Letters = {"a", "b"}
  MaxPat = 5
  MaxSeg = 4
  MaxPatSegs = 3
  MaxSegs = 3
  MaxBits = 6
  MaxName = 2
  MaxLines = 4
INVARIANTS
  SegmentGlobIsExact
  PathGlobIsExact
  PublishedDraws
  EveryBitCounts
  CoordinatesDoNotCollide
  RequestCrossesHops
  ResponseTellsItsOrigin
CHECK_DEADLOCK FALSE
