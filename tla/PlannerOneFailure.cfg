SPECIFICATION PlannerSpec
CONSTANTS
  ArrivalBuffer = 15
  FallbackTravel = 45
  LatestEnd = 1470
  Unknown = Unknown
  RealTimes <- AnHour
  Inputs <- OneFailure
INVARIANTS
  FailuresDoNotScramble
CHECK_DEADLOCK FALSE
