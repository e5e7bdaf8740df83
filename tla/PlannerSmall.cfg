SPECIFICATION PlannerSpec
CONSTANTS
  ArrivalBuffer = 15
  FallbackTravel = 45
  LatestEnd = 1470
  Unknown = Unknown
  RealTimes <- UpToFallback
  Inputs <- SomeInputs
INVARIANTS
  EveryFeasiblePlan
  ListIsFull
  PassedOverForTheCap
  CapGivesWayLast
  GuessNeverPromotes
  OrderIsFixed
CHECK_DEADLOCK FALSE
