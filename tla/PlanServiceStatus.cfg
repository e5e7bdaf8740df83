SPECIFICATION ServiceFairSpec
CONSTANTS
  Primary = 1
  Extra <- NoNeighbours
  Stock <- Evening
  Answers <- AnyAnswer
  HonoursContext = TRUE
  Asked <- ForTwo
  Table <- ATable
  Film <- ThreeFilms
  Minutes <- FiveMinutes
  Opts <- AtMostTwo
  ArrivalBuffer = 15
  FallbackTravel = 45
  LatestEnd = 1470
  Unknown = Unknown
INVARIANTS
  PartialBeatsError
  DegradedIsHonest
  UnknownAreaIsRefused
  CompleteIsBest
  MissingDataOnlyHides
PROPERTIES
  RequestsAreAnswered
  GoroutinesExit
CHECK_DEADLOCK FALSE
