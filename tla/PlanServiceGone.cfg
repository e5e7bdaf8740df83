SPECIFICATION ServiceSpec
CONSTANTS
  Primary = 1
  Extra <- NoNeighbours
  Stock <- Evening
  Answers <- DataOrFailure
  HonoursContext = TRUE
  Asked <- ForTwo
  Table <- ATable
  Film <- ThreeFilms
  Minutes <- FiveMinutes
  Opts <- AtMostTwo
  ArrivalBuffer = 15
  FallbackTravel = 45
  LatestEnd = 1470
  Unknown = Unknown
PROPERTIES
  NothingWrittenToNobody
CHECK_DEADLOCK FALSE
