SPECIFICATION Spec
CONSTANTS
  Call = {c1, c2, c3}
  Area <- Areas
  Pair <- BothWays
  TTL = 1
  FetchTimeout = 1
  MaxTime = 1
  HonoursContext = TRUE
  NoEntry = NoEntry
  NoFlight = NoFlight
SYMMETRY Symmetry
INVARIANTS
  TypeOK
  NoFetchOverEntry
  OneFetchPerPair
  FailuresAreOwn
  CountersAddUp
