SPECIFICATION FairSpec
CONSTANTS
  Call = {c1, c2}
  Area <- Areas
  Pair <- TwoKeys
  TTL = 1
  FetchTimeout = 1
  MaxTime = 2
  HonoursContext = TRUE
  NoEntry = NoEntry
  NoFlight = NoFlight
INVARIANTS
  AnswersAreFresh
PROPERTIES
  ImplementsProvider
  KeysAreReleased
