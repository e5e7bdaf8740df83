SPECIFICATION LoadFairSpec
CONSTANTS
  Total = 3
  Request <- Turns
  WarmupN = 1
  Interval = 1
  MaxInflight = 2
  ClientTimeout = 2
  Late <- OneIsLate
  Budgets <- ShortOrLong
  Reply <- AllSorts
  WriteTimeout = 2
  ShutdownTimeout = 2
INVARIANTS
  ShutdownIsGraceful
  SummaryIsTrue
  StallsShow
PROPERTIES
  RunEnds
CHECK_DEADLOCK FALSE
