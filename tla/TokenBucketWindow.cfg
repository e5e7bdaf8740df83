SPECIFICATION WindowSpec
CONSTANTS
  Earn = 2
  Unit = 3
  Slack = 1
  MaxHedgeTokens = 2
  Requests = 9
INVARIANTS
  BurstBound
  Replenished
CHECK_DEADLOCK FALSE
