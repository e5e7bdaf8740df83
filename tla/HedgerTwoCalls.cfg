SPECIFICATION FairSpec
CONSTANTS
  Call = {c1, c2}
  Earn = 3
  Unit = 6
  Slack = 1
  MaxHedgeTokens = 1
INVARIANTS
  WithinBudget
  CountersAreExact
  HedgedForAReason
  ErrorsAreFinal
PROPERTIES
  ImplementsBucket
  UnavailableIsRetried
  ImplementsProvider
  AttemptsEnd
CHECK_DEADLOCK FALSE
