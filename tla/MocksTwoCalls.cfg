SPECIFICATION MockFairSpec
CONSTANTS
  Call = {1, 2}
  Bodies <- SomeBodies
  PerUnit = 1
  MaxFaultDuration = 2
  MaxInt = 7
  MaxTime = 1
  Asked <- TwoAsked
  Hash <- SomeHash
INVARIANTS
  OneSetOfSettings
  DataIsSound
PROPERTIES
  ImplementsProvider
