SPECIFICATION Spec
CONSTANTS
  Call = {c1, c2}
  Bodies <- HugeBodies
  PerUnit = 1
  MaxFaultDuration = 2
  MaxInt = 7
  MaxTime = 1
INVARIANTS
  SettingsInRange
