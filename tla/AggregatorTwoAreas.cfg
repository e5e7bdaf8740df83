SPECIFICATION Spec
CONSTANTS
  Primary = 1
  Extra <- OneNeighbour
  Stock <- TwoAreaStock
  Answers <- TablesHang
  HonoursContext = FALSE
INVARIANTS
  DataIsWhatArrived
  NothingLandedIsLost
CHECK_DEADLOCK FALSE
