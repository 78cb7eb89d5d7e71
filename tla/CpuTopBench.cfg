CONSTANTS
  N = 10
  Reg = {0, 1, 2, 3, 4, 5, 6, 7, 8, 9, 10, 11, 12, 13, 14, 15, 16, 17, 18, 19, 20, 21, 22,
         23, 24, 25, 26, 27, 28, 29, 30, 31}
  Setups <- BenchSetups
  JUMP_DIST = 2
  MUL_LAT = 2
SPECIFICATION BenchSpec
INVARIANT SkippedNotExecuted
CHECK_DEADLOCK FALSE
