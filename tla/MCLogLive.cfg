SPECIFICATION LiveSpec
CONSTANTS
  Procs = {p1, p2, p3}
  Blocks = {b1, b2}
  Values = {v0}
  Absent = Absent
  LOGSIZE = 4
  LogSize = 5
  MAXOPBLOCKS = 2
  OpBlocks = 1
  CanCrash = FALSE
INVARIANTS NoStrandedSleeper
PROPERTY SleeperWakes
