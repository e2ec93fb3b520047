SPECIFICATION Spec
CONSTANTS
  Procs = {p1, p2, p3}
  Blocks = {b1, b2, b3, b4}
  Values = {v0}
  Absent = Absent
  LOGSIZE = 5
  LogSize = 5
  MAXOPBLOCKS = 2
  OpBlocks = 1
  CanCrash = FALSE
SYMMETRY DiskSymmetry
INVARIANTS LogFits
