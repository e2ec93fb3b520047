SPECIFICATION Spec
CONSTANTS
  Procs = {p1, p2}
  Blocks = {b1, b2}
  Values = {v0, v1}
  Absent = Absent
  LOGSIZE = 6
  LogSize = 7
  MAXOPBLOCKS = 3
  OpBlocks = 2
  CanCrash = TRUE
SYMMETRY DiskSymmetry
INVARIANTS TypeOK PinnedUntilInstalled
PROPERTY ImplementsAtomicDisk
