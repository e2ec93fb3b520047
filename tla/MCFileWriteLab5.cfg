SPECIFICATION WriteSpec
CONSTANTS
  p1 = p1
  p2 = p2
  p3 = p3
  None = None
  Procs = {p1, p2, p3}
  FileOf <- OwnFiles
  Counts = {6656}
  Starts = {100}
  MaxSize = 8192
  BSIZE = 512
  NDIRECT = 12
  MAXOPBLOCKS = 10
  LOGSIZE = 30
  ChunkBlocks = 30
INVARIANTS NoPanic
