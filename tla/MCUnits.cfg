SPECIFICATION Spec
CONSTANTS
  ConsoleReaders = {"p1"}
  Letters = {"a", "b"}
  MaxRead = 2
  INPUT_BUF = 4
  ConsoleWrap = 16
  NCMD = 3
  MaxKeys = 5
  Pids = {1, 2, 3, 4}
  MaxLeaked = 5
  MaxKills = 4
  MemProcs = {1, 2}
  Initproc = 1
  NFRAMES = 9
  MaxPages = 2
  NSEG = 2
  MaxUnder = 1
  MaxUnits = 3
  MinCore = 3
  MaxGap = 1
  MaxHeap = 10
  Readers = {r1, r2}
  Writers = {w1, w2}
  Bytes = {0, 1}
  PIPESIZE = 2
  Wrap = 4
  MaxCount = 3
  p1 = p1
  p2 = p2
  p3 = p3
  None = None
  Procs = {p1, p2, p3}
  FileOf <- SharedFile
  Counts = {6656}
  Starts = {100}
  MaxSize = 8192
  BSIZE = 512
  NDIRECT = 12
  MAXOPBLOCKS = 10
  LOGSIZE = 30
  ChunkBlocks = 10
  Words = {"a", "b"}
  MAXARGS = 3
  Lines <- SmallLines
  NPROC = 6
  NOFILE = 6
  MaxFails = 1
SYMMETRY EndSymmetry
INVARIANTS LinesIntact ReaderServed HistoryInRange
INVARIANTS LockedWhileHeld
INVARIANTS PagesAccounted HeapIntact
INVARIANTS FreedWhenClosed SleepersHaveCause
INVARIANTS LogHoldsWrites AppendsInTurn
INVARIANTS ParsesAsGrammar Plumbing RunsToTheEnd
PROPERTIES ImplementsByteStream
CHECK_DEADLOCK FALSE
