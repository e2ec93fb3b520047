SPECIFICATION Spec
CONSTANTS
  Procs = {1, 2}
  Inums = {1, 2, 3, 4}
  Names = {"a", "b"}
  NFILE = 2
  Paths <- SomePaths
  Links <- SomeLinks
  Trees <- FileAndDir
  MaxCalls = 3
INVARIANT UnlinkedIsFreed
CHECK_DEADLOCK FALSE
