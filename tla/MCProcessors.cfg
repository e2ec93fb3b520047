SPECIFICATION SpecBoth
CONSTANTS
  NPROC = 4
  Cpus = {c1, c2}
  KillPids = {1, 2, 3}
  MaxPid = 4
  LockCpus = {k0, k1}
  Boot = k0
  None = None
  Threads = 2
  MaxCalls = 2
  TickWrap = 2
SYMMETRY CpuSymmetry
INVARIANTS RunsOnOneCpu NoMissedExit NoOrphan LocksExclude IntenaFollowsThread
