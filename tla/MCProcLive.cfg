SPECIFICATION LiveSpec
CONSTANTS
  NPROC = 3
  Cpus = {c1}
  KillPids = {2}
  MaxPid = 3
PROPERTIES InitReaps KilledDies
