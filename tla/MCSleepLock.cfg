SPECIFICATION LiveSpec
CONSTANTS
  Procs = {p1, p2, p3, p4}
  None = None
  MaxKills = 2
INVARIANTS HolderRecorded NoLostWakeup
PROPERTIES ImplementsMutex SleeperWakes
