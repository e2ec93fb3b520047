SPECIFICATION Spec
CONSTANTS
  Clients = {p1, p2, p3}
  Blocks = {k1, k2, k3, k4}
  NBUF = 2
  MaxPinned = 1
  MaxErrs = 1
SYMMETRY Symmetry
INVARIANTS HolderSeesLatest OneBufferPerBlock NoLostRequest CleanIsOnDisk PanicsOnlyWhenFull
CHECK_DEADLOCK FALSE
