SPECIFICATION MCSpec
CONSTANTS
  u1 = u1
  u2 = u2
  extractor1 = extractor1
  extractor2 = extractor2
  bridge = bridge
  Users = {u1, u2}
  Cleaners = {k1}
  Pids = {extractor1, extractor2, bridge}
  PidOf <- MCPidOf
  Dirs = {d1}
  Max = 0
  MaxBirths = 2
  None = None
  Procs = {p1, p2}
  Frames = {f1, f2}
  Parts = {t1, t2}
  Sizes = {1}
  MaxMapBytes = 1
SYMMETRY Interchangeable
CHECK_DEADLOCK FALSE
INVARIANTS
  LeasesHold
  WithinLimit

  
