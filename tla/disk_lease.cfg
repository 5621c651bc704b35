SPECIFICATION Spec
CONSTANTS
  u1 = u1
  u2 = u2
  extractor1 = extractor1
  extractor2 = extractor2
  bridge = bridge
  Users = {u1, u2}
  Cleaners = {}
  Pids = {extractor1, extractor2, bridge}
  PidOf <- MCPidOf
  Dirs = {d1}
  Max = 0
  MaxBirths = 2
  None = None
CHECK_DEADLOCK FALSE
INVARIANTS
  LeasedIsKept
