SPECIFICATION MCSpec
CONSTANTS
  Consumers = {c1, c2, c3}
  Stoppable = {c1, c2}
  Keys = {k1, k2}
  None = None
  MaxEntries = 1
  MaxClears = 1
SYMMETRY Interchangeable
CHECK_DEADLOCK FALSE
INVARIANTS
  LeasesAreKept
  SharingIsFair
  CachedIsFresh
  NothingIsLeftBehind
PROPERTIES
  LoadContract
