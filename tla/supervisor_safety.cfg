SPECIFICATION MCSpec
CONSTANTS
  Requests = {r1}
  Restarters = {c1}
  AppExits = FALSE
  MaxCrashes = 1
  MaxGen = 2
  Calls = {call1, call2}
  Restarts = {restart1, restart2}
  Catalogues = {"models", "map"}
  Models = {"any", "m1", "m2"}
  Asks <- MCAsks
  Expiring = {"models"}
  None = None
  MaxBridges = 2
  Selections = {a, b}
  MaxRequests = 3
  MaxToken = 2
  Checkers = {k1, k2, k3, k4}
  Limit = 2
SYMMETRY Interchangeable
CHECK_DEADLOCK FALSE
INVARIANTS
  NoStrayProcess
  SupervisionIsHonest
  GivenIsCurrent
  ProgressIsHonest
  ChecksAreGated
PROPERTIES
  SupervisorContract
