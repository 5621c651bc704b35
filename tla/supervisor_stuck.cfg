SPECIFICATION Spec
CONSTANTS
  Requests = {r1}
  Restarters = {}
  AppExits = FALSE
  MaxCrashes = 2
  MaxGen = 1
CHECK_DEADLOCK FALSE
INVARIANTS
  LostChildFailsItsRequests
