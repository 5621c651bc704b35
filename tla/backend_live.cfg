SPECIFICATION Spec
CONSTANTS
  Jobs = {j1, j2}
  Pings = {}
  Tokens = {t1, t2}
  Junk = junk
  NoJob = nojob
  Workers = 1
  MaxAdmitted = 2
  MaxEarly = 1
  Requests = {}
  Restarters = {c1, c2}
  Joiners = {c2}
  AppExits = TRUE
  MaxCrashes = 2
  MaxGen = 1
CHECK_DEADLOCK FALSE
PROPERTIES
  EveryRequestAnswered
  LeavingEndsInExit
  QueuedCancelAnswered
  ShutdownIsFinal
  LostChildIsNoticed
  AttemptsEnd
