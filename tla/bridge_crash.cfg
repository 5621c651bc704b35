SPECIFICATION Spec
CONSTANTS
  Jobs = {j1}
  Pings = {p1}
  Tokens = {t1}
  Junk = junk
  NoJob = nojob
  Workers = 1
  MaxAdmitted = 1
  MaxEarly = 1
INVARIANTS
  ServesUntilEofOrShutdown
