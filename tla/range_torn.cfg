SPECIFICATION Spec
CONSTANTS
  u1 = u1
  u2 = u2
  a1 = a1
  a2 = a2
  b1 = b1
  s1 = s1
  s2 = s2
  e1 = e1
  e2 = e2
  m1 = m1
  Absent = Absent
  Urls = {u1, u2}
  Versions = {a1, a2, b1}
  UrlOf <- MCUrlOf
  Header <- MCHeader
  Weak = {e1, e2}
  Fragments = {1, 2}
  Size = 2
  MaxWorkers = 2
  Retries = 1
  MaxChanges = 1
  MaxCrashes = 1
  MaxTorn = 1
CHECK_DEADLOCK FALSE
INVARIANTS
  ResumedIsValidated
