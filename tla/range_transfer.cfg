SPECIFICATION MCSpec
CONSTANTS
  u1 = u1
  u2 = u2
  a1 = a1
  a2 = a2
  b1 = b1
  s1 = s1
  s2 = s2
  e1 = e1
  e2 = e2
  m1 = m1
  Absent = Absent
  Urls = {u1, u2}
  Versions = {a1, a2, b1}
  UrlOf <- MCUrlOf
  Header <- MCHeader
  Weak = {e1, e2}
  Fragments = {1, 2}
  Size = 2
  MaxWorkers = 2
  Retries = 1
  MaxChanges = 1
  MaxCrashes = 1
  MaxTorn = 1
  Requests <- MCRequests
  Top = 7
  NoEnd = NoEnd
  MaxGap = 1
  SparePercent = 40
  Workers = 3
  MinPart = 2
  o1 = o1
  o2 = o2
  v1 = v1
  v2 = v2
  SoundingOf <- MCSoundingOf
  Soundings = {o1, o2, o3}
  ViewIds = {v1, v2}
  MAX_OPEN = 2
  None = None
  MaxPending = 2
  MaxEdits = 2
CHECK_DEADLOCK FALSE
INVARIANTS
  WorstErrorWins
  PlanIsSound
PROPERTIES
  DownloadContract
  CancelEnds
  LocalWorkIsKept
  InstallIsReviewed
