SPECIFICATION MCSpec
CONSTANTS
  a = a
  b = b
  c = c
  g1 = g1
  g2 = g2
  Items = {a, b, c}
  Groups = {g1, g2}
  GroupOf <- MCGroupOf
  Workers = 1
  MaxRuns = 2
  MaxBad = 1
  Damaged = Damaged
CHECK_DEADLOCK FALSE
INVARIANTS
  CompletedIsWhole
  OldPairRecoverable
  ResultAccounts
PROPERTIES
  CompletedStays
  RunEnds
