SPECIFICATION Spec
CONSTANTS
  Jobs = {j1, j2, j3}
  Pings = {p1}
  Tokens = {t1, t2}
  Junk = junk
  NoJob = nojob
  Workers = 2
  MaxAdmitted = 2
  MaxEarly = 1
SYMMETRY Interchangeable
INVARIANTS
  AdmissionConserved
  OneReply
  CancelsAreHonoured
PROPERTIES
  ServiceContract
