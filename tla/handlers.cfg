SPECIFICATION MCSpec
CONSTANTS
  Callers = {c1, c2, c3}
  Stoppable = {c1, c2}
  Frames = {k1}
  None = None
  FetchFrames = {k1, k2}
  Capacity = 1
  Handlers = {h1, h2}
  Soundings = {s1, s2}
  drag = drag
  edited = edited
  other = other
  Plain = Plain
  MaxEntries = 1
  MaxViews = 2
CHECK_DEADLOCK FALSE
INVARIANTS
  FlightsAreSound
  OneFetchPerFrame
  ImagesAreKept
PROPERTIES
  FlightCallsEnd
  LoadContract
