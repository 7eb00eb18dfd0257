CONSTANTS
  Source = {s1}
  Host = {h1, h2}
  Sender = {p1, p2}
  Reader = {r}
  Cleaner = {c}
  MaxAge = 2
  MaxTime = 2
  MaxStores = 2
  MaxRunning = 2
  None = None
SPECIFICATION Spec
INVARIANTS
  TypeOK
  SteadyInUse
  NothingStale
  Tidy
PROPERTIES
  SteadyRead
SYMMETRY Symmetric
CHECK_DEADLOCK FALSE
