SPECIFICATION FairSpec
CONSTANTS
  p1 = p1
  p2 = p2
  p3 = p3
  Proc = {p1, p2, p3}
  Timeouts = TRUE
  MaxFiles = 4
INVARIANTS
  TypeOK
PROPERTIES
  AtomicSpec
  Granted
