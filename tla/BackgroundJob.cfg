CONSTANTS
  Request = {r1, r2, r3}
  Process = {p1, p2}
  None = None
SPECIFICATION FairSpec
INVARIANTS
  TypeOK
  OneProcess
  EndedIsOver
  Found
PROPERTIES
  RequestEnds
CHECK_DEADLOCK FALSE
