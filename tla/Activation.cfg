CONSTANTS
  Site = {l, r}
  Local = l
  Change = {c1, c2, c3}
  Activation = {a1, a2}
  Targets = {{r}, {l, r}}
  MaxProcess = 2
  None = None
SPECIFICATION Spec
INVARIANTS
  TypeOK
  LockHeld
  NothingLost
  NothingLeftOver
PROPERTIES
  SitesSpec
SYMMETRY Symmetric
CHECK_DEADLOCK FALSE
