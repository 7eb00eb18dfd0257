SPECIFICATION Spec
CONSTANTS
  Takeover = 2
  Fallback = 0
  Switches = FALSE
  SlaveReloads = FALSE
  Sighups = FALSE
  MaxTime = 6
  MaxRules = 3
  MaxEvents = 1
INVARIANTS
  TypeOK
  RulesKept
PROPERTIES
  StandbySpec
