SPECIFICATION Spec
CONSTANTS
  Takeover = 2
  Fallback = 2
  Switches = TRUE
  SlaveReloads = TRUE
  Sighups = TRUE
  MaxTime = 4
  MaxRules = 2
  MaxEvents = 1
PROPERTIES
  EventsSpec
