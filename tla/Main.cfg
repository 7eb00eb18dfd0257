SPECIFICATION FairSpec
CONSTANTS
  Signals = {"HUP", "TERM"}
  Hits <- Pc
  Commands = {"DELETE", "SYNC", "CREATE", "SHUTDOWN"}
  PipeSize = 1
  MaxSignals = 2
  MaxMessages = 1
  MaxChanges = 2
INVARIANTS
  TypeOK
  Owners
  CleanExit

  
  
CHECK_DEADLOCK FALSE
