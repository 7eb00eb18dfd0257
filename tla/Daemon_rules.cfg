SPECIFICATION Spec
CONSTANTS
  r1 = r1
  r2 = r2
  h1 = h1
  h2 = h2
  NoHost = nohost
  NoRule = norule
  Host = {h1}
  Rule = {r1}
  RuleSets <- ChangingRules
  Limit <- OverflowLimits
  ArchiveOrphans = FALSE
  Commands = {"RELOAD", "DELETE"}
  MaxMessages = 2
  MaxAbsent = 1
INVARIANTS
  TypeOK
  UniqueIds
  MarkedInList
  LimitBound
