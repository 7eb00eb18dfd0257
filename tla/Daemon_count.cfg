SPECIFICATION Spec
CONSTANTS
  r1 = r1
  r2 = r2
  h1 = h1
  h2 = h2
  NoHost = nohost
  NoRule = norule
  Host = {h1, h2}
  Rule = {r1}
  RuleSets <- CountRules
  Limit <- NoLimits
  ArchiveOrphans = FALSE
  Commands = {"DELETE", "UPDATE", "CHANGESTATE"}
  MaxMessages = 3
  MaxAbsent = 0
INVARIANTS
  
  
  NoClosedLeft

  
