SPECIFICATION Spec
CONSTANTS
  r1 = r1
  r2 = r2
  h1 = h1
  h2 = h2
  NoHost = nohost
  NoRule = norule
  Host = {h1, h2}
  Rule = {r1}
  RuleSets <- PlainRules
  Limit <- OldestLimits
  ArchiveOrphans = FALSE
  Commands = {"DELETE", "FLUSH"}
  MaxMessages = 3
  MaxAbsent = 0
INVARIANTS
  OldestBound
  EachBound
