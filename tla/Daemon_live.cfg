SPECIFICATION FairSpec
CONSTANTS
  r1 = r1
  r2 = r2
  h1 = h1
  h2 = h2
  NoHost = nohost
  NoRule = norule
  Host = {h1}
  Rule = {r1, r2}
  RuleSets <- DelayRules
  Limit <- NoLimits
  ArchiveOrphans = TRUE
  Commands = {"DELETE", "SIGHUP"}
  MaxMessages = 2
  MaxAbsent = 0
PROPERTIES
  RemovalLogged
  ThreadsGoOn
  
