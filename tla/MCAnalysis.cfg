SPECIFICATION FairSpec
CONSTANTS
  s1 = s1
  Families = {f1, f2}
  Sigs <- MCSigs
  Patterns = {p1}
  Cron = cron
  Jobs = {cron, admin}
  Limit = 2
  NoLogs = NoLogs
  NoFamily = NoFamily
  MaxRaised = 1
INVARIANTS
  LimitKept
  OneRuleEach
  RememberedOnlyIfStored
PROPERTIES
  AnalysedInTheEnd
