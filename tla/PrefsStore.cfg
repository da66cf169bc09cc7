CONSTANTS
  n1 = n1
  n2 = n2
  Start <- MCStart
  d1 = d1
  CachedNs = {n1, n2}
  DirectNs = {d1}
  QueueCap = 1
  GenSpace = 4
  MaxSets = 2
  MaxFails = 1
  MaxCuts = 1
SPECIFICATION FairSpec
INVARIANTS FlushedSurvives CleanIsDurable
PROPERTIES NothingReverts SettingsLand
CHECK_DEADLOCK FALSE
