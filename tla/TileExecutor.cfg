CONSTANTS
  Keys = {k1, k2, k3}
  QueueCapacity = 1
  RecentCapacity = 2
  TokenSpace = 6
  MaxPriority = 1
  MaxClosings = 1
  NoWork = NoWork
SPECIFICATION FairSpec
INVARIANTS LedgerExact NoDoubleFetch
PROPERTIES EveryTileEnds PriorityServed
