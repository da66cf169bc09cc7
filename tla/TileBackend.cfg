CONSTANTS
  MaxBacklog = 2
  MaxCardMoves = 3
SPECIFICATION FairSpec
INVARIANTS BackendStable NoDeadCard
PROPERTIES WantedSwapLands
