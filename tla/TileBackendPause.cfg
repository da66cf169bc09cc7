CONSTANTS
  MaxBacklog = 2
  MaxCardMoves = 1
SPECIFICATION FlashSpec
PROPERTIES PauseEnds
