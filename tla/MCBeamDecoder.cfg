SPECIFICATION DecSpec
CONSTANTS
  Size = 5
  NDecoders = 2
  MaxDecoders = 2
  PromptLen = 1
  MaxTokens = 2
  Tokens = {1, 2}
  Strategies = {TRUE, FALSE}
  MaxRounds = 1
INVARIANTS
  DecTypeOK
  CacheIsHistory
  CellsAreOwned
  MaskCoversCells
  SlotIsFound
CHECK_DEADLOCK FALSE
