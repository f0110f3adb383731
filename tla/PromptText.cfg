SPECIFICATION TypingSpec
CONSTANTS
  Chunks <- MCChunks
  Inherited <- MCInherited
  Letters <- MCLetters
  NotFinite = NotFinite
  MaxChunks = 4
  MaxScratch = 3
  MaxPrompt = 4
INVARIANTS
  RenderAgreesWithCheck
  RenderFillsPlaceholders
  FiltersAreExact
PROPERTY
  ChipInsertsAWord
CHECK_DEADLOCK FALSE
