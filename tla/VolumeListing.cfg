SPECIFICATION Spec
CONSTANTS
  CHUNK_SIZE = 2
  TAG_SIZE = 1
  MaxU64 = 12
  MAX_DEPTH = 2
  MAX_ENTRIES = 4
  MaxBuffer = 2
  Sources <- MCAllSources
  RawIndexes <- MCRaw
INVARIANT WinListsAll
