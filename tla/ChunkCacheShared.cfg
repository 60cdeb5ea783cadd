\* Two dispatcher threads sharing the cache, under fairness.
CONSTANTS
  Threads = {t1, t2}
  long = long
  short = short
  Files = {long, short}
  FileSize <- MCFileSize
  CHUNK_SIZE = 2
  CacheSizes = {0, 1, 3}
  Offsets = {0, 3, 5}
  Sizes = {0, 3}
  MaxCorrupt = 1
  Nobody = Nobody
SPECIFICATION FairSpec
INVARIANTS
  ReadReturnsRange
  ResidentBounded
PROPERTY
  ReadsReturn
