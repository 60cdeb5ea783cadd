SPECIFICATION Spec
CONSTANTS
  t1 = t1
  t2 = t2
  Threads <- MCThreads
  Files <- MCFiles
  Size <- MCSize
  CHUNK_SIZE = 2
INVARIANTS CountIsHonest SuccessIsComplete CancelStopsWork
PROPERTIES BarNeverBack PassEnds
