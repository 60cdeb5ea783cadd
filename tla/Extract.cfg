\* Two directories, a file and a nested file of two batches, under every
\* folding of the top-level names.
CONSTANTS
  N = 4
  Kind <- TreeKind
  Parent <- TreeParent
  FsNames <- TreeNames
  ChunkCount <- TreeChunks
  BatchSize = 2
  CorruptSets <- TreeCorrupt
SPECIFICATION Spec
CHECK_DEADLOCK FALSE
INVARIANTS
  TypeOK
  TargetComplete
  AllOrNothing
PROPERTIES
  PublishesAtomically
