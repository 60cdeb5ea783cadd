---------------------------- MODULE MCChunkCache ----------------------------
(* Small instances of ChunkCache: two-byte chunks, a file whose last chunk   *)
(* is short and a file that is one full chunk.                             *)
EXTENDS ChunkCache

CONSTANTS long, short

MCFileSize == [f \in Files |-> IF f = long THEN 5 ELSE 2]
=============================================================================
