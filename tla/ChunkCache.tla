----------------------------- MODULE ChunkCache -----------------------------
(***************************************************************************)
(* Range reads of a mounted container and the decrypted-chunk cache they   *)
(* share (readonly_fs.rs: ReadOnlyV2Fs::read and load_chunk).              *)
(*                                                                         *)
(* The WinFsp dispatcher calls read from several threads.  load_chunk takes *)
(* the cache mutex twice, for the lookup and for the insertion, and        *)
(* decrypts in between without it, so two threads can miss on one chunk.   *)
(* The eviction loop is a step per evicted key, taken with the mutex held. *)
(* A byte of plaintext is its position <<file, index>>.                    *)
(***************************************************************************)
EXTENDS Naturals, Sequences, FiniteSets, FiniteSetsExt, SequencesExt

CONSTANTS Threads,      \* dispatcher threads
          Files,        \* files of the container
          FileSize,     \* entry.size of each file, in bytes
          CHUNK_SIZE,   \* plaintext bytes per chunk
          CacheSizes,   \* values of max_bytes to explore (--cache-mib)
          Offsets,      \* read offsets to explore
          Sizes,        \* read sizes to explore
          MaxCorrupt,   \* how many chunks of the container may be damaged
          Nobody        \* sentinel: the mutex is free

ASSUME ChunkCacheAssumption ==
  /\ FileSize \in [Files -> Nat]
  /\ CHUNK_SIZE \in Nat \ {0}
  /\ CacheSizes \subseteq Nat /\ Offsets \subseteq Nat /\ Sizes \subseteq Nat
  /\ MaxCorrupt \in Nat
  /\ Nobody \notin Threads

VARIABLES
  max_bytes, bytes, values, order,  \* struct Cache
  lock,      \* holder of the cache mutex
  corrupt,   \* chunks whose ciphertext fails authentication
  pc, req,   \* per thread: place in read(), and its arguments
  index,     \* per thread: chunk_index of the loop
  chunk,     \* per thread: the chunk load_chunk decrypted
  output,    \* per thread: bytes gathered so far
  unreadable \* per thread, history: the container could not be read in this read()

cacheVars == <<bytes, values, order>>
vars == <<max_bytes, bytes, values, order, lock, corrupt, pc, req, index,
          chunk, output, unreadable>>

CeilDiv(a, b) == (a + b - 1) \div b
ChunkCount(f) == CeilDiv(FileSize[f], CHUNK_SIZE)
Keys == UNION {{<<f, c>> : c \in 0..(ChunkCount(f) - 1)} : f \in {g \in Files : FileSize[g] > 0}}
Lesser(a, b) == IF a <= b THEN a ELSE b
SatSub(a, b) == IF a >= b THEN a - b ELSE 0

(* Bytes from..from+len-1 of file f. *)
Bytes(f, from, len) == [i \in 1..len |-> <<f, from + i - 1>>]

(* The plaintext of a chunk: full except for the last one of the file. *)
decrypt_chunk(k) ==
  LET start == k[2] * CHUNK_SIZE
  IN  Bytes(k[1], start, Lesser(CHUNK_SIZE, FileSize[k[1]] - start))

(* The chunk index is left out of the key. *)
MutCacheKey(f, c) == <<f, 0>>

CacheKey(f, c) == <<f, c>>

ReadLen(r) == Lesser(r.size, FileSize[r.file] - r.offset)
LastByte(r) == r.offset + ReadLen(r) - 1

StartChunk(r) == r.offset \div CHUNK_SIZE
EndChunk(r) == LastByte(r) \div CHUNK_SIZE
----------------------------------------------------------------------------
Requests == [file : Files, offset : Offsets, size : Sizes]
NoChunk == <<>>

Init ==
  /\ max_bytes \in CacheSizes
  /\ bytes = 0
  /\ values = [k \in {} |-> <<>>]
  /\ order = <<>>
  /\ lock = Nobody
  /\ corrupt \in {S \in SUBSET Keys : Cardinality(S) <= MaxCorrupt}
  /\ pc = [t \in Threads |-> "idle"]
  /\ req \in [Threads -> {CHOOSE r \in Requests : TRUE}]
  /\ index = [t \in Threads |-> 0]
  /\ chunk = [t \in Threads |-> NoChunk]
  /\ output = [t \in Threads |-> <<>>]
  /\ unreadable = [t \in Threads |-> FALSE]

Goto(t, l) == pc' = [pc EXCEPT ![t] = l]

(* read(): arguments checked and the chunk range computed.  A zero-length  *)
(* read at offset 0 fails in checked_sub(1) and returns an integrity error.*)
Read(t, r) ==
  /\ pc[t] \in {"idle", "ok", "error"}
  /\ req' = [req EXCEPT ![t] = r]
  /\ output' = [output EXCEPT ![t] = <<>>]
  /\ unreadable' = [unreadable EXCEPT ![t] = FALSE]
  /\ \/ /\ r.offset >= FileSize[r.file]
        /\ Goto(t, "ok")
        /\ UNCHANGED index
     \/ /\ r.offset < FileSize[r.file]
        /\ r.offset + ReadLen(r) = 0
        /\ Goto(t, "error")
        /\ UNCHANGED index
     \/ /\ r.offset < FileSize[r.file]
        /\ r.offset + ReadLen(r) > 0
        /\ Goto(t, "loop")
        /\ index' = [index EXCEPT ![t] = StartChunk(r)]
  /\ UNCHANGED <<max_bytes, cacheVars, lock, corrupt, chunk>>

(* The loop head, and the length check after the loop. *)
LoopHead(t) ==
  /\ pc[t] = "loop"
  /\ \/ /\ index[t] <= EndChunk(req[t])
        /\ Goto(t, "lookup")
        /\ UNCHANGED index
     \/ /\ index[t] > EndChunk(req[t])
        /\ Goto(t, IF Len(output[t]) = ReadLen(req[t]) THEN "ok" ELSE "error")
        /\ index' = [index EXCEPT ![t] = 0]
  /\ UNCHANGED <<max_bytes, cacheVars, lock, corrupt, req, chunk, output, unreadable>>

KeyOf(t) == CacheKey(req[t].file, index[t])

(* The slice of a chunk that read() appends. *)
Slice(t, value) ==
  LET skip == SatSub(req[t].offset, index[t] * CHUNK_SIZE)
      remaining == SatSub(ReadLen(req[t]), Len(output[t]))
  IN  SubSeq(value, skip + 1, skip + Lesser(Len(value) - skip, remaining))

(* load_chunk returned `value': append its slice and go on, unless the      *)
(* chunk is too short to hold the start of the range.                       *)
Take(t, value) ==
  LET skip == SatSub(req[t].offset, index[t] * CHUNK_SIZE)
  IN  /\ Goto(t, IF skip > Len(value) THEN "error" ELSE "loop")
      /\ output' = [output EXCEPT ![t] = @ \o Slice(t, value)]
      /\ index' = [index EXCEPT ![t] = @ + 1]

(* A hit moves the first occurrence of the key to the back. *)
Touched(k) == Append(IF k \in Range(order) THEN RemoveFirst(order, k) ELSE order, k)

(* First critical section of load_chunk: a hit returns at once. *)
Lookup(t) ==
  /\ pc[t] = "lookup"
  /\ lock = Nobody
  /\ \/ /\ KeyOf(t) \in DOMAIN values
        /\ order' = Touched(KeyOf(t))
        /\ Take(t, values[KeyOf(t)])
        /\ UNCHANGED <<bytes, values, chunk>>
     \/ /\ KeyOf(t) \notin DOMAIN values
        /\ Goto(t, "decrypt")
        /\ UNCHANGED <<cacheVars, chunk, output, index>>
  /\ UNCHANGED <<max_bytes, lock, corrupt, req, unreadable>>

(* The chunk exists and its ciphertext is the one that was written. *)
Authentic(k) == k \in Keys /\ k \notin corrupt

(* v2::decrypt_chunk, outside the mutex.  The read of the container may    *)
(* fail for any chunk; load_chunk reports that, too, as an integrity error. *)
Decrypt(t) ==
  LET k == <<req[t].file, index[t]>>
  IN  /\ pc[t] = "decrypt"
      /\ \/ /\ Goto(t, "error")
            /\ unreadable' = [unreadable EXCEPT ![t] = TRUE]
            /\ UNCHANGED chunk
         \/ /\ ~Authentic(k)
            /\ Goto(t, "error")
            /\ UNCHANGED <<chunk, unreadable>>
         \/ /\ Authentic(k)
            /\ Goto(t, "insert")
            /\ chunk' = [chunk EXCEPT ![t] = decrypt_chunk(k)]
            /\ UNCHANGED unreadable
      /\ UNCHANGED <<max_bytes, cacheVars, lock, corrupt, req, index, output>>

(* An oversized chunk is inserted like any other. *)
MutCacheable(value) == max_bytes # 0

Cacheable(value) == max_bytes # 0 /\ Len(value) <= max_bytes

(* Second critical section: an uncacheable chunk is returned as it is. *)
BeginInsert(t) ==
  /\ pc[t] = "insert"
  /\ lock = Nobody
  /\ \/ /\ ~Cacheable(chunk[t])
        /\ Take(t, chunk[t])
        /\ chunk' = [chunk EXCEPT ![t] = NoChunk]
        /\ UNCHANGED lock
     \/ /\ Cacheable(chunk[t])
        /\ Goto(t, "evict")
        /\ lock' = t
        /\ UNCHANGED <<chunk, output, index>>
  /\ UNCHANGED <<max_bytes, cacheVars, corrupt, req, unreadable>>

Full(t) == bytes + Len(chunk[t]) > max_bytes

(* A key of `order' that is no longer cached is put back. *)
MutEvictOldest(t) ==
  /\ pc[t] = "evict"
  /\ Full(t)
  /\ order # <<>>
  /\ \/ /\ Head(order) \in DOMAIN values
        /\ order' = Tail(order)
        /\ bytes' = SatSub(bytes, Len(values[Head(order)]))
        /\ values' = [k \in DOMAIN values \ {Head(order)} |-> values[k]]
     \/ /\ Head(order) \notin DOMAIN values
        /\ order' = Append(Tail(order), Head(order))
        /\ UNCHANGED <<bytes, values>>
  /\ UNCHANGED <<max_bytes, lock, corrupt, pc, req, index, chunk, output, unreadable>>

(* One turn of the eviction loop: the oldest key of `order' goes. *)
EvictOldest(t) ==
  /\ pc[t] = "evict"
  /\ Full(t)
  /\ order # <<>>
  /\ order' = Tail(order)
  /\ \/ /\ Head(order) \in DOMAIN values
        /\ bytes' = SatSub(bytes, Len(values[Head(order)]))
        /\ values' = [k \in DOMAIN values \ {Head(order)} |-> values[k]]
     \/ /\ Head(order) \notin DOMAIN values
        /\ UNCHANGED <<bytes, values>>
  /\ UNCHANGED <<max_bytes, lock, corrupt, pc, req, index, chunk, output, unreadable>>

EvictionDone(t) == ~Full(t) \/ order = <<>>

(* The rest of the critical section: account, insert, release, return. *)
Insert(t) ==
  /\ pc[t] = "evict"
  /\ EvictionDone(t)
  /\ bytes' = bytes + Len(chunk[t])
  /\ order' = Append(order, KeyOf(t))
  /\ values' = [k \in DOMAIN values \cup {KeyOf(t)} |->
                  IF k = KeyOf(t) THEN chunk[t] ELSE values[k]]
  /\ lock' = Nobody
  /\ Take(t, chunk[t])
  /\ chunk' = [chunk EXCEPT ![t] = NoChunk]
  /\ UNCHANGED <<max_bytes, corrupt, req, unreadable>>

Step(t) == \/ LoopHead(t) \/ Lookup(t) \/ Decrypt(t)
           \/ BeginInsert(t) \/ EvictOldest(t) \/ Insert(t)

Next == \E t \in Threads : \/ \E r \in Requests : Read(t, r)
                           \/ Step(t)

Spec == Init /\ [][Next]_vars

(* The mutex is not starved by other threads' hits (parking_lot hands it to *)
(* a waiter eventually), and the operating system runs every thread.        *)
FairSpec == Spec /\ \A t \in Threads : SF_vars(Step(t))
----------------------------------------------------------------------------
Resident == MapThenSumSet(LAMBDA k : Len(values[k]), DOMAIN values)

(* A read that succeeds returns exactly the bytes of its range that the     *)
(* file has, in order, however its chunks came out of the shared cache, and *)
(* none of them from a chunk that fails authentication.  An integrity error *)
(* has one of three causes, none of them the cache or another reader: a     *)
(* damaged chunk within the range, a read of the container that failed      *)
(* during this call, or a request for no bytes at offset 0 (read,           *)
(* load_chunk, v2::decrypt_chunk).  It does not tell these causes apart.    *)
ReadReturnsRange ==
  \A t \in Threads :
    LET r == req[t]
        touched == {c \in 0..ChunkCount(r.file) :
                      \E b \in 1..Len(output[t]) : output[t][b][2] \div CHUNK_SIZE = c}
    IN  /\ pc[t] = "ok" =>
             /\ output[t] = Bytes(r.file, r.offset,
                                  IF r.offset < FileSize[r.file] THEN ReadLen(r) ELSE 0)
             /\ \A c \in touched : <<r.file, c>> \notin corrupt
        /\ pc[t] = "error" =>
             \/ \E c \in StartChunk(r)..EndChunk(r) : <<r.file, c>> \in corrupt
             \/ unreadable[t]
             \/ r.offset = 0 /\ r.size = 0

(* The decrypted chunks held never exceed the configured cache size, however *)
(* far the byte account has drifted, and each of them can still be evicted.  *)
ResidentBounded ==
  /\ Resident <= max_bytes
  /\ DOMAIN values \subseteq Range(order)

(* Every read returns: the eviction loop ends even when the byte account    *)
(* can no longer be brought below the limit.                                *)
ReadsReturn ==
  \A t \in Threads : pc[t] = "loop" ~> pc[t] \in {"ok", "error"}
=============================================================================
