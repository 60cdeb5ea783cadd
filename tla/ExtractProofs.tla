---------------------------- MODULE ExtractProofs ----------------------------
(* Machine-checked proofs about Extract, for any container, any batch size, *)
(* any damage and any way the destination folds names.                      *)
EXTENDS Extract, FiniteSetTheorems, SequenceTheorems, TLAPS

(***************************************************************************)
(* The inductive invariant.                                                *)
(***************************************************************************)
Opening == {"start", "check_target", "check_staging", "mkdir", "opendir"}
Installing == {"install", "installing"}
Installed == {"commit", "sync_dirs", "rename", "sync_parent", "ok"}

(* The entries are visited in order, between opening and installing. *)
OrderInv ==
  /\ pc \in Opening => pos = 1 /\ guard = "none"
  /\ pc = "batch" => pos \in FilesOf
  /\ pc \in Installing \cup Installed => pos = N + 1
  /\ pc \in Installed => pending = <<>>
  /\ fsName \in FsNames
  /\ \A f \in FilesOf : f < pos => f \in fileSynced

(* The staging tree is ours to remove exactly while the guard is armed. *)
GuardInv ==
  /\ pos > 1 => guard # "none"
  /\ pc \in {"entries", "batch"} \cup Installing => guard = "armed"
  /\ pc \in Installed \ {"sync_parent", "ok"} => guard = "armed"
  /\ guard = "armed" => pc # "err"
  /\ guard = "dropped" => /\ pc \in {"sync_parent", "ok", "err", "dead"}
                          /\ staging # "ours" \/ pc = "dead"

(* What is at the destination is whole, as is what is about to be. *)
WholeInv ==
  /\ intact \/ pc = "dead"
  /\ pc \in {"rename", "sync_parent", "ok"} => dirsSynced
  /\ target = "ours" => /\ pc \in {"sync_parent", "ok", "dead"}
                        /\ Whole /\ pos = N + 1 /\ ~early
  /\ pc \in {"sync_parent", "ok"} => target = "ours"
  /\ early => cancelled
  /\ pc \in {"sync_dirs", "rename", "sync_parent", "ok"} => ~early

(* The first n chunks of a file, in order. *)
UpTo(n) == [i \in 1..n |-> i - 1]

(* The chunks of the current batch are decrypted at most once each. *)
BatchInv ==
  /\ decrypted \in Seq(Nat)
  /\ pc = "batch" =>
       /\ \A i \in 1..Len(decrypted) : /\ decrypted[i] \in Batch
                                       /\ <<pos, decrypted[i]>> \notin corrupt
       /\ \A i, j \in 1..Len(decrypted) : decrypted[i] = decrypted[j] => i = j

(* A file has the chunks below batch_start, then all of them. *)
ContentInv ==
  /\ \A f \in FilesOf : f < pos => content[f] = UpTo(ChunkCount[f])
  /\ pc = "batch" => content[pos] = UpTo(batchStart)
  /\ pc \in Opening \cup {"entries"} => \A f \in FilesOf : f >= pos => content[f] = <<>>
  /\ pc = "batch" => \A f \in FilesOf : f > pos => content[f] = <<>>
  /\ \A f \in FilesOf : \A i \in 1..Len(content[f]) : <<f, content[f][i]>> \notin corrupt

(* No two files of a directory have one name at the destination: the        *)
(* destination tells case apart, or the names are those of WindowsNameMap.  *)
DistinctFiles ==
  \A n \in FsNames : \A f, g \in FilesOf :
    Parent[f] = Parent[g] /\ n[f] = n[g] => f = g

(* Every visited directory owns its name; so does every installed file,     *)
(* unless the destination takes two files for one.                          *)
TreeInv ==
  /\ \A s \in DOMAIN tree : Slot(tree[s]) = s
  /\ \A d \in DirsOf : d < pos => Slot(d) \in DOMAIN tree /\ tree[Slot(d)] = d
  /\ \A f \in FilesOf :
       f < pos => \/ \E i \in 1..Len(pending) : pending[i] = f
                  \/ Slot(f) \in DOMAIN tree /\ (DistinctFiles => tree[Slot(f)] = f)

ControlInv == TypeOK /\ OrderInv /\ GuardInv /\ WholeInv
DataInv == BatchInv /\ ContentInv /\ TreeInv
ExtractInv == ControlInv /\ DataInv

USE DEF ControlInv, DataInv, ExtractInv

LEMMA InvInit == Init => ExtractInv
  <1> SUFFICES ASSUME Init PROVE ExtractInv
    OBVIOUS
  <1>1. content \in [Entries -> Seq(Nat)] /\ \A f \in FilesOf : content[f] = <<>>
    BY DEF Init, FilesOf
  <1>2. pos \in 1..(N + 1) /\ batchStart \in Nat
    BY ExtractAssumption DEF Init
  <1>3. TypeOK
    <2>1. /\ pc \in Running
          /\ pending \in Seq(FilesOf) /\ \A s \in DOMAIN tree : tree[s] \in Entries
          /\ staging \in {"absent", "ours", "foreign"} /\ target \in {"absent", "ours", "foreign"}
          /\ fileSynced \subseteq FilesOf
      BY DEF Init, Running, BeforeCommit, CheckPoints
    <2> QED BY <1>1, <1>2, <2>1 DEF Init, TypeOK
  <1>4. OrderInv /\ GuardInv /\ WholeInv
    BY ExtractAssumption DEF Init, OrderInv, GuardInv, WholeInv, Opening, Installing, Installed,
        FilesOf, Entries
  <1>5. BatchInv
    BY DEF Init, BatchInv
  <1>6. ContentInv
    BY <1>1 DEF Init, ContentInv, FilesOf, Entries
  <1>7. TreeInv
    BY DEF Init, TreeInv, FilesOf, DirsOf, Entries
  <1> QED BY <1>3, <1>4, <1>5, <1>6, <1>7

(* A step that touches no entry keeps what is known of them. *)
LEMMA DataFrame ==
  ASSUME DataInv, UNCHANGED <<fileVars, world>>,
         pc' = "batch" => pc = "batch",
         pc' \in Opening \cup {"entries"} => pc \in Opening \cup {"entries"}
  PROVE  DataInv'
  <1> USE DEF fileVars, world
  <1>1. BatchInv'
    BY DEF BatchInv, Batch, BatchEnd
  <1>2. ContentInv'
    BY DEF ContentInv
  <1>3. TreeInv'
    BY DEF TreeInv, Slot
  <1> QED BY <1>1, <1>2, <1>3

(* A visit that is refused, or any other step to the unwinding. *)
LEMMA RefuseStep ==
  ASSUME ExtractInv, pc \in BeforeCommit \cup {"installing", "sync_dirs", "rename"},
         pc' = "unwind", UNCHANGED <<fileVars, fsVars, world, cancelled, early>>
  PROVE  ExtractInv'
  <1>1. ControlInv'
    BY DEF TypeOK, OrderInv, GuardInv, WholeInv, Whole, fileVars, fsVars, world,
           Opening, Installing, Installed, CheckPoints, BeforeCommit, Running
  <1>2. DataInv'
    BY DataFrame DEF Opening
  <1> QED BY <1>1, <1>2

LEMMA CreateDirectoryStep ==
  ASSUME ExtractInv, CreateDirectory
  PROVE  ExtractInv'
  <1> USE DEF CreateDirectory, fsVars, world
  <1>1. CASE Taken(pos)
    BY <1>1, RefuseStep DEF fileVars, BeforeCommit, CheckPoints
  <1>2. CASE ~Taken(pos)
    <2>1. /\ tree' = Bind(Slot(pos), pos) /\ pos' = pos + 1 /\ UNCHANGED pc
          /\ pos \in Entries /\ Kind[pos] = "dir" /\ pos \in 1..N
      BY <1>2 DEF DirsOf, Entries
    <2> PICK s : s = Slot(pos)
      OBVIOUS
    <2>a. /\ DOMAIN tree' = DOMAIN tree \cup {s} /\ s \notin DOMAIN tree
          /\ tree'[s] = pos /\ \A x \in DOMAIN tree : tree'[x] = tree[x]
      <3>1. tree' = Bind(s, pos)
        BY <2>1
      <3>2. s \notin DOMAIN tree
        BY <1>2 DEF Taken
      <3> QED BY <3>1, <3>2 DEF Bind
    <2>2. \A x \in DOMAIN tree' : tree'[x] \in Entries /\ Slot(tree'[x]) = x
      BY <2>1, <2>a DEF TypeOK, TreeInv
    <2>3. \A f \in FilesOf : f < pos' => f < pos
      BY <2>1, ExtractAssumption DEF FilesOf, Entries
    <2>4. \A d \in DirsOf : d < pos' => d < pos \/ d = pos
      BY <2>1, ExtractAssumption DEF DirsOf, Entries
    <2>5. TypeOK'
      BY <2>1, <2>2, ExtractAssumption DEF TypeOK, Entries
    <2>6. OrderInv' /\ GuardInv' /\ WholeInv'
      BY <2>1, <2>3, ExtractAssumption DEF TypeOK, OrderInv, GuardInv, WholeInv, Whole, Opening, Installing, Installed
    <2>7. BatchInv'
      BY <2>1 DEF BatchInv
    <2>8. ContentInv'
      BY <2>1, <2>3, ExtractAssumption DEF ContentInv, FilesOf, Entries, Opening
    <2>9. \A e \in Entries : Slot(e)' = Slot(e)
      BY DEF Slot
    <2>10. \A d \in DirsOf : d < pos' => Slot(d) \in DOMAIN tree' /\ tree'[Slot(d)] = d
      BY <2>a, <2>4 DEF TreeInv
    <2>11. ASSUME NEW f \in FilesOf, f < pos'
           PROVE  \/ \E i \in 1..Len(pending) : pending[i] = f
                  \/ Slot(f) \in DOMAIN tree' /\ (DistinctFiles => tree'[Slot(f)] = f)
      BY <2>a, <2>3, <2>11 DEF TreeInv
    <2>12. TreeInv'
      BY <2>1, <2>2, <2>9, <2>10, <2>11 DEF TreeInv, Slot, DirsOf, FilesOf
    <2> QED BY <2>5, <2>6, <2>7, <2>8, <2>12
  <1> QED BY <1>1, <1>2

LEMMA BeginFileStep ==
  ASSUME ExtractInv, BeginFile
  PROVE  ExtractInv'
  <1> USE DEF BeginFile, fsVars, world
  <1>1. pos \in FilesOf /\ pos \in Entries /\ ChunkCount[pos] \in Nat /\ pc' \in {"batch", "unwind"}
    BY ExtractAssumption DEF FilesOf
  <1>2. ControlInv'
    BY <1>1 DEF TypeOK, OrderInv, GuardInv, WholeInv, Whole, Opening, Installing,
          Installed, CheckPoints, BeforeCommit, Running
  <1>3. BatchInv'
    BY DEF BatchInv
  <1>4. content[pos] = <<>> /\ UpTo(0) = <<>>
    BY <1>1, ExtractAssumption DEF ContentInv, UpTo, Entries
  <1>5. \A f \in FilesOf : f > pos => f >= pos
    BY <1>1, ExtractAssumption DEF FilesOf, Entries
  <1>6. ContentInv'
    BY <1>1, <1>4, <1>5 DEF ContentInv, Opening
  <1>7. TreeInv'
    BY DEF TreeInv, Slot
  <1> QED BY <1>2, <1>3, <1>6, <1>7

LEMMA DecryptChunkStep ==
  ASSUME ExtractInv, NEW c, DecryptChunk(c)
  PROVE  ExtractInv'
  <1> USE DEF DecryptChunk, fsVars, world
  <1>1. CASE <<pos, c>> \in corrupt
    BY <1>1, RefuseStep DEF fileVars, BeforeCommit, CheckPoints
  <1>2. CASE <<pos, c>> \notin corrupt
    <2>1. decrypted' = Append(decrypted, c) /\ UNCHANGED pc
      BY <1>2
    <2>2. c \in Nat
      BY DEF Batch, TypeOK
    <2>3. /\ decrypted' \in Seq(Nat) /\ Len(decrypted') = Len(decrypted) + 1
          /\ \A i \in 1..Len(decrypted) : decrypted'[i] = decrypted[i]
          /\ decrypted'[Len(decrypted) + 1] = c
      BY <2>1, <2>2 DEF BatchInv
    <2>4. ControlInv'
      BY <2>1 DEF TypeOK, OrderInv, GuardInv, WholeInv, Whole
    <2>5. Batch' = Batch
      BY DEF Batch, BatchEnd
    <2>6. BatchInv'
      <3>1. Len(decrypted) \in Nat
        BY DEF BatchInv
      <3>2. \A i \in 1..Len(decrypted') : i \in 1..Len(decrypted) \/ i = Len(decrypted) + 1
        BY <2>3, <3>1
      <3>3. \A i \in 1..Len(decrypted') : /\ decrypted'[i] \in Batch
                                         /\ <<pos, decrypted'[i]>> \notin corrupt
        BY <1>2, <2>3, <3>2 DEF BatchInv
      <3>4. \A i, j \in 1..Len(decrypted') : decrypted'[i] = decrypted'[j] => i = j
        BY <2>3, <3>2 DEF BatchInv
      <3> QED BY <2>3, <2>5, <3>3, <3>4 DEF BatchInv
    <2>7. ContentInv'
      BY <2>1 DEF ContentInv
    <2>8. TreeInv'
      BY DEF TreeInv, Slot
    <2> QED BY <2>4, <2>6, <2>7, <2>8
  <1> QED BY <1>1, <1>2

(* A batch all of whose chunks are decrypted holds no damaged one: as many  *)
(* different chunks as the batch has are the batch.                         *)
LEMMA BatchAuthentic ==
  ASSUME ExtractInv, pc = "batch", batchStart < ChunkCount[pos],
         Len(decrypted) = Cardinality(Batch)
  PROVE  /\ \A c \in Batch : <<pos, c>> \notin corrupt
         /\ BatchEnd \in Nat /\ batchStart < BatchEnd /\ BatchEnd <= ChunkCount[pos]
         /\ Cardinality(Batch) = BatchEnd - batchStart
  <1>1. ChunkCount[pos] \in Nat /\ batchStart \in Nat
    BY ExtractAssumption DEF OrderInv, FilesOf, TypeOK
  <1>2. BatchEnd \in Nat /\ batchStart < BatchEnd /\ BatchEnd <= ChunkCount[pos]
    BY <1>1, ExtractAssumption DEF BatchEnd
  <1>3. IsFiniteSet(Batch) /\ Cardinality(Batch) = BatchEnd - batchStart
    BY <1>1, <1>2, FS_Interval DEF Batch
  <1> DEFINE n == Len(decrypted)
  <1>4. n \in Nat /\ IsFiniteSet(1..n) /\ Cardinality(1..n) = n
    BY FS_Interval DEF BatchInv
  <1>5. decrypted \in Injection(1..n, Batch)
    <2>1. decrypted \in Seq(Nat) /\ \A i \in 1..n : decrypted[i] \in Batch
      BY DEF BatchInv
    <2>2. decrypted \in [1..n -> Batch]
      <3>1. decrypted \in [1..n -> Nat]
        BY <2>1, LenProperties
      <3> QED BY <2>1, <3>1
    <2> QED BY <2>2 DEF BatchInv, Injection, IsInjective
  <1>6. decrypted \in Surjection(1..n, Batch)
    BY <1>3, <1>4, <1>5, FS_Injection
  <1>7. \A c \in Batch : \E i \in 1..n : decrypted[i] = c
    BY <1>6 DEF Surjection
  <1> QED BY <1>2, <1>3, <1>7 DEF BatchInv

(* UpTo(n) is a sequence of n chunks. *)
LEMMA UpToProperties ==
  ASSUME NEW n \in Nat
  PROVE  /\ UpTo(n) \in Seq(Nat) /\ Len(UpTo(n)) = n
         /\ \A i \in 1..n : UpTo(n)[i] = i - 1
  BY DEF UpTo

LEMMA WriteBatchStep ==
  ASSUME ExtractInv, WriteBatch
  PROVE  ExtractInv'
  <1> USE DEF WriteBatch, fsVars, world
  <1>1. /\ \A c \in Batch : <<pos, c>> \notin corrupt
        /\ BatchEnd \in Nat /\ batchStart < BatchEnd /\ BatchEnd <= ChunkCount[pos]
        /\ Cardinality(Batch) = BatchEnd - batchStart
    BY BatchAuthentic
  <1>2. /\ pos \in FilesOf /\ pos \in Entries /\ pos \in 1..N /\ batchStart \in Nat
        /\ content[pos] = UpTo(batchStart) /\ content \in [Entries -> Seq(Nat)]
    BY DEF OrderInv, ContentInv, TypeOK, FilesOf, Entries
  <1>3. Collected = [i \in 1..(BatchEnd - batchStart) |-> batchStart + i - 1]
    BY <1>1 DEF Collected
  <1>4. content[pos] \o Collected = UpTo(BatchEnd)
    BY <1>1, <1>2, <1>3 DEF UpTo
  <1>5. /\ content'[pos] = UpTo(BatchEnd) /\ content' \in [Entries -> Seq(Nat)]
        /\ \A f \in Entries : f # pos => content'[f] = content[f]
    <2>1. UpTo(BatchEnd) \in Seq(Nat)
      BY <1>1, UpToProperties
    <2> QED BY <1>2, <1>4, <2>1
  <1>6. ControlInv'
    BY <1>1, <1>5 DEF TypeOK, OrderInv, GuardInv, WholeInv, Whole
  <1>7. BatchInv'
    BY DEF BatchInv
  <1>8. \A i \in 1..Len(content'[pos]) : <<pos, content'[pos][i]>> \notin corrupt
    <2>1. TAKE i \in 1..Len(content'[pos])
    <2>2. i \in 1..BatchEnd /\ content'[pos][i] = i - 1
      <3>1. content'[pos] = UpTo(BatchEnd) /\ BatchEnd \in Nat
        BY <1>1, <1>5
      <3>2. i \in 1..Len(UpTo(BatchEnd))
        BY <2>1, <3>1
      <3>3. i \in 1..BatchEnd /\ UpTo(BatchEnd)[i] = i - 1
        BY <3>1, <3>2, UpToProperties
      <3> QED BY <3>1, <3>3
    <2>3. CASE i <= batchStart
      <3>1. i \in 1..Len(content[pos]) /\ content[pos][i] = i - 1
        BY <1>1, <1>2, <2>2, <2>3, UpToProperties
      <3> QED BY <1>2, <2>2, <3>1 DEF ContentInv
    <2>4. CASE i > batchStart
      <3>1. i - 1 \in Batch
        BY <1>1, <1>2, <2>2, <2>4 DEF Batch
      <3> QED BY <1>1, <2>2, <3>1
    <2>5. i <= batchStart \/ i > batchStart
      BY <1>1, <1>2, <2>2
    <2> QED BY <2>3, <2>4, <2>5
  <1>9. ContentInv'
    <2>1. \A f \in FilesOf : f # pos => content'[f] = content[f]
      BY <1>5 DEF FilesOf
    <2>2. \A f \in FilesOf : f < pos \/ f > pos => f # pos
      BY <1>2, ExtractAssumption DEF FilesOf, Entries
    <2>3. content'[pos] = UpTo(batchStart')
      BY <1>5
    <2> QED BY <1>8, <2>1, <2>2, <2>3 DEF ContentInv, Opening
  <1>10. TreeInv'
    BY DEF TreeInv, Slot
  <1> QED BY <1>6, <1>7, <1>9, <1>10

LEMMA FinishFileStep ==
  ASSUME ExtractInv, FinishFile
  PROVE  ExtractInv'
  <1> USE DEF FinishFile, fsVars, world
  <1>1. /\ pos \in FilesOf /\ pos \in Entries /\ pos \in 1..N /\ pos' = pos + 1
        /\ content[pos] = UpTo(ChunkCount[pos]) /\ Kind[pos] = "file"
    BY DEF OrderInv, ContentInv, FilesOf, Entries
  <1>2. \A f \in Entries : (f < pos' <=> f < pos \/ f = pos) /\ (f >= pos' <=> f > pos)
    BY <1>1, ExtractAssumption DEF Entries
  <1>3. /\ pending' \in Seq(FilesOf) /\ Len(pending') = Len(pending) + 1
        /\ \A i \in 1..Len(pending) : pending'[i] = pending[i]
        /\ pending'[Len(pending) + 1] = pos
    BY <1>1 DEF TypeOK
  <1>4. TypeOK'
    BY <1>1, <1>3, ExtractAssumption DEF TypeOK, FinishedFiles, Running, BeforeCommit, CheckPoints
  <1>5. OrderInv' /\ GuardInv' /\ WholeInv'
    BY <1>1, <1>2, ExtractAssumption DEF TypeOK, OrderInv, GuardInv, WholeInv, Whole, FinishedFiles, Opening,
       Installing, Installed, FilesOf
  <1>6. BatchInv'
    BY DEF BatchInv
  <1>7. ContentInv'
    BY <1>1, <1>2 DEF ContentInv, FilesOf, Opening
  <1>8. \A d \in DirsOf : d < pos' => d < pos
    BY <1>1, <1>2 DEF DirsOf
  <1>9. \A f \in FilesOf : f < pos' =>
          \/ \E i \in 1..Len(pending') : pending'[i] = f
          \/ Slot(f) \in DOMAIN tree /\ (DistinctFiles => tree[Slot(f)] = f)
    <2>1. Len(pending) \in Nat
      BY DEF TypeOK
    <2> QED BY <1>2, <1>3, <2>1 DEF TreeInv, FilesOf
  <1>10. TreeInv'
    BY <1>8, <1>9 DEF TreeInv, Slot
  <1> QED BY <1>4, <1>5, <1>6, <1>7, <1>10

LEMMA InstallFileStep ==
  ASSUME ExtractInv, InstallFile
  PROVE  ExtractInv'
  <1> USE DEF InstallFile, fsVars, world
  <1> PICK e : e = Head(pending)
    OBVIOUS
  <1> PICK s : s = Slot(e)
    OBVIOUS
  <1>1. CASE Taken(e) /\ tree[s] \in DirsOf /\ pc' = "unwind" /\ UNCHANGED <<tree, pending>>
    BY <1>1, RefuseStep DEF fileVars, BeforeCommit, CheckPoints
  <1>2. CASE /\ Taken(e) => tree[s] \in FilesOf
             /\ tree' = Bind(s, e) /\ pending' = Tail(pending) /\ pc' = "installing"
    <2>1. /\ e \in FilesOf /\ e \in Entries /\ e = pending[1]
          /\ pending' \in Seq(FilesOf)
          /\ \A i \in 1..Len(pending) :
               i = 1 \/ \E j \in 1..Len(pending') : pending'[j] = pending[i]
      <3>1. pending \in Seq(FilesOf) /\ pending # <<>>
        BY DEF TypeOK
      <3>2. /\ Len(pending) \in Nat \ {0} /\ Len(pending') = Len(pending) - 1
            /\ \A j \in 1..Len(pending') : pending'[j] = pending[j + 1]
        BY <1>2, <3>1
      <3>3. ASSUME NEW i \in 1..Len(pending), i # 1
            PROVE  \E j \in 1..Len(pending') : pending'[j] = pending[i]
        <4>1. i - 1 \in 1..Len(pending') /\ pending[(i - 1) + 1] = pending[i]
          BY <3>2, <3>3
        <4> QED BY <3>2, <4>1
      <3>4. e \in FilesOf /\ e = pending[1] /\ pending' \in Seq(FilesOf)
        BY <1>2, <3>1
      <3> QED BY <3>3, <3>4 DEF FilesOf
    <2>2. /\ DOMAIN tree' = DOMAIN tree \cup {s} /\ tree'[s] = e
          /\ \A x \in DOMAIN tree : x # s => tree'[x] = tree[x]
      BY <1>2 DEF Bind
    <2>3. s \in DOMAIN tree => tree[s] \in FilesOf /\ Slot(tree[s]) = s
      BY <1>2 DEF Taken, TreeInv
    <2>4. \A x \in DOMAIN tree' : tree'[x] \in Entries /\ Slot(tree'[x]) = x
      BY <2>1, <2>2 DEF TypeOK, TreeInv
    <2>5. TypeOK'
      BY <1>2, <2>1, <2>4 DEF TypeOK
    <2>6. OrderInv' /\ GuardInv' /\ WholeInv'
      BY <1>2 DEF OrderInv, GuardInv, WholeInv, Whole, Opening, Installing, Installed
    <2>7. BatchInv' /\ ContentInv'
      BY <1>2 DEF BatchInv, ContentInv, Opening
    <2>8. \A d \in DirsOf : d < pos => Slot(d) \in DOMAIN tree' /\ tree'[Slot(d)] = d
      BY <2>2, <2>3 DEF TreeInv, DirsOf, FilesOf
    <2>9. ASSUME NEW f \in FilesOf, f < pos
          PROVE  \/ \E i \in 1..Len(pending') : pending'[i] = f
                 \/ Slot(f) \in DOMAIN tree' /\ (DistinctFiles => tree'[Slot(f)] = f)
      <3>1. DistinctFiles /\ Slot(f) = s => f = e
        BY <2>1 DEF DistinctFiles, Slot, OrderInv
      <3> QED BY <2>1, <2>2, <2>9, <3>1 DEF TreeInv
    <2>10. TreeInv'
      BY <2>4, <2>8, <2>9 DEF TreeInv, Slot
    <2> QED BY <2>5, <2>6, <2>7, <2>10
  <1> QED BY <1>1, <1>2

(* The steps that move only the control and the two sibling paths. *)
ControlNext ==
  \/ OpenContainer \/ CheckTarget \/ CheckStaging \/ CreateStaging \/ OpenStaging
  \/ EntriesDone \/ InstallDone \/ CommitStart \/ SyncDirectories
  \/ RenameNoReplace \/ SyncParent \/ Unwind
  \/ Cancel \/ ForeignCreate \/ Kill \/ PowerLoss \/ UNCHANGED vars

LEMMA ControlStep ==
  ASSUME ExtractInv, ControlNext
  PROVE  ControlInv'
  <1> USE ExtractAssumption DEF TypeOK, OrderInv, GuardInv, WholeInv, Whole, fileVars,
        fsVars, world, vars, Opening, Installing, Installed, CheckPoints,
        BeforeCommit, Running, Entries, FilesOf
  <1>1. CASE OpenContainer
    BY <1>1 DEF OpenContainer
  <1>2. CASE CheckTarget
    BY <1>2 DEF CheckTarget
  <1>3. CASE CheckStaging
    BY <1>3 DEF CheckStaging
  <1>4. CASE CreateStaging
    BY <1>4 DEF CreateStaging
  <1>5. CASE OpenStaging
    BY <1>5 DEF OpenStaging, Armed
  <1>6. CASE EntriesDone
    BY <1>6 DEF EntriesDone
  <1>7. CASE InstallDone
    BY <1>7 DEF InstallDone
  <1>8. CASE CommitStart
    BY <1>8 DEF CommitStart, MayCommit
  <1>9. CASE SyncDirectories
    BY <1>9 DEF SyncDirectories
  <1>10. CASE RenameNoReplace
    BY <1>10 DEF RenameNoReplace, TargetFree
  <1>11. CASE SyncParent
    BY <1>11 DEF SyncParent
  <1>12. CASE Unwind
    BY <1>12 DEF Unwind
  <1>13. CASE Cancel
    BY <1>13 DEF Cancel
  <1>14. CASE ForeignCreate
    <2>1. /\ staging' \in {"absent", "ours", "foreign"} /\ target' \in {"absent", "ours", "foreign"}
          /\ staging' = "ours" => staging = "ours"
          /\ target' = "ours" => target = "ours"
          /\ target = "ours" => target' = "ours"
      BY <1>14 DEF ForeignCreate
    <2>2. TypeOK'
      BY <1>14, <2>1 DEF ForeignCreate
    <2> QED BY <1>14, <2>1, <2>2 DEF ForeignCreate
  <1>15. CASE Kill
    <2>1. TypeOK'
      BY <1>15 DEF Kill
    <2>2. OrderInv' /\ GuardInv'
      BY <1>15 DEF Kill
    <2>3. WholeInv'
      BY <1>15 DEF Kill
    <2> QED BY <2>1, <2>2, <2>3
  <1>16. CASE PowerLoss
    <2>1. TypeOK'
      BY <1>16 DEF PowerLoss
    <2>2. OrderInv'
      BY <1>16 DEF PowerLoss
    <2>3. GuardInv'
      BY <1>16 DEF PowerLoss
    <2>4. WholeInv'
      BY <1>16 DEF PowerLoss
    <2> QED BY <2>1, <2>2, <2>3, <2>4
  <1>17. CASE UNCHANGED vars
    BY <1>17
  <1> QED
    BY <1>1, <1>2, <1>3, <1>4, <1>5, <1>6, <1>7, <1>8, <1>9, <1>10, <1>11,
       <1>12, <1>13, <1>14, <1>15, <1>16, <1>17 DEF ControlNext

(* They leave the entries alone and start no file. *)
LEMMA ControlFrame ==
  ASSUME ControlNext
  PROVE  /\ UNCHANGED <<fileVars, world>>
         /\ pc' = "batch" => pc = "batch"
         /\ pc' \in Opening \cup {"entries"} => pc \in Opening \cup {"entries"}
  BY DEF ControlNext, OpenContainer, CheckTarget, CheckStaging, CreateStaging, OpenStaging,
      EntriesDone, InstallDone, CommitStart, SyncDirectories, RenameNoReplace,
      SyncParent, Unwind, Cancel, ForeignCreate, Kill, PowerLoss,
      vars, Opening

(* Every step keeps the invariant. *)
LEMMA InvStep ==
  ASSUME ExtractInv, [Next]_vars
  PROVE  ExtractInv'
  <1>1. CASE CreateDirectory
    BY <1>1, CreateDirectoryStep
  <1>2. CASE BeginFile
    BY <1>2, BeginFileStep
  <1>3. ASSUME NEW c, DecryptChunk(c) PROVE ExtractInv'
    BY <1>3, DecryptChunkStep
  <1>4. CASE WriteBatch
    BY <1>4, WriteBatchStep
  <1>5. CASE FinishFile
    BY <1>5, FinishFileStep
  <1>6. CASE InstallFile
    BY <1>6, InstallFileStep
  <1>7. CASE CancelPoint \/ Fail
    BY <1>7, RefuseStep DEF CancelPoint, Fail, BeforeCommit
  <1>8. CASE ControlNext
    <2>1. ControlInv'
      BY <1>8, ControlStep
    <2>2. DataInv'
      BY <1>8, ControlFrame, DataFrame
    <2> QED BY <2>1, <2>2
  <1> QED BY <1>1, <1>2, <1>3, <1>4, <1>5, <1>6, <1>7, <1>8 DEF Next, ControlNext

(***************************************************************************)
(* The results.                                                            *)
(***************************************************************************)

(* The variables of extract_v2_inner keep their types, and batch_start      *)
(* never passes the file's chunk count.                                     *)
THEOREM ExtractTypes == Spec => []TypeOK
  <1>1. ExtractInv => TypeOK
    OBVIOUS
  <1> QED BY InvInit, InvStep, <1>1, PTL DEF Spec

(* Every reachable state of an extraction satisfies the inductive invariant.*)
THEOREM ExtractInvariance == Spec => []ExtractInv
  BY InvInit, InvStep, PTL DEF Spec

(* However the parallel batches, other programs, cancellation and crashes   *)
(* interleave, a tree at the destination has every entry under its name and *)
(* every file's authenticated chunks once and in order.  PendingFile::commit*)
(* replaces, so no two files of a directory may have one name there.        *)
THEOREM ExtractTargetComplete ==
  ASSUME DistinctFiles
  PROVE  Spec => []TargetComplete
  <1>1. ExtractInv => TargetComplete
    <2> SUFFICES ASSUME ExtractInv, target = "ours" PROVE TargetComplete
      BY DEF TargetComplete
    <2>1. /\ intact /\ pos = N + 1 /\ \A i \in 1..Len(pending) : FALSE
      BY DEF WholeInv, Whole
    <2>2. \A e \in Entries : e < pos /\ (e \in FilesOf \/ e \in DirsOf)
      BY <2>1, ExtractAssumption DEF Entries, FilesOf, DirsOf
    <2>3. \A e \in Entries : Slot(e) \in DOMAIN tree /\ tree[Slot(e)] = e
      BY <2>1, <2>2, DistinctFiles DEF TreeInv
    <2>4. \A f \in FilesOf : content[f] = UpTo(ChunkCount[f])
      BY <2>2 DEF ContentInv, FilesOf
    <2> QED BY <2>1, <2>3, <2>4 DEF TargetComplete, ContentInv, UpTo
  <1> QED BY ExtractInvariance, <1>1, PTL

(* Ok means the tree is at the destination; after an error nothing of ours  *)
(* is there, and the SafeRoot has removed the staging tree.                 *)
THEOREM ExtractAllOrNothing == Spec => []AllOrNothing
  <1>1. ExtractInv => AllOrNothing
    BY DEF WholeInv, GuardInv, TypeOK, AllOrNothing
  <1> QED BY ExtractInvariance, <1>1, PTL

(***************************************************************************)
(* Extraction implements AtomicPublish.                                    *)
(***************************************************************************)
LEMMA PromiseInit == Init => Promise!Init
  BY DEF Init, Promise!Init, Whole, Outcome

(* Every step of extract_v2_inner and of its environment is a step of       *)
(* AtomicPublish or leaves its variables alone.                             *)
LEMMA PromiseStep ==
  ASSUME ExtractInv, ExtractInv', [Next]_vars
  PROVE  [Promise!Next]_(Promise!vars)
  <1> USE DEF WholeInv, Whole, Outcome, Promise!vars, vars, fileVars, fsVars, world,
        CheckPoints, BeforeCommit, Running
  <1>1. CASE RenameNoReplace
    BY <1>1, ExtractAssumption DEF RenameNoReplace, TargetFree, OrderInv, TypeOK, Installing, Installed,
      Entries, FilesOf, Promise!Next, Promise!Publish
  <1>2. CASE SyncParent
    BY <1>2 DEF SyncParent, Promise!Next, Promise!Succeed
  <1>3. CASE Unwind
    BY <1>3 DEF Unwind, Promise!Next, Promise!GiveUp
  <1>4. CASE Kill
    BY <1>4 DEF Kill, Promise!Next, Promise!Crash
  <1>5. CASE PowerLoss
    BY <1>5 DEF PowerLoss, Promise!Next, Promise!Crash
  <1>6. CASE ForeignCreate
    BY <1>6 DEF ForeignCreate, Promise!Next, Promise!Occupy
  <1>7. CASE Cancel
    <2>1. CASE pc \in BeforeCommit \cup {"installing"}
      <3>1. target # "ours" /\ early' = TRUE /\ Outcome = "running"
        BY <1>7, <2>1 DEF Cancel
      <3> QED BY <1>7, <3>1 DEF Cancel, Promise!Next, Promise!Prepare
    <2>2. CASE pc \notin BeforeCommit \cup {"installing"}
      <3>1. early' = FALSE /\ early = FALSE
        BY <1>7, <2>2, Zenon DEF Cancel, TypeOK
      <3> QED BY <1>7, <3>1 DEF Cancel
    <2> QED BY <2>1, <2>2
  <1>8. CASE SyncDirectories
    BY <1>8 DEF SyncDirectories, Promise!Next, Promise!Prepare
  <1>9. CASE FinishFile
    BY <1>9 DEF FinishFile, Promise!Next, Promise!Prepare
  <1>10. CASE InstallFile
    BY <1>10 DEF InstallFile, Promise!Next, Promise!Prepare
  <1>11. CASE \/ OpenContainer \/ CheckTarget \/ CheckStaging \/ CreateStaging \/ OpenStaging
              \/ CreateDirectory \/ BeginFile \/ WriteBatch \/ EntriesDone
    BY <1>11 DEF OpenContainer, CheckTarget, CheckStaging, CreateStaging, OpenStaging,
         CreateDirectory, BeginFile, WriteBatch, EntriesDone
  <1>12. CASE InstallDone \/ CommitStart \/ CancelPoint \/ Fail \/ UNCHANGED vars
    BY <1>12 DEF InstallDone, CommitStart, CancelPoint, Fail
  <1>13. ASSUME NEW c, DecryptChunk(c) PROVE [Promise!Next]_(Promise!vars)
    BY <1>13 DEF DecryptChunk
  <1> QED
    BY <1>1, <1>2, <1>3, <1>4, <1>5, <1>6, <1>7, <1>8, <1>9, <1>10, <1>11,
       <1>12, <1>13 DEF Next

(* extract_v2_to_with_control implements AtomicPublish: SafeRoot::commit    *)
(* publishes the whole, synchronised tree in one step, at a free name and   *)
(* unless cancelled before CommitStarted.                                   *)
THEOREM ExtractPublishesAtomically == Spec => PublishesAtomically
  BY ExtractInvariance, PromiseInit, PromiseStep, PTL
     DEF Spec, PublishesAtomically, Promise!Spec
=============================================================================
