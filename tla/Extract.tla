------------------------------- MODULE Extract -------------------------------
(***************************************************************************)
(* Extracting a container (extract.rs: extract_v2_inner, safe_fs.rs:       *)
(* SafeRoot and PendingFile).                                              *)
(*                                                                         *)
(* Everything is written to a private sibling staging directory; files are *)
(* decrypted in ordered batches of chunks handled by parallel threads and  *)
(* kept under temporary names until all of them are complete; one rename   *)
(* publishes the tree.  Entries are numbered in the order the code visits  *)
(* them (by depth, then id), 0 is the root.  fsName is the name the        *)
(* destination file system knows an entry by: two entries of one directory *)
(* have different names in the container, yet a case-insensitive file      *)
(* system may take them for the same.  Removing the staging tree succeeds. *)
(***************************************************************************)
EXTENDS Naturals, Sequences, FiniteSets

CONSTANTS N,           \* number of entries
          Kind,        \* "dir" or "file"
          Parent,      \* parent entry; visited earlier
          FsNames,     \* ways the destination may see the names: entry -> name
          ChunkCount,  \* chunks of a file
          BatchSize,   \* ordered_batch_size()
          CorruptSets  \* sets of chunks <<file, index>> to be damaged

Entries == 1..N
FilesOf == {e \in Entries : Kind[e] = "file"}
DirsOf == {e \in Entries : Kind[e] = "dir"}

ASSUME ExtractAssumption ==
  /\ N \in Nat /\ BatchSize \in Nat \ {0}
  /\ Kind \in [Entries -> {"dir", "file"}]
  /\ \A e \in Entries : Parent[e] < e /\ Parent[e] \in {0} \cup DirsOf
  /\ ChunkCount \in [Entries -> Nat]
  /\ \A n \in FsNames : DOMAIN n = Entries

VARIABLES
  pc,
  pos,         \* the entry being visited
  batchStart,  \* batch_start of the file being written
  decrypted,   \* chunks of the current batch, in order of completion
  content,     \* chunks written to each file so far
  pending,     \* pending_files: complete files still under temporary names
  tree,        \* final names present in the staging tree: slot -> entry
  staging, target,  \* what is at the two sibling paths
  guard,       \* the SafeRoot: "none", "armed" or "dropped"
  fileSynced,  \* files that went through finish_writing
  dirsSynced,  \* sync_open_directories has run
  linkSynced,  \* the parent directory has been synchronised
  intact,      \* the published tree is what was written
  corrupt,     \* damaged chunks of the container
  fsName,      \* the name the destination knows each entry by
  cancelled, early

fileVars == <<pos, batchStart, decrypted, content, pending, tree, fileSynced>>
fsVars == <<staging, target, guard, dirsSynced, linkSynced, intact>>
world == <<corrupt, fsName>>
vars == <<pc, fileVars, fsVars, world, cancelled, early>>

CheckPoints == {"start", "entries", "batch", "install", "commit"}
BeforeCommit == CheckPoints \cup {"check_target", "check_staging", "mkdir", "opendir"}
Running == BeforeCommit \cup {"sync_dirs", "rename", "sync_parent", "unwind"}

Slot(e) == <<Parent[e], fsName[e]>>
Taken(e) == Slot(e) \in DOMAIN tree
Bind(s, e) == [x \in DOMAIN tree \cup {s} |-> IF x = s THEN e ELSE tree[x]]

Init ==
  /\ pc = "start"
  /\ pos = 1 /\ batchStart = 0 /\ decrypted = <<>>
  /\ content = [e \in Entries |-> <<>>]
  /\ pending = <<>>
  /\ tree = [s \in {} |-> 0]
  /\ fileSynced = {}
  /\ staging \in {"absent", "foreign"} /\ target \in {"absent", "foreign"}
  /\ guard = "none"
  /\ dirsSynced = FALSE /\ linkSynced = FALSE /\ intact = TRUE
  /\ corrupt \in CorruptSets /\ fsName \in FsNames
  /\ cancelled = FALSE /\ early = FALSE
----------------------------------------------------------------------------
(* v2::open and the name map; a wrong password or a damaged index is Fail. *)
OpenContainer ==
  /\ pc = "start" /\ ~cancelled
  /\ pc' = "check_target"
  /\ UNCHANGED <<fileVars, fsVars, world, cancelled, early>>

(* open_new_at: the destination must be absent ... *)
CheckTarget ==
  /\ pc = "check_target"
  /\ pc' = IF target = "absent" THEN "check_staging" ELSE "unwind"
  /\ UNCHANGED <<fileVars, fsVars, world, cancelled, early>>

(* ... the staging name free ... *)
CheckStaging ==
  /\ pc = "check_staging"
  /\ pc' = IF staging = "absent" THEN "mkdir" ELSE "unwind"
  /\ UNCHANGED <<fileVars, fsVars, world, cancelled, early>>

(* ... the staging directory is created ... *)
CreateStaging ==
  /\ pc = "mkdir"
  /\ \/ staging = "absent" /\ staging' = "ours" /\ pc' = "opendir"
     \/ staging # "absent" /\ pc' = "unwind" /\ UNCHANGED staging
  /\ UNCHANGED <<target, guard, dirsSynced, linkSynced, intact>>
  /\ UNCHANGED <<fileVars, world, cancelled, early>>

(* The guard does not exist. *)
MutArmed == "none"

Armed == "armed"

(* ... and opened; only now does the SafeRoot that removes it exist. *)
OpenStaging ==
  /\ pc = "opendir"
  /\ guard' = Armed
  /\ pc' = "entries"
  /\ UNCHANGED <<staging, target, dirsSynced, linkSynced, intact>>
  /\ UNCHANGED <<fileVars, world, cancelled, early>>

CreateDirectory ==
  /\ pc = "entries" /\ ~cancelled /\ pos \in DirsOf
  /\ \/ ~Taken(pos) /\ tree' = Bind(Slot(pos), pos) /\ pos' = pos + 1 /\ UNCHANGED pc
     \/ Taken(pos) /\ pc' = "unwind" /\ UNCHANGED <<tree, pos>>
  /\ UNCHANGED <<batchStart, decrypted, content, pending, fileSynced>>
  /\ UNCHANGED <<fsVars, world, cancelled, early>>

(* begin_file refuses a final name that exists, then creates a temporary.  *)
BeginFile ==
  /\ pc = "entries" /\ ~cancelled /\ pos \in FilesOf
  /\ pc' = IF Taken(pos) THEN "unwind" ELSE "batch"
  /\ batchStart' = 0 /\ decrypted' = <<>>
  /\ UNCHANGED <<pos, content, pending, tree, fileSynced>>
  /\ UNCHANGED <<fsVars, world, cancelled, early>>

(* The minimum with chunk_count is missing. *)
MutBatchEnd == batchStart + BatchSize

BatchEnd == IF ChunkCount[pos] <= batchStart + BatchSize
              THEN ChunkCount[pos] ELSE batchStart + BatchSize
Batch == batchStart..(BatchEnd - 1)

(* One thread decrypts one chunk of the batch. *)
DecryptChunk(c) ==
  /\ pc = "batch" /\ ~cancelled /\ c \in Batch
  /\ \A i \in 1..Len(decrypted) : decrypted[i] # c
  /\ \/ <<pos, c>> \notin corrupt /\ decrypted' = Append(decrypted, c) /\ UNCHANGED pc
     \/ <<pos, c>> \in corrupt /\ pc' = "unwind" /\ UNCHANGED decrypted
  /\ UNCHANGED <<pos, batchStart, content, pending, tree, fileSynced>>
  /\ UNCHANGED <<fsVars, world, cancelled, early>>

(* Chunks are written in the order their threads finished. *)
MutCollected == decrypted

(* collect() on the parallel iterator keeps the order of the batch. *)
Collected == [i \in 1..Cardinality(Batch) |-> batchStart + i - 1]

(* The whole batch is there: write it and go on with the next. *)
WriteBatch ==
  /\ pc = "batch" /\ batchStart < ChunkCount[pos]
  /\ Len(decrypted) = Cardinality(Batch)
  /\ content' = [content EXCEPT ![pos] = @ \o Collected]
  /\ batchStart' = BatchEnd
  /\ decrypted' = <<>>
  /\ UNCHANGED <<pc, pos, pending, tree, fileSynced>>
  /\ UNCHANGED <<fsVars, world, cancelled, early>>

(* The finished file is not synchronised. *)
MutFinishedFiles == fileSynced

FinishedFiles == fileSynced \cup {pos}

FinishFile ==
  /\ pc = "batch" /\ batchStart = ChunkCount[pos]
  /\ fileSynced' = FinishedFiles
  /\ pending' = Append(pending, pos)
  /\ pos' = pos + 1
  /\ pc' = "entries"
  /\ UNCHANGED <<batchStart, decrypted, content, tree>>
  /\ UNCHANGED <<fsVars, world, cancelled, early>>

EntriesDone ==
  /\ pc = "entries" /\ pos > N
  /\ pc' = "install"
  /\ UNCHANGED <<fileVars, fsVars, world, cancelled, early>>

(* PendingFile::commit: a plain rename inside the staging tree. *)
InstallFile ==
  /\ pc \in {"install", "installing"} /\ pending # <<>>
  /\ pc = "install" => ~cancelled
  /\ LET e == Head(pending)
     IN  \/ /\ Taken(e) => tree[Slot(e)] \in FilesOf
            /\ tree' = Bind(Slot(e), e)
            /\ pending' = Tail(pending)
            /\ pc' = "installing"
         \/ /\ Taken(e) /\ tree[Slot(e)] \in DirsOf
            /\ pc' = "unwind"
            /\ UNCHANGED <<tree, pending>>
  /\ UNCHANGED <<pos, batchStart, decrypted, content, fileSynced>>
  /\ UNCHANGED <<fsVars, world, cancelled, early>>

InstallDone ==
  /\ \/ pc = "installing"
     \/ pc = "install" /\ ~cancelled
  /\ pending = <<>>
  /\ pc' = "commit"
  /\ UNCHANGED <<fileVars, fsVars, world, cancelled, early>>

MayCommit == ~cancelled

CommitStart ==
  /\ pc = "commit" /\ MayCommit
  /\ pc' = "sync_dirs"
  /\ UNCHANGED <<fileVars, fsVars, world, cancelled, early>>

SyncDirectories ==
  /\ pc = "sync_dirs"
  /\ dirsSynced' = TRUE
  /\ pc' = "rename"
  /\ UNCHANGED <<staging, target, guard, linkSynced, intact>>
  /\ UNCHANGED <<fileVars, world, cancelled, early>>

TargetFree == target = "absent"

RenameNoReplace ==
  /\ pc = "rename"
  /\ \/ /\ TargetFree
        /\ target' = "ours" /\ staging' = "absent" /\ guard' = "dropped"
        /\ pc' = "sync_parent"
     \/ /\ ~TargetFree
        /\ pc' = "unwind"
        /\ UNCHANGED <<target, staging, guard>>
  /\ UNCHANGED <<dirsSynced, linkSynced, intact>>
  /\ UNCHANGED <<fileVars, world, cancelled, early>>

(* A failing parent sync is only a warning. *)
SyncParent ==
  /\ pc = "sync_parent"
  /\ linkSynced' \in BOOLEAN
  /\ pc' = "ok"
  /\ UNCHANGED <<staging, target, guard, dirsSynced, intact>>
  /\ UNCHANGED <<fileVars, world, cancelled, early>>
----------------------------------------------------------------------------
(* cancellation.check() returns an error; a batch checks before each chunk. *)
CancelPoint ==
  /\ pc \in CheckPoints /\ cancelled
  /\ pc = "batch" => Len(decrypted) < Cardinality(Batch)
  /\ pc' = "unwind"
  /\ UNCHANGED <<fileVars, fsVars, world, cancelled, early>>

Fail ==
  /\ pc \in BeforeCommit \cup {"installing", "sync_dirs", "rename"}
  /\ pc' = "unwind"
  /\ UNCHANGED <<fileVars, fsVars, world, cancelled, early>>

(* Drop for PendingFile and SafeRoot: the staging tree is removed if the    *)
(* SafeRoot exists.                                                         *)
Unwind ==
  /\ pc = "unwind"
  /\ pc' = "err"
  /\ \/ guard = "armed" /\ staging' = "absent" /\ guard' = "dropped"
     \/ guard # "armed" /\ UNCHANGED <<staging, guard>>
  /\ UNCHANGED <<target, dirsSynced, linkSynced, intact>>
  /\ UNCHANGED <<fileVars, world, cancelled, early>>

Cancel ==
  /\ pc \in Running \cup {"installing"} /\ ~cancelled
  /\ cancelled' = TRUE
  /\ early' = (pc \in BeforeCommit \cup {"installing"})
  /\ UNCHANGED <<pc, fileVars, fsVars, world>>

ForeignCreate ==
  /\ pc \in Running \cup {"installing"}
  /\ \/ staging = "absent" /\ staging' = "foreign" /\ UNCHANGED target
     \/ target = "absent" /\ target' = "foreign" /\ UNCHANGED staging
  /\ UNCHANGED <<pc, fileVars, guard, dirsSynced, linkSynced, intact, world,
                 cancelled, early>>

Kill ==
  /\ pc \in Running \cup {"installing"}
  /\ pc' = "dead"
  /\ UNCHANGED <<fileVars, fsVars, world, cancelled, early>>

(* Power loss: what was not synchronised may be gone, an unsynchronised     *)
(* rename of the tree undone.                                               *)
PowerLoss ==
  /\ pc \in Running \cup {"installing", "ok"}
  /\ pc' = "dead"
  /\ intact' \in IF dirsSynced /\ FilesOf \subseteq fileSynced THEN {intact} ELSE BOOLEAN
  /\ \/ UNCHANGED <<staging, target>>
     \/ /\ target = "ours" /\ staging = "absent" /\ ~linkSynced
        /\ staging' = "ours" /\ target' = "absent"
  /\ UNCHANGED <<fileVars, guard, dirsSynced, linkSynced, world, cancelled, early>>

Next ==
  \/ OpenContainer \/ CheckTarget \/ CheckStaging \/ CreateStaging \/ OpenStaging
  \/ CreateDirectory \/ BeginFile \/ WriteBatch \/ FinishFile \/ EntriesDone
  \/ \E c \in UNION {0..(ChunkCount[e] - 1) : e \in FilesOf} : DecryptChunk(c)
  \/ InstallFile \/ InstallDone \/ CommitStart \/ SyncDirectories
  \/ RenameNoReplace \/ SyncParent
  \/ CancelPoint \/ Fail \/ Unwind
  \/ Cancel \/ ForeignCreate \/ Kill \/ PowerLoss

Spec == Init /\ [][Next]_vars
----------------------------------------------------------------------------
(* Every variable has its type. *)
TypeOK ==
  /\ pc \in Running \cup {"installing", "ok", "err", "dead"}
  /\ pos \in 1..(N + 1)
  /\ batchStart \in Nat
  /\ pc = "batch" => batchStart <= ChunkCount[pos]
  /\ content \in [Entries -> Seq(Nat)]
  /\ pending \in Seq(FilesOf)
  /\ \A s \in DOMAIN tree : tree[s] \in Entries
  /\ staging \in {"absent", "ours", "foreign"}
  /\ target \in {"absent", "ours", "foreign"}
  /\ guard \in {"none", "armed", "dropped"}
  /\ fileSynced \subseteq FilesOf
  /\ dirsSynced \in BOOLEAN /\ linkSynced \in BOOLEAN /\ intact \in BOOLEAN
  /\ cancelled \in BOOLEAN /\ early \in BOOLEAN

(* "Successful extraction appears only after the complete staging tree was  *)
(* authenticated and atomically renamed" (TESTING.md): a tree at the        *)
(* destination, also after a kill or a power loss, has every entry under    *)
(* its name, every file's chunks once and in order, and no damaged chunk.   *)
TargetComplete ==
  target = "ours" =>
     /\ intact
     /\ \A e \in Entries : Slot(e) \in DOMAIN tree /\ tree[Slot(e)] = e
     /\ \A f \in FilesOf : /\ content[f] = [i \in 1..ChunkCount[f] |-> i - 1]
                           /\ \A i \in 1..Len(content[f]) : <<f, content[f][i]>> \notin corrupt

(* Success means the tree is at the destination; an error that nothing of   *)
(* ours is there and that a staging tree under a SafeRoot has been removed. *)
AllOrNothing ==
  /\ pc = "ok" => target = "ours"
  /\ pc = "err" => /\ target # "ours"
                   /\ pos > 1 => staging # "ours"

(* How extract_v2_inner's state appears to its caller. *)
Outcome == IF pc \in {"ok", "err", "dead"} THEN pc ELSE "running"
Whole == /\ dirsSynced /\ FilesOf \subseteq fileSynced /\ pending = <<>>
         /\ intact

Promise == INSTANCE AtomicPublish WITH
  place <- target, whole <- Whole, refused <- early, durable <- linkSynced,
  outcome <- Outcome

(* Extraction implements AtomicPublish: the destination goes from free to   *)
(* the whole, synchronised tree in one step, only an unsynchronised rename  *)
(* is ever undone, and the result reported agrees with what is there.       *)
PublishesAtomically == Promise!Spec
=============================================================================
