-------------------------------- MODULE Pack --------------------------------
(***************************************************************************)
(* Packing a directory into a container (pack.rs: pack_inner, scan_source, *)
(* encrypt_source_file and the TempOutput guard).                          *)
(*                                                                         *)
(* The source tree is live: another program may rewrite, grow or shrink a  *)
(* file at any time.  Other programs may also create files at the output   *)
(* and at the temporary path.  Files are numbered in walk order; a file is *)
(* its version (what its bytes are) and its size, counted in chunks, so    *)
(* chunk c of a file exists while c is below its size.  A fingerprint      *)
(* (length, mtime, device, inode) is taken to change with every rewrite.   *)
(* The chunks of all files are encrypted by a pool of threads, one step    *)
(* per chunk.                                                              *)
(***************************************************************************)
EXTENDS Naturals

CONSTANTS NumFiles,     \* number of source files
          MaxSize,      \* bound: chunks of the largest file
          MaxVersion    \* bound: versions a source file goes through

ASSUME PackAssumption ==
  /\ NumFiles \in Nat
  /\ MaxSize \in Nat
  /\ MaxVersion \in Nat \ {0}

Files == 1..NumFiles
Chunks == 0..(MaxSize - 1)

VARIABLES
  pc,          \* where pack_inner is
  scanPos,     \* the file scan_source is at
  version,     \* current version of each source file
  length,      \* current size of each source file
  size,        \* entry.size recorded by the scan
  fingerprint, \* SourceSnapshot.fingerprint recorded by the scan
  opened,      \* files whose encryption has passed the first ensure_unchanged
  finished,    \* files that have passed the second one
  cell,        \* version the chunk written to the container came from; 0: none
  temp, out,   \* what is at the temporary and at the output path
  guard,       \* the TempOutput guard exists and does not keep
  intact,      \* our file's bytes are what was written
  synced,      \* our file's bytes are on the medium
  linkSynced,  \* the output's directory entry is on the medium
  cancelled,   \* the CancellationToken
  early        \* history: it was set before CommitStarted

srcVars == <<version, length>>
scanVars == <<scanPos, size, fingerprint>>
encVars == <<opened, finished, cell>>
fsVars == <<temp, out, guard, intact, synced, linkSynced>>
vars == <<pc, srcVars, scanVars, encVars, fsVars, cancelled, early>>

(* Places whose next instruction is cancellation.check(). *)
CheckPoints == {"start", "scan_stat", "keys", "encrypt", "verify", "commit"}
BeforeCommit == CheckPoints \cup {"scan_print", "tempname", "create"}
Running == BeforeCommit \cup {"rename", "sync_parent", "unwind"}
Places == {"ok", "err", "dead"} \cup Running

Init ==
  /\ pc = "start"
  /\ scanPos = 1
  /\ version = [f \in Files |-> 1]
  /\ length \in [Files -> 0..MaxSize]
  /\ size = [f \in Files |-> 0]
  /\ fingerprint = [f \in Files |-> 0]
  /\ opened = {} /\ finished = {}
  /\ cell = [f \in Files |-> [c \in Chunks |-> 0]]
  /\ temp \in {"absent", "foreign"} /\ out \in {"absent", "foreign"}
  /\ guard = FALSE
  /\ intact = TRUE /\ synced = FALSE /\ linkSynced = FALSE
  /\ cancelled = FALSE /\ early = FALSE
----------------------------------------------------------------------------
(* Arguments are accepted; refusals are Fail. *)
Start ==
  /\ pc = "start" /\ ~cancelled
  /\ pc' = "scan_stat"
  /\ UNCHANGED <<srcVars, scanVars, encVars, fsVars, cancelled, early>>

(* scan_source opens the next file and reads its length ... *)
ScanStat ==
  /\ pc = "scan_stat" /\ ~cancelled /\ scanPos <= NumFiles
  /\ size' = [size EXCEPT ![scanPos] = length[scanPos]]
  /\ pc' = "scan_print"
  /\ UNCHANGED <<scanPos, fingerprint, srcVars, encVars, fsVars, cancelled, early>>

(* ... and then stats it again for the fingerprint. *)
ScanFingerprint ==
  /\ pc = "scan_print"
  /\ fingerprint' = [fingerprint EXCEPT ![scanPos] = version[scanPos]]
  /\ scanPos' = scanPos + 1
  /\ pc' = "scan_stat"
  /\ UNCHANGED <<size, srcVars, encVars, fsVars, cancelled, early>>

ScanDone ==
  /\ pc = "scan_stat" /\ scanPos > NumFiles
  /\ pc' = "keys"
  /\ UNCHANGED <<srcVars, scanVars, encVars, fsVars, cancelled, early>>

(* configure_duress and make_key_slot, a check after each. *)
DeriveKeys ==
  /\ pc = "keys" /\ ~cancelled
  /\ pc' = "tempname"
  /\ UNCHANGED <<srcVars, scanVars, encVars, fsVars, cancelled, early>>

(* A requested temporary path must not exist, a generated one does not; the *)
(* guard that removes it is built before the file is.                       *)
ChooseTemp ==
  /\ pc = "tempname"
  /\ \/ /\ temp = "absent"
        /\ guard' = TRUE
        /\ pc' = "create"
     \/ /\ temp # "absent"
        /\ pc' = "unwind"
        /\ UNCHANGED guard
  /\ UNCHANGED <<temp, out, intact, synced, linkSynced>>
  /\ UNCHANGED <<srcVars, scanVars, encVars, cancelled, early>>

(* create_new, set_len, header and index. *)
CreateTemp ==
  /\ pc = "create"
  /\ \/ /\ temp = "absent"
        /\ temp' = "ours"
        /\ pc' = "encrypt"
     \/ /\ temp # "absent"
        /\ pc' = "unwind"
        /\ UNCHANGED temp
  /\ UNCHANGED <<out, guard, intact, synced, linkSynced>>
  /\ UNCHANGED <<srcVars, scanVars, encVars, cancelled, early>>

ensure_unchanged(f) == version[f] = fingerprint[f]

(* A file joins the parallel loop after the first comparison ... *)
OpenSource(f) ==
  /\ pc = "encrypt" /\ ~cancelled /\ f \notin opened
  /\ \/ /\ ensure_unchanged(f)
        /\ opened' = opened \cup {f}
        /\ UNCHANGED pc
     \/ /\ ~ensure_unchanged(f)
        /\ pc' = "unwind"
        /\ UNCHANGED opened
  /\ UNCHANGED <<finished, cell, srcVars, scanVars, fsVars, cancelled, early>>

(* ... its chunks are read at the file's current version; read_exact_at     *)
(* fails on a chunk the file no longer has ...                              *)
EncryptChunk(f, c) ==
  /\ pc = "encrypt" /\ ~cancelled
  /\ f \in opened \ finished /\ c < size[f] /\ cell[f][c] = 0
  /\ \/ /\ c < length[f]
        /\ cell' = [cell EXCEPT ![f][c] = version[f]]
        /\ UNCHANGED pc
     \/ /\ c >= length[f]
        /\ pc' = "unwind"
        /\ UNCHANGED cell
  /\ UNCHANGED <<opened, finished, srcVars, scanVars, fsVars, cancelled, early>>

Encrypted(f) == \A c \in Chunks : c < size[f] => cell[f][c] # 0

(* The file is done without a second comparison. *)
MutCloseSource(f) ==
  /\ pc = "encrypt" /\ f \in opened \ finished /\ Encrypted(f)
  /\ finished' = finished \cup {f}
  /\ UNCHANGED <<pc, opened, cell, srcVars, scanVars, fsVars, cancelled, early>>

(* A file without chunks counts as done before it was opened. *)
MutCloseUnopened(f) ==
  /\ pc = "encrypt" /\ f \notin finished /\ Encrypted(f)
  /\ finished' = finished \cup {f}
  /\ UNCHANGED <<pc, opened, cell, srcVars, scanVars, fsVars, cancelled, early>>

(* ... and after its last chunk the fingerprint is compared again. *)
CloseSource(f) ==
  /\ pc = "encrypt" /\ f \in opened \ finished /\ Encrypted(f)
  /\ \/ /\ ensure_unchanged(f)
        /\ finished' = finished \cup {f}
        /\ UNCHANGED pc
     \/ /\ ~ensure_unchanged(f)
        /\ pc' = "unwind"
        /\ UNCHANGED finished
  /\ UNCHANGED <<opened, cell, srcVars, scanVars, fsVars, cancelled, early>>

(* The container is not synchronised before it is verified. *)
MutSyncContainer ==
  /\ pc = "encrypt" /\ finished = Files
  /\ pc' = "verify"
  /\ UNCHANGED <<srcVars, scanVars, encVars, fsVars, cancelled, early>>

SyncContainer ==
  /\ pc = "encrypt" /\ finished = Files
  /\ synced' = TRUE
  /\ pc' = "verify"
  /\ UNCHANGED <<temp, out, guard, intact, linkSynced>>
  /\ UNCHANGED <<srcVars, scanVars, encVars, cancelled, early>>

(* The container is reopened with the password and every chunk decrypted. *)
SelfVerify ==
  /\ pc = "verify" /\ ~cancelled
  /\ pc' = IF \A f \in Files : Encrypted(f) THEN "commit" ELSE "unwind"
  /\ UNCHANGED <<srcVars, scanVars, encVars, fsVars, cancelled, early>>

MayCommit == ~cancelled

(* The last check, then CommitStarted. *)
CommitStart ==
  /\ pc = "commit" /\ MayCommit
  /\ pc' = "rename"
  /\ UNCHANGED <<srcVars, scanVars, encVars, fsVars, cancelled, early>>

TargetFree == out = "absent"

(* rename_file_no_replace. *)
RenameNoReplace ==
  /\ pc = "rename"
  /\ \/ /\ TargetFree
        /\ out' = "ours" /\ temp' = "absent"
        /\ pc' = "sync_parent"
     \/ /\ ~TargetFree
        /\ pc' = "unwind"
        /\ UNCHANGED <<out, temp>>
  /\ UNCHANGED <<guard, intact, synced, linkSynced>>
  /\ UNCHANGED <<srcVars, scanVars, encVars, cancelled, early>>

(* A failing sync_parent is only a warning; then keep = true and Ok. *)
SyncParent ==
  /\ pc = "sync_parent"
  /\ linkSynced' \in BOOLEAN
  /\ guard' = FALSE
  /\ pc' = "ok"
  /\ UNCHANGED <<temp, out, intact, synced>>
  /\ UNCHANGED <<srcVars, scanVars, encVars, cancelled, early>>
----------------------------------------------------------------------------
(* cancellation.check() returns an error. *)
CancelPoint ==
  /\ pc \in CheckPoints /\ cancelled
  /\ pc' = "unwind"
  /\ UNCHANGED <<srcVars, scanVars, encVars, fsVars, cancelled, early>>

(* Any other call before the commit may fail; so may the rename. *)
Fail ==
  /\ pc \in BeforeCommit \cup {"rename"}
  /\ pc' = "unwind"
  /\ UNCHANGED <<srcVars, scanVars, encVars, fsVars, cancelled, early>>

(* The guard is forgotten. *)
MutAfterDrop == temp

(* What the temporary path holds once the guard has removed it. *)
AfterDrop == IF guard THEN "absent" ELSE temp

(* Unwinding drops the guard, which removes whatever is at its path. *)
Unwind ==
  /\ pc = "unwind"
  /\ temp' = AfterDrop
  /\ guard' = FALSE
  /\ pc' = "err"
  /\ UNCHANGED <<out, intact, synced, linkSynced>>
  /\ UNCHANGED <<srcVars, scanVars, encVars, cancelled, early>>

(* The environment. *)
Cancel ==
  /\ pc \in Running /\ ~cancelled
  /\ cancelled' = TRUE
  /\ early' = (pc \in BeforeCommit)
  /\ UNCHANGED <<pc, srcVars, scanVars, encVars, fsVars>>

Rewrite(f, n) ==
  /\ pc \in BeforeCommit /\ version[f] < MaxVersion
  /\ version' = [version EXCEPT ![f] = @ + 1]
  /\ length' = [length EXCEPT ![f] = n]
  /\ UNCHANGED <<pc, scanVars, encVars, fsVars, cancelled, early>>

ForeignCreate ==
  /\ pc \in Running
  /\ \/ temp = "absent" /\ temp' = "foreign" /\ UNCHANGED out
     \/ out = "absent" /\ out' = "foreign" /\ UNCHANGED temp
  /\ UNCHANGED <<pc, srcVars, scanVars, encVars, guard, intact, synced,
                 linkSynced, cancelled, early>>

Kill ==
  /\ pc \in Running
  /\ pc' = "dead"
  /\ UNCHANGED <<srcVars, scanVars, encVars, fsVars, cancelled, early>>

(* Power loss: unsynced bytes of our file may be lost, an unsynced rename   *)
(* may be undone.                                                           *)
PowerLoss ==
  /\ pc \in Running \cup {"ok"}
  /\ pc' = "dead"
  /\ intact' \in IF synced THEN {intact} ELSE BOOLEAN
  /\ \/ UNCHANGED <<temp, out>>
     \/ /\ out = "ours" /\ temp = "absent" /\ ~linkSynced
        /\ temp' = "ours" /\ out' = "absent"
  /\ UNCHANGED <<srcVars, scanVars, encVars, guard, synced, linkSynced,
                 cancelled, early>>

Next ==
  \/ Start \/ ScanStat \/ ScanFingerprint \/ ScanDone \/ DeriveKeys
  \/ ChooseTemp \/ CreateTemp
  \/ \E f \in Files : OpenSource(f) \/ CloseSource(f)
                        \/ \E c \in Chunks : EncryptChunk(f, c)
  \/ SyncContainer \/ SelfVerify \/ CommitStart \/ RenameNoReplace \/ SyncParent
  \/ CancelPoint \/ Fail \/ Unwind
  \/ Cancel \/ ForeignCreate \/ Kill \/ PowerLoss
  \/ \E f \in Files, n \in 0..MaxSize : Rewrite(f, n)

Spec == Init /\ [][Next]_vars
----------------------------------------------------------------------------
(* Every variable has its type. *)
TypeOK ==
  /\ pc \in Places
  /\ scanPos \in 1..(NumFiles + 1)
  /\ version \in [Files -> 1..MaxVersion]
  /\ length \in [Files -> 0..MaxSize]
  /\ size \in [Files -> 0..MaxSize]
  /\ fingerprint \in [Files -> 0..MaxVersion]
  /\ opened \in SUBSET Files /\ finished \in SUBSET opened
  /\ cell \in [Files -> [Chunks -> 0..MaxVersion]]
  /\ temp \in {"absent", "ours", "foreign"}
  /\ out \in {"absent", "ours", "foreign"}
  /\ guard \in BOOLEAN /\ intact \in BOOLEAN /\ synced \in BOOLEAN
  /\ linkSynced \in BOOLEAN /\ cancelled \in BOOLEAN /\ early \in BOOLEAN

(* A container at the output path, also after a kill or a power loss, holds *)
(* every chunk its index promises, each from the one version of its file    *)
(* that was fingerprinted: ensure_unchanged before and after the parallel   *)
(* reads leaves no mixture of versions, and the bytes were synchronised     *)
(* before the rename.                                                       *)
OutputNotTorn ==
  out = "ours" => /\ intact
                  /\ \A f \in Files, c \in Chunks :
                       c < size[f] => cell[f][c] = fingerprint[f]

(* Success means the container is at the output path; an error means there  *)
(* is nothing of ours left, neither at the output nor at the temporary path.*)
AllOrNothing ==
  /\ pc = "ok" => out = "ours"
  /\ pc = "err" => out # "ours" /\ temp # "ours"

(* "source-change detection" (README.md:66): a published container holds    *)
(* each file as long as the version it was fingerprinted at.                *)
OutputComplete ==
  [][ (out # "ours" /\ out' = "ours")
        => \A f \in Files : fingerprint[f] = version[f] => size[f] = length[f] ]_vars

(* How pack_inner's state appears to its caller. *)
Outcome == IF pc \in {"ok", "err", "dead"} THEN pc ELSE "running"
Whole == finished = Files /\ synced /\ intact

Promise == INSTANCE AtomicPublish WITH
  place <- out, whole <- Whole, refused <- early, durable <- linkSynced,
  outcome <- Outcome

(* Packing implements AtomicPublish: whatever other programs, cancellation, *)
(* failures and crashes do, the output path goes from free to the whole,    *)
(* synchronised container in one step, only an unsynchronised rename is     *)
(* ever undone, and the result reported agrees with what is there.          *)
PublishesAtomically == Promise!Spec
=============================================================================
