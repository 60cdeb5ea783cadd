----------------------------- MODULE PackProofs -----------------------------
(* Machine-checked proofs about Pack, for any number of files, any sizes    *)
(* and any number of rewrites.                                              *)
EXTENDS Pack, TLAPS

(***************************************************************************)
(* The inductive invariant.  OutputNotTorn is not inductive: that every    *)
(* published chunk comes from the fingerprinted version rests on what was  *)
(* true while the file was being read, when the version may already have   *)
(* moved on.                                                               *)
(***************************************************************************)
Unread == {"start", "scan_stat", "scan_print", "keys", "tempname", "create"}
Sealed == {"verify", "commit", "rename", "sync_parent", "ok"}

(* Nothing is read before the scan, the keys and the temporary file.        *)
ScanInv ==
  /\ pc \in Unread => /\ opened = {}
                      /\ \A f \in Files, c \in Chunks : cell[f][c] = 0
  /\ pc = "scan_print" => scanPos <= NumFiles

(* Versions only grow, so a chunk's version lies between the fingerprint    *)
(* and the current version; the second ensure_unchanged closes the gap.     *)
CellInv ==
  /\ \A f \in Files : fingerprint[f] <= version[f]
  /\ \A f \in Files, c \in Chunks :
       cell[f][c] # 0 => fingerprint[f] <= cell[f][c] /\ cell[f][c] <= version[f]
  /\ \A f \in finished, c \in Chunks : c < size[f] => cell[f][c] = fingerprint[f]

(* The container is whole and on the medium from the self-verification on,  *)
(* and while it is at the output path.                                      *)
WholeInv ==
  /\ intact \/ pc = "dead"
  /\ pc \in Sealed => finished = Files /\ synced
  /\ out = "ours" => pc \in {"sync_parent", "ok", "dead"} /\ Whole /\ ~early
  /\ pc \in {"sync_parent", "ok"} => out = "ours"

(* A temporary file of ours is guarded as long as the process lives. *)
TempInv ==
  /\ temp = "ours" => \/ pc = "dead"
                      \/ guard /\ pc \notin Unread \cup {"sync_parent", "ok", "err"}
  /\ pc = "create" => guard

(* A cancellation seen before the commit keeps the commit from starting. *)
EarlyInv ==
  /\ early => cancelled
  /\ pc \in {"rename", "sync_parent", "ok"} => ~early

PackInv == TypeOK /\ ScanInv /\ CellInv /\ WholeInv /\ TempInv /\ EarlyInv

(* A chunk index of a file, and the value kept for it. *)
LEMMA CellType ==
  ASSUME TypeOK, NEW f \in Files, NEW c \in Chunks
  PROVE  /\ cell[f][c] \in 0..MaxVersion /\ cell[f] \in [Chunks -> 0..MaxVersion]
         /\ version[f] \in 1..MaxVersion /\ fingerprint[f] \in 0..MaxVersion
         /\ size[f] \in 0..MaxSize
  BY DEF TypeOK

LEMMA TypeInit == Init => TypeOK
  <1> SUFFICES ASSUME Init PROVE TypeOK
    OBVIOUS
  <1>1. cell \in [Files -> [Chunks -> 0..MaxVersion]]
    BY PackAssumption DEF Init
  <1>2. /\ version \in [Files -> 1..MaxVersion]
        /\ length \in [Files -> 0..MaxSize] /\ size \in [Files -> 0..MaxSize]
        /\ fingerprint \in [Files -> 0..MaxVersion] /\ scanPos \in 1..(NumFiles + 1)
    BY PackAssumption DEF Init
  <1>3. /\ pc \in Places /\ temp \in {"absent", "ours", "foreign"}
        /\ out \in {"absent", "ours", "foreign"}
        /\ opened \in SUBSET Files /\ finished \in SUBSET opened
    BY DEF Init, Places, Running, BeforeCommit, CheckPoints
  <1>4. /\ guard \in BOOLEAN /\ intact \in BOOLEAN /\ synced \in BOOLEAN
        /\ linkSynced \in BOOLEAN /\ cancelled \in BOOLEAN /\ early \in BOOLEAN
    BY DEF Init
  <1> QED BY <1>1, <1>2, <1>3, <1>4 DEF TypeOK

LEMMA InvInit == Init => PackInv
  BY PackAssumption, TypeInit
     DEF Init, PackInv, ScanInv, CellInv, WholeInv, TempInv, EarlyInv,
         Unread, Sealed, Files, Chunks

(* Steps that the provers take conjunct by conjunct. *)
LEMMA FingerprintStep ==
  ASSUME PackInv, ScanFingerprint
  PROVE  PackInv'
  <1> USE PackAssumption DEF PackInv, ScanFingerprint, srcVars, encVars, fsVars
  <1>1. scanPos \in Files
    BY DEF TypeOK, ScanInv, Files
  <1>2. version[scanPos] \in 1..MaxVersion
    BY <1>1 DEF TypeOK
  <1>3. fingerprint' \in [Files -> 0..MaxVersion]
    BY <1>1, <1>2 DEF TypeOK
  <1>4. scanPos' \in 1..(NumFiles + 1)
    BY <1>1 DEF Files
  <1>5. TypeOK'
    BY <1>3, <1>4 DEF TypeOK, Places, Running, BeforeCommit, CheckPoints
  <1>6. ScanInv'
    BY DEF ScanInv, Unread
  <1>7. CellInv'
    <2>1. finished = {} /\ \A f \in Files, c \in Chunks : cell[f][c] = 0
      BY DEF ScanInv, TypeOK, Unread
    <2>2. \A f \in Files : fingerprint'[f] <= version[f]
      BY <1>2 DEF TypeOK, CellInv
    <2> QED BY <2>1, <2>2 DEF CellInv
  <1> QED BY <1>5, <1>6, <1>7 DEF WholeInv, TempInv, EarlyInv, Whole, Unread, Sealed

LEMMA EncryptStep ==
  ASSUME PackInv, NEW f \in Files, NEW c \in Chunks, EncryptChunk(f, c)
  PROVE  PackInv'
  <1> USE DEF PackInv, EncryptChunk, srcVars, scanVars, fsVars
  <1>1. CASE pc' = "unwind" /\ UNCHANGED cell
    BY <1>1 DEF TypeOK, ScanInv, CellInv, WholeInv, TempInv, EarlyInv, Whole,
                Unread, Sealed, Places, Running
  <1>2. CASE cell' = [cell EXCEPT ![f][c] = version[f]] /\ UNCHANGED pc
    <2>1. \A g \in Files, d \in Chunks :
            cell'[g][d] = IF g = f /\ d = c THEN version[f] ELSE cell[g][d]
      BY <1>2 DEF TypeOK
    <2>2. cell' \in [Files -> [Chunks -> 0..MaxVersion]]
      BY <1>2, PackAssumption DEF TypeOK
    <2>3. TypeOK'
      BY <1>2, <2>2 DEF TypeOK
    <2>4. CellInv'
      BY <2>1, PackAssumption DEF CellInv, TypeOK
    <2> QED
      BY <1>2, <2>3, <2>4 DEF ScanInv, WholeInv, TempInv, EarlyInv, Whole, Unread, Sealed
  <1> QED BY <1>1, <1>2

LEMMA CloseStep ==
  ASSUME PackInv, NEW f \in Files, CloseSource(f)
  PROVE  PackInv'
  <1> USE DEF PackInv, CloseSource, srcVars, scanVars, fsVars
  <1>1. CASE pc' = "unwind" /\ UNCHANGED finished
    BY <1>1 DEF TypeOK, ScanInv, CellInv, WholeInv, TempInv, EarlyInv, Whole,
                Unread, Sealed, Places, Running
  <1>2. CASE /\ ensure_unchanged(f)
             /\ finished' = finished \cup {f} /\ UNCHANGED pc
    <2>1. TypeOK'
      BY <1>2 DEF TypeOK
    <2>2. ASSUME NEW c \in Chunks, c < size[f]
          PROVE  cell[f][c] = fingerprint[f]
      BY <1>2, <2>2, CellType, PackAssumption DEF CellInv, Encrypted, ensure_unchanged
    <2>3. CellInv'
      BY <1>2, <2>2 DEF CellInv
    <2> QED
      BY <1>2, <2>1, <2>3 DEF ScanInv, WholeInv, TempInv, EarlyInv, Whole, Unread, Sealed
  <1> QED BY <1>1, <1>2

LEMMA RewriteStep ==
  ASSUME PackInv, NEW f \in Files, NEW n \in 0..MaxSize, Rewrite(f, n)
  PROVE  PackInv'
  <1> USE DEF PackInv, Rewrite, scanVars, encVars, fsVars
  <1>1. version' \in [Files -> 1..MaxVersion] /\ length' \in [Files -> 0..MaxSize]
    BY PackAssumption DEF TypeOK
  <1>2. TypeOK'
    BY <1>1 DEF TypeOK
  <1>3. \A g \in Files : version[g] <= version'[g]
    BY PackAssumption DEF TypeOK
  <1>4. CellInv'
    <2>1. \A g \in Files : fingerprint[g] <= version'[g]
      BY <1>1, <1>3, <1>2 DEF CellInv, TypeOK
    <2>2. ASSUME NEW g \in Files, NEW c \in Chunks, cell[g][c] # 0
          PROVE  cell[g][c] <= version'[g]
      BY <2>2, <1>1, <1>3, CellType DEF CellInv
    <2> QED BY <2>1, <2>2 DEF CellInv, TypeOK
  <1> QED
    BY <1>2, <1>4 DEF ScanInv, WholeInv, TempInv, EarlyInv, Whole, Unread, Sealed

LEMMA CancelStep ==
  ASSUME PackInv, Cancel
  PROVE  PackInv'
  <1> USE DEF PackInv, Cancel, srcVars, scanVars, encVars, fsVars
  <1>1. early' \in BOOLEAN /\ cancelled' \in BOOLEAN
    OBVIOUS
  <1>2. TypeOK'
    BY <1>1, Zenon DEF TypeOK
  <1>3. EarlyInv'
    BY DEF EarlyInv, BeforeCommit, CheckPoints
  <1>4. WholeInv'
    BY DEF WholeInv, Whole, BeforeCommit, CheckPoints
  <1> QED BY <1>2, <1>3, <1>4 DEF ScanInv, CellInv, TempInv

LEMMA ForeignStep ==
  ASSUME PackInv, ForeignCreate
  PROVE  PackInv'
  <1> USE DEF PackInv, ForeignCreate, srcVars, scanVars, encVars
  <1>1. temp' \in {"absent", "ours", "foreign"} /\ out' \in {"absent", "ours", "foreign"}
    BY DEF TypeOK
  <1>2. TypeOK'
    BY <1>1, Zenon DEF TypeOK
  <1>3. WholeInv' /\ TempInv'
    BY DEF WholeInv, Whole, TempInv
  <1> QED BY <1>2, <1>3 DEF ScanInv, CellInv, EarlyInv

LEMMA SyncParentStep ==
  ASSUME PackInv, SyncParent
  PROVE  PackInv'
  <1> USE DEF PackInv, SyncParent, srcVars, scanVars, encVars
  <1>1. pc' \in Places /\ guard' \in BOOLEAN /\ linkSynced' \in BOOLEAN
    BY DEF Places
  <1>2. TypeOK'
    BY <1>1, Zenon DEF TypeOK
  <1>3. WholeInv' /\ TempInv' /\ EarlyInv'
    BY DEF WholeInv, Whole, TempInv, EarlyInv, Sealed, Unread
  <1> QED BY <1>2, <1>3 DEF ScanInv, CellInv, Unread

LEMMA StutterStep ==
  ASSUME PackInv, UNCHANGED vars
  PROVE  PackInv'
  <1> USE DEF PackInv, vars, srcVars, scanVars, encVars, fsVars
  <1>1. TypeOK'
    BY ZenonT(60) DEF TypeOK
  <1> QED BY <1>1 DEF ScanInv, CellInv, WholeInv, Whole, TempInv, EarlyInv

(* Every step keeps the invariant. *)
LEMMA InvStep ==
  ASSUME PackInv, [Next]_vars
  PROVE  PackInv'
  <1> USE PackAssumption DEF PackInv, TypeOK, ScanInv, CellInv, WholeInv, TempInv,
        EarlyInv, Whole, vars, srcVars, scanVars, encVars, fsVars,
        Unread, Sealed, CheckPoints, BeforeCommit, Running, Places, Files, Chunks
  <1>1. CASE Start
    BY <1>1 DEF Start
  <1>2. CASE ScanStat
    BY <1>2 DEF ScanStat
  <1>3. CASE ScanDone
    BY <1>3 DEF ScanDone
  <1>4. CASE DeriveKeys
    BY <1>4 DEF DeriveKeys
  <1>5. CASE ChooseTemp
    BY <1>5 DEF ChooseTemp
  <1>6. CASE CreateTemp
    BY <1>6 DEF CreateTemp
  <1>7. CASE SyncContainer
    BY <1>7 DEF SyncContainer
  <1>8. CASE SelfVerify
    BY <1>8 DEF SelfVerify
  <1>9. CASE CommitStart
    BY <1>9 DEF CommitStart, MayCommit
  <1>10. CASE RenameNoReplace
    BY <1>10 DEF RenameNoReplace, TargetFree
  <1>11. CASE SyncParent
    BY <1>11, SyncParentStep
  <1>12. CASE CancelPoint
    BY <1>12 DEF CancelPoint
  <1>13. CASE Fail
    <2>1. TypeOK'
      BY <1>13 DEF Fail
    <2>2. (ScanInv /\ CellInv)'
      BY <1>13 DEF Fail
    <2>3. WholeInv'
      BY <1>13 DEF Fail
    <2>4. (TempInv /\ EarlyInv)'
      BY <1>13 DEF Fail
    <2> QED BY <2>1, <2>2, <2>3, <2>4
  <1>14. CASE Unwind
    BY <1>14 DEF Unwind, AfterDrop
  <1>15. CASE Kill
    <2>1. TypeOK'
      BY <1>15 DEF Kill
    <2>2. (ScanInv /\ CellInv)'
      BY <1>15 DEF Kill
    <2>3. WholeInv'
      BY <1>15 DEF Kill
    <2>4. (TempInv /\ EarlyInv)'
      BY <1>15 DEF Kill
    <2> QED BY <2>1, <2>2, <2>3, <2>4
  <1>16. CASE PowerLoss
    <2>1. TypeOK'
      BY <1>16 DEF PowerLoss
    <2>2. (ScanInv /\ CellInv)'
      BY <1>16 DEF PowerLoss
    <2>3. WholeInv'
      BY <1>16 DEF PowerLoss
    <2>4. (TempInv /\ EarlyInv)'
      BY <1>16 DEF PowerLoss
    <2> QED BY <2>1, <2>2, <2>3, <2>4
  <1>17. CASE ScanFingerprint
    BY <1>17, FingerprintStep
  <1>18. CASE Cancel
    BY <1>18, CancelStep
  <1>19. CASE ForeignCreate
    BY <1>19, ForeignStep
  <1>20. ASSUME NEW f \in Files, OpenSource(f) PROVE PackInv'
    BY <1>20 DEF OpenSource, ensure_unchanged
  <1>21. ASSUME NEW f \in Files, CloseSource(f) PROVE PackInv'
    BY <1>21, CloseStep
  <1>22. ASSUME NEW f \in Files, NEW c \in Chunks, EncryptChunk(f, c) PROVE PackInv'
    BY <1>22, EncryptStep
  <1>23. ASSUME NEW f \in Files, NEW n \in 0..MaxSize, Rewrite(f, n) PROVE PackInv'
    BY <1>23, RewriteStep
  <1>24. CASE UNCHANGED vars
    BY <1>24, StutterStep
  <1> QED
    BY <1>1, <1>2, <1>3, <1>4, <1>5, <1>6, <1>7, <1>8, <1>9, <1>10, <1>11,
       <1>12, <1>13, <1>14, <1>15, <1>16, <1>17, <1>18, <1>19, <1>20, <1>21,
       <1>22, <1>23, <1>24 DEF Next

(***************************************************************************)
(* The results.                                                            *)
(***************************************************************************)

(* pack_inner's variables keep their types. *)
THEOREM PackTypes == Spec => []TypeOK
  <1>1. PackInv => TypeOK
    BY DEF PackInv
  <1> QED BY InvInit, InvStep, <1>1, PTL DEF Spec

(* Every reachable state of a pack satisfies the inductive invariant. *)
THEOREM PackInvariance == Spec => []PackInv
  BY InvInit, InvStep, PTL DEF Spec

(* However the source tree is rewritten while its chunks are encrypted in   *)
(* parallel, a container at the output path is whole and every chunk is of  *)
(* the version ensure_unchanged compared, also after a crash.               *)
THEOREM PackOutputNotTorn == Spec => []OutputNotTorn
  <1>1. PackInv => OutputNotTorn
    BY DEF PackInv, WholeInv, Whole, CellInv, OutputNotTorn
  <1> QED BY PackInvariance, <1>1, PTL

(* Ok means the container is at the output path; an error leaves nothing of *)
(* ours there, and the TempOutput guard has removed the temporary file.     *)
THEOREM PackAllOrNothing == Spec => []AllOrNothing
  <1>1. PackInv => AllOrNothing
    BY DEF PackInv, WholeInv, TempInv, AllOrNothing
  <1> QED BY PackInvariance, <1>1, PTL

(***************************************************************************)
(* Packing implements AtomicPublish.                                       *)
(***************************************************************************)
LEMMA PromiseInit == Init => Promise!Init
  BY DEF Init, Promise!Init, Whole, Outcome

(* Every step of pack_inner and of its environment is a step of             *)
(* AtomicPublish or leaves its variables alone.                             *)
LEMMA PromiseStep ==
  ASSUME PackInv, PackInv', [Next]_vars
  PROVE  [Promise!Next]_(Promise!vars)
  <1> USE DEF PackInv, WholeInv, EarlyInv, Whole, Outcome, Promise!vars, vars,
        srcVars, scanVars, encVars, fsVars, Unread, Sealed, CheckPoints,
        BeforeCommit, Running
  <1>1. CASE RenameNoReplace
    BY <1>1 DEF RenameNoReplace, TargetFree, Promise!Next, Promise!Publish
  <1>2. CASE SyncParent
    BY <1>2 DEF SyncParent, Promise!Next, Promise!Succeed
  <1>3. CASE Unwind
    BY <1>3 DEF Unwind, Promise!Next, Promise!GiveUp
  <1>4. CASE Kill
    BY <1>4 DEF Kill, Promise!Next, Promise!Crash
  <1>5. CASE PowerLoss
    BY <1>5 DEF PowerLoss, Promise!Next, Promise!Crash
  <1>6. CASE ForeignCreate
    BY <1>6 DEF ForeignCreate, Promise!Next, Promise!Occupy
  <1>7. CASE Cancel
    <2>1. CASE pc \in BeforeCommit
      <3>1. out # "ours" /\ early' = TRUE /\ Outcome = "running"
        BY <1>7, <2>1 DEF Cancel
      <3> QED BY <1>7, <3>1 DEF Cancel, Promise!Next, Promise!Prepare
    <2>2. CASE pc \notin BeforeCommit
      <3>1. early' = FALSE /\ early = FALSE
        BY <1>7, <2>2, Zenon DEF Cancel, TypeOK
      <3> QED BY <1>7, <3>1 DEF Cancel
    <2> QED BY <2>1, <2>2
  <1>8. CASE SyncContainer
    BY <1>8 DEF SyncContainer, Promise!Next, Promise!Prepare
  <1>9. ASSUME NEW f \in Files, CloseSource(f) PROVE [Promise!Next]_(Promise!vars)
    BY <1>9 DEF CloseSource, Promise!Next, Promise!Prepare
  <1>10. CASE \/ Start \/ ScanStat \/ ScanFingerprint \/ ScanDone \/ DeriveKeys
              \/ ChooseTemp \/ CreateTemp \/ SelfVerify \/ CommitStart \/ CancelPoint \/ Fail
              \/ UNCHANGED vars
    BY <1>10 DEF Start, ScanStat, ScanFingerprint, ScanDone, DeriveKeys,
              ChooseTemp, CreateTemp, SelfVerify, CommitStart, CancelPoint, Fail
  <1>11. ASSUME NEW f \in Files, OpenSource(f) PROVE [Promise!Next]_(Promise!vars)
    BY <1>11 DEF OpenSource
  <1>12. ASSUME NEW f \in Files, NEW c \in Chunks, EncryptChunk(f, c)
         PROVE  [Promise!Next]_(Promise!vars)
    BY <1>12 DEF EncryptChunk
  <1>13. ASSUME NEW f \in Files, NEW n \in 0..MaxSize, Rewrite(f, n)
         PROVE  [Promise!Next]_(Promise!vars)
    BY <1>13 DEF Rewrite
  <1> QED
    BY <1>1, <1>2, <1>3, <1>4, <1>5, <1>6, <1>7, <1>8, <1>9, <1>10, <1>11, <1>12, <1>13 DEF Next

(* pack_to_with_control implements AtomicPublish: rename_file_no_replace    *)
(* publishes the whole, synchronised container in one step, at a free name  *)
(* and unless cancelled before CommitStarted.                               *)
THEOREM PackPublishesAtomically == Spec => PublishesAtomically
  BY PackInvariance, PromiseInit, PromiseStep, PTL DEF Spec, PublishesAtomically, Promise!Spec
=============================================================================
