------------------------------ MODULE KeySlots ------------------------------
(***************************************************************************)
(* The keyslot protocol of a CipherFS v2 container header (v2.rs).         *)
(*                                                                         *)
(* A container is unlocked through one of two keyslots kept in its fixed   *)
(* 4096-byte header.  change_password writes the new slot with a higher    *)
(* generation, synchronises, disables the previous slot and synchronises   *)
(* again; opening with the Duress password rewrites both slots.  Every     *)
(* operation works on its own in-memory copy of the header and writes that *)
(* whole copy back; nothing locks the container, so operations of several  *)
(* processes interleave.                                                   *)
(*                                                                         *)
(* `disk' is the header every process reads (the page cache), `durable'    *)
(* the header a power loss leaves behind.  One process runs one operation. *)
(* A 4096-byte header write is taken to reach the cache and the medium as  *)
(* one unit.  The key derivation and the AEAD are ideal: a live slot opens *)
(* with the password it was made for and with no other.                    *)
(***************************************************************************)
EXTENDS Naturals

CONSTANTS Procs,            \* processes, each running one operation
          Passwords,        \* the passwords users type
          InitialPassword,  \* the master password given to pack
          DuressPassword,   \* the Duress password, or NoPassword if disabled
          NoPassword,       \* sentinel: opens nothing
          NoProc,           \* sentinel: nobody
          MaxGeneration     \* u64::MAX of the generation field

ASSUME KeySlotsAssumption ==
  /\ InitialPassword \in Passwords
  /\ NoPassword \notin Passwords
  /\ DuressPassword \in (Passwords \cup {NoPassword}) \ {InitialPassword}
  /\ NoProc \notin Procs
  /\ MaxGeneration \in Nat \ {0}

VARIABLES
  disk,       \* the header as any process reads it
  durable,    \* the header on the medium
  pc,         \* where each process is in its operation
  hdr,        \* each process's in-memory copy of the header
  oldPw,      \* the password each process was given to unlock with
  newPw,      \* the replacement password (change_password only)
  inactive,   \* local `inactive' of change_password
  cancelled,  \* processes whose CancellationToken is set
  duressed,   \* history: processes that reached wipe_for_duress
  lastWriter  \* history: who wrote the header last

procVars == <<hdr, oldPw, newPw, inactive>>
vars == <<disk, durable, pc, hdr, oldPw, newPw, inactive, cancelled,
          duressed, lastWriter>>

SlotIds == {0, 1}
KeySlot == [generation : 0..MaxGeneration, pw : Passwords \cup {NoPassword}]
Header == [SlotIds -> KeySlot]

(* change_password while it mutates the file, and every other place *)
Mutating == {"write_new", "sync_new", "write_retire", "sync_retire"}
Wiping == {"write_wipe", "sync_wipe"}
Running == {"verify", "open_verify", "prepared", "wipe_check"}
             \cup Mutating \cup Wiping
Finished == {"ok", "opened", "wiped", "refused", "cancelled", "failed", "dead"}
----------------------------------------------------------------------------
(* What a header holds.                                                    *)

random_disabled == [generation |-> 0, pw |-> NoPassword]

make_key_slot(pw, generation) == [generation |-> generation, pw |-> pw]

IsLive(slot) == slot.generation > 0
LivePasswords(h) == {h[i].pw : i \in {j \in SlotIds : IsLive(h[j])}}

(* Live slots are tried newest first, then the Duress slot.  All live slots *)
(* wrap the same DEK, so the order is invisible in the result.              *)
unlock(h, pw) ==
  IF pw \in LivePasswords(h) THEN "unlocked"
  ELSE IF pw = DuressPassword THEN "duress"
  ELSE "failed"

MaxGen(h) == IF h[0].generation <= h[1].generation THEN h[1].generation
                                                   ELSE h[0].generation
InactiveSlot(h) == IF h[0].generation <= h[1].generation THEN 0 ELSE 1

(* The new slot keeps the generation of the slot it replaces. *)
MutWithNewSlot(h, pw) ==
  [h EXCEPT ![InactiveSlot(h)] = make_key_slot(pw, h[InactiveSlot(h)].generation)]

WithNewSlot(h, pw) ==
  [h EXCEPT ![InactiveSlot(h)] = make_key_slot(pw, MaxGen(h) + 1)]

RetirePrevious(h, i) == [h EXCEPT ![1 - i] = random_disabled]

WipedHeader(h) == [i \in SlotIds |-> random_disabled]
----------------------------------------------------------------------------
Init ==
  /\ disk = [i \in SlotIds |->
               IF i = 0 THEN make_key_slot(InitialPassword, 1)
                        ELSE random_disabled]
  /\ durable = disk
  /\ pc = [p \in Procs |-> "idle"]
  /\ hdr = [p \in Procs |-> disk]
  /\ oldPw = [p \in Procs |-> NoPassword]
  /\ newPw = [p \in Procs |-> NoPassword]
  /\ inactive = [p \in Procs |-> 0]
  /\ cancelled = {}
  /\ duressed = {}
  /\ lastWriter = NoProc

Goto(p, l) == pc' = [pc EXCEPT ![p] = l]

(* File::open and read_header: the copy everything below works on. *)
ReadHeader(p) == hdr' = [hdr EXCEPT ![p] = disk]

(* v2::open up to the header read; the caller is extract, verify or mount. *)
Open(p, pw) ==
  /\ pc[p] = "idle"
  /\ Goto(p, "open_verify")
  /\ ReadHeader(p)
  /\ oldPw' = [oldPw EXCEPT ![p] = pw]
  /\ UNCHANGED <<disk, durable, newPw, inactive, cancelled, duressed, lastWriter>>

OpenVerify(p) ==
  /\ pc[p] = "open_verify"
  /\ \/ /\ unlock(hdr[p], oldPw[p]) = "unlocked"
        /\ Goto(p, "opened")
        /\ UNCHANGED duressed
     \/ /\ unlock(hdr[p], oldPw[p]) = "duress"
        /\ Goto(p, "write_wipe")
        /\ duressed' = duressed \cup {p}
     \/ /\ unlock(hdr[p], oldPw[p]) = "failed"
        /\ Goto(p, "refused")
        /\ UNCHANGED duressed
  /\ UNCHANGED <<disk, durable, procVars, cancelled, lastWriter>>

ChangePassword(p, old, new) ==
  /\ pc[p] = "idle"
  /\ oldPw' = [oldPw EXCEPT ![p] = old]
  /\ newPw' = [newPw EXCEPT ![p] = new]
  /\ \/ /\ p \in cancelled
        /\ Goto(p, "cancelled")
        /\ UNCHANGED hdr
     \/ /\ p \notin cancelled
        /\ Goto(p, "verify")
        /\ ReadHeader(p)
  /\ UNCHANGED <<disk, durable, inactive, cancelled, duressed, lastWriter>>

(* The generation wraps. *)
MutGenerationFits(h) == TRUE

(* checked_add(1) of the highest generation. *)
GenerationFits(h) == MaxGen(h) < MaxGeneration

(* The new password is not compared with the Duress slot. *)
MutNewPasswordAllowed(h, new) == TRUE

NewPasswordAllowed(h, new) == unlock(h, new) # "duress"

(* The Duress marker is taken for the unwrapped DEK. *)
MutMayChange(h, old) == unlock(h, old) # "failed"

MayChange(h, old) == unlock(h, old) = "unlocked"

(* Both unlock attempts and the preparation of the new slot, all on the    *)
(* in-memory header.  Leaves for the mutation, the Duress branch or an     *)
(* error (wrong password, new password is the Duress password, cancelled,  *)
(* generation overflow).                                                   *)
VerifyPasswords(p) ==
  /\ pc[p] = "verify"
  /\ \/ /\ ~NewPasswordAllowed(hdr[p], newPw[p])
        /\ Goto(p, "refused")
        /\ UNCHANGED <<hdr, inactive>>
     \/ /\ NewPasswordAllowed(hdr[p], newPw[p])
        /\ p \in cancelled
        /\ Goto(p, "cancelled")
        /\ UNCHANGED <<hdr, inactive>>
     \/ /\ NewPasswordAllowed(hdr[p], newPw[p])
        /\ p \notin cancelled
        /\ \/ /\ MayChange(hdr[p], oldPw[p])
              /\ GenerationFits(hdr[p])
              /\ Goto(p, "prepared")
              /\ hdr' = [hdr EXCEPT ![p] = WithNewSlot(hdr[p], newPw[p])]
              /\ inactive' = [inactive EXCEPT ![p] = InactiveSlot(hdr[p])]
           \/ /\ MayChange(hdr[p], oldPw[p])
              /\ ~GenerationFits(hdr[p])
              /\ Goto(p, "refused")
              /\ UNCHANGED <<hdr, inactive>>
           \/ /\ unlock(hdr[p], oldPw[p]) = "duress"
              /\ Goto(p, "wipe_check")
              /\ UNCHANGED <<hdr, inactive>>
           \/ /\ unlock(hdr[p], oldPw[p]) = "failed"
              /\ Goto(p, "refused")
              /\ UNCHANGED <<hdr, inactive>>
  /\ UNCHANGED <<disk, durable, oldPw, newPw, cancelled, duressed, lastWriter>>

(* The last cancellation point of either branch, then MutationStarted. *)
StartMutation(p) ==
  /\ pc[p] \in {"prepared", "wipe_check"}
  /\ \/ /\ p \in cancelled
        /\ Goto(p, "cancelled")
        /\ UNCHANGED duressed
     \/ /\ p \notin cancelled
        /\ \/ /\ pc[p] = "prepared"
              /\ Goto(p, "write_new")
              /\ UNCHANGED duressed
           \/ /\ pc[p] = "wipe_check"
              /\ Goto(p, "write_wipe")
              /\ duressed' = duressed \cup {p}
  /\ UNCHANGED <<disk, durable, procVars, cancelled, lastWriter>>

(* write_header up to sync_all: the whole in-memory header replaces the file's. *)
WriteHeader(p, h) ==
  /\ hdr' = [hdr EXCEPT ![p] = h]
  /\ disk' = h
  /\ lastWriter' = p

WriteNewSlot(p) ==
  /\ pc[p] = "write_new"
  /\ WriteHeader(p, hdr[p])
  /\ Goto(p, "sync_new")
  /\ UNCHANGED <<durable, oldPw, newPw, inactive, cancelled, duressed>>

WriteRetired(p) ==
  /\ pc[p] = "write_retire"
  /\ WriteHeader(p, RetirePrevious(hdr[p], inactive[p]))
  /\ Goto(p, "sync_retire")
  /\ UNCHANGED <<durable, oldPw, newPw, inactive, cancelled, duressed>>

(* wipe_for_duress reopens the path and writes the header open() read. *)
WriteWiped(p) ==
  /\ pc[p] = "write_wipe"
  /\ WriteHeader(p, WipedHeader(hdr[p]))
  /\ Goto(p, "sync_wipe")
  /\ UNCHANGED <<durable, oldPw, newPw, inactive, cancelled, duressed>>

NextAfterSync(l) == IF l = "sync_new" THEN "write_retire"
                    ELSE IF l = "sync_retire" THEN "ok" ELSE "wiped"

(* sync_all is missing from write_header. *)
MutSyncHeader(p) ==
  /\ pc[p] \in {"sync_new", "sync_retire", "sync_wipe"}
  /\ Goto(p, NextAfterSync(pc[p]))
  /\ UNCHANGED <<durable, disk, procVars, cancelled, duressed, lastWriter>>

(* A cancellation check between the two header writes. *)
MutSyncCancelled(p) ==
  /\ pc[p] \in {"sync_new", "sync_retire", "sync_wipe"}
  /\ durable' = disk
  /\ Goto(p, IF p \in cancelled THEN "cancelled" ELSE NextAfterSync(pc[p]))
  /\ UNCHANGED <<disk, procVars, cancelled, duressed, lastWriter>>

(* sync_all of write_header; the operation returns after its last one. *)
SyncHeader(p) ==
  /\ pc[p] \in {"sync_new", "sync_retire", "sync_wipe"}
  /\ durable' = disk
  /\ Goto(p, NextAfterSync(pc[p]))
  /\ UNCHANGED <<disk, procVars, cancelled, duressed, lastWriter>>

(* An open, read_header or key derivation that fails before the mutation,   *)
(* or an open, write or sync_all that fails in it, returns its error at     *)
(* once.                                                                    *)
IoError(p) ==
  /\ \/ pc[p] \in {"verify", "open_verify"} /\ Goto(p, "refused")
     \/ pc[p] \in Mutating \cup Wiping /\ Goto(p, "failed")
  /\ UNCHANGED <<disk, durable, procVars, cancelled, duressed, lastWriter>>

(* CancellationToken::cancel by a signal handler or the worker's reader thread. *)
Cancel(p) ==
  /\ pc[p] \in {"idle", "verify", "prepared", "wipe_check"} \cup Mutating
  /\ p \notin cancelled
  /\ cancelled' = cancelled \cup {p}
  /\ UNCHANGED <<disk, durable, pc, procVars, duressed, lastWriter>>

(* The process is killed; what it wrote stays in the page cache. *)
Kill(p) ==
  /\ pc[p] \in Running
  /\ Goto(p, "dead")
  /\ UNCHANGED <<disk, durable, procVars, cancelled, duressed, lastWriter>>

(* The operating system writes the cached header to the medium by itself. *)
Writeback ==
  /\ durable # disk
  /\ durable' = disk
  /\ UNCHANGED <<disk, pc, procVars, cancelled, duressed, lastWriter>>

(* Power loss: every running process is gone, only the medium survives. *)
PowerLoss ==
  /\ \E p \in Procs : pc[p] \in Running
  /\ disk' = durable
  /\ pc' = [p \in Procs |-> IF pc[p] \in Running THEN "dead" ELSE pc[p]]
  /\ UNCHANGED <<durable, procVars, cancelled, duressed, lastWriter>>

Next ==
  \/ \E p \in Procs :
       \/ \E pw \in Passwords : Open(p, pw)
       \/ \E old, new \in Passwords : ChangePassword(p, old, new)
       \/ OpenVerify(p) \/ VerifyPasswords(p) \/ StartMutation(p)
       \/ WriteNewSlot(p) \/ WriteRetired(p) \/ WriteWiped(p)
       \/ SyncHeader(p) \/ IoError(p) \/ Cancel(p) \/ Kill(p)
  \/ Writeback
  \/ PowerLoss

Spec == Init /\ [][Next]_vars
----------------------------------------------------------------------------
(* Every variable keeps its type; in particular generations stay within the *)
(* u64 field (checked_add in change_password_inner).                        *)
TypeOK ==
  /\ disk \in Header
  /\ durable \in Header
  /\ pc \in [Procs -> {"idle"} \cup Running \cup Finished]
  /\ hdr \in [Procs -> Header]
  /\ oldPw \in [Procs -> Passwords \cup {NoPassword}]
  /\ newPw \in [Procs -> Passwords \cup {NoPassword}]
  /\ inactive \in [Procs -> SlotIds]
  /\ cancelled \in SUBSET Procs
  /\ duressed \in SUBSET Procs
  /\ lastWriter \in Procs \cup {NoProc}

(* Until somebody enters the Duress password some password unlocks the      *)
(* container, in the header processes read and in the one a power loss      *)
(* leaves, whatever password changes interleave, fail, are cancelled or are *)
(* killed half way: "write and synchronize a newer generation before        *)
(* invalidating the previous slot" (FORMAT_V2.md:33).                       *)
NeverLockedOut ==
  duressed = {} => LivePasswords(disk) # {} /\ LivePasswords(durable) # {}

(* No keyslot ever opens with the Duress password: the check of             *)
(* change_password_inner against a possibly stale header keeps the two      *)
(* apart, so entering it always wipes and never unlocks.                    *)
DuressNeverUnlocks ==
  /\ DuressPassword \notin LivePasswords(disk)
  /\ DuressPassword \notin LivePasswords(durable)

(* A password that unlocks the container is the original one or one whose  *)
(* change passed its last cancellation point: a change that was refused or *)
(* reported as cancelled has left no trace, not even through a header some *)
(* other process copied meanwhile.                                         *)
RefusedLeavesNoTrace ==
  \A pw \in LivePasswords(disk) \cup LivePasswords(durable) :
     \/ pw = InitialPassword
     \/ \E p \in Procs : /\ newPw[p] = pw
                         /\ pc[p] \in Mutating \cup {"ok", "failed", "dead"}

(* While nobody has written the header since, an acknowledged change holds  *)
(* in the cache and on the medium with the new password as the only one     *)
(* (the previous one is revoked), and a finished Duress wipe leaves no      *)
(* password at all.                                                         *)
AcknowledgedIsDurable ==
  \A p \in Procs : lastWriter = p =>
     /\ pc[p] = "ok" => /\ LivePasswords(disk) = {newPw[p]}
                        /\ LivePasswords(durable) = {newPw[p]}
     /\ pc[p] = "wiped" => LivePasswords(disk) = {} /\ LivePasswords(durable) = {}

(* No password opens the container and no running process holds a header   *)
(* copy from before the wipe.                                              *)
WipedForGood ==
  /\ LivePasswords(disk) = {} /\ LivePasswords(durable) = {}
  /\ \A p \in Procs : pc[p] \in Running => LivePasswords(hdr[p]) = {}

(* A wiped container stays wiped whatever operations start later: only a   *)
(* process that read the header before the wipe and is still running could *)
(* write a usable slot back (wipe_for_duress takes no lock).               *)
WipedStaysWiped == [][WipedForGood => WipedForGood']_vars
=============================================================================
