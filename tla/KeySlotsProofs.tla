--------------------------- MODULE KeySlotsProofs ---------------------------
(* Machine-checked proofs about KeySlots, for any set of processes, any set *)
(* of passwords and any generation limit.                                   *)
EXTENDS KeySlots, TLAPS

USE DEF SlotIds

(* A header is typed slot by slot. *)
LEMMA HeaderSlots ==
  ASSUME NEW h \in Header, NEW i \in SlotIds
  PROVE  /\ h[i] \in KeySlot
         /\ h[i].generation \in 0..MaxGeneration
         /\ h[i].pw \in Passwords \cup {NoPassword}
  BY DEF Header, KeySlot

LEMMA DisabledSlotType == random_disabled \in KeySlot
  BY KeySlotsAssumption DEF random_disabled, KeySlot

(* The newest generation of a header is one of its slots' generations. *)
LEMMA MaxGenType ==
  ASSUME NEW h \in Header
  PROVE  MaxGen(h) \in 0..MaxGeneration
  <1>1. h[0].generation \in 0..MaxGeneration /\ h[1].generation \in 0..MaxGeneration
    BY HeaderSlots
  <1> QED BY <1>1 DEF MaxGen

(* make_key_slot into the inactive slot yields a header while the           *)
(* generation is below its limit.                                           *)
LEMMA WithNewSlotType ==
  ASSUME NEW h \in Header, NEW pw \in Passwords \cup {NoPassword},
         MaxGen(h) < MaxGeneration
  PROVE  WithNewSlot(h, pw) \in Header
  <1>1. MaxGen(h) + 1 \in 0..MaxGeneration
    BY MaxGenType, KeySlotsAssumption
  <1>2. make_key_slot(pw, MaxGen(h) + 1) \in KeySlot
    BY <1>1 DEF make_key_slot, KeySlot
  <1> QED BY <1>2 DEF WithNewSlot, InactiveSlot, Header

LEMMA RetirePreviousType ==
  ASSUME NEW h \in Header, NEW i \in SlotIds
  PROVE  RetirePrevious(h, i) \in Header
  BY DisabledSlotType DEF RetirePrevious, Header

LEMMA WipedHeaderType ==
  ASSUME NEW h \in Header
  PROVE  WipedHeader(h) \in Header
  BY DisabledSlotType DEF WipedHeader, Header

(* Membership in LivePasswords, and its emptiness, slot by slot. *)
LEMMA LiveMember ==
  ASSUME NEW h, NEW pw
  PROVE  pw \in LivePasswords(h) <=> \E i \in SlotIds : IsLive(h[i]) /\ h[i].pw = pw
  BY DEF LivePasswords

LEMMA LiveEmpty ==
  ASSUME NEW h
  PROVE  LivePasswords(h) = {} <=> \A i \in SlotIds : ~IsLive(h[i])
  BY DEF LivePasswords

(***************************************************************************)
(* Type correctness.                                                       *)
(***************************************************************************)
LEMMA TypeInit == Init => TypeOK
  <1> SUFFICES ASSUME Init PROVE TypeOK
    OBVIOUS
  <1>1. make_key_slot(InitialPassword, 1) \in KeySlot
    BY KeySlotsAssumption DEF make_key_slot, KeySlot
  <1>2. disk \in Header
    BY <1>1, DisabledSlotType DEF Init, Header
  <1> QED
    BY <1>2 DEF Init, TypeOK, Running, Mutating, Wiping, Finished

LEMMA TypeStep == TypeOK /\ [Next]_vars => TypeOK'
  <1> SUFFICES ASSUME TypeOK, [Next]_vars PROVE TypeOK'
    OBVIOUS
  <1> USE DEF TypeOK, Goto, procVars
  <1>1. ASSUME NEW p \in Procs, NEW pw \in Passwords, Open(p, pw)
        PROVE  TypeOK'
    BY <1>1 DEF Open, ReadHeader, Running
  <1>2. ASSUME NEW p \in Procs, NEW old \in Passwords, NEW new \in Passwords,
               ChangePassword(p, old, new)
        PROVE  TypeOK'
    BY <1>2 DEF ChangePassword, ReadHeader, Running, Finished
  <1>3. ASSUME NEW p \in Procs, OpenVerify(p)
        PROVE  TypeOK'
    BY <1>3 DEF OpenVerify, Running, Wiping, Finished
  <1>4. ASSUME NEW p \in Procs, VerifyPasswords(p)
        PROVE  TypeOK'
    <2>1. CASE hdr' = hdr /\ inactive' = inactive
      BY <1>4, <2>1 DEF VerifyPasswords, Running, Finished
    <2>2. CASE /\ GenerationFits(hdr[p])
               /\ Goto(p, "prepared")
               /\ hdr' = [hdr EXCEPT ![p] = WithNewSlot(hdr[p], newPw[p])]
               /\ inactive' = [inactive EXCEPT ![p] = InactiveSlot(hdr[p])]
      <3>1. WithNewSlot(hdr[p], newPw[p]) \in Header
        BY <2>2, WithNewSlotType DEF GenerationFits
      <3>2. InactiveSlot(hdr[p]) \in SlotIds
        BY DEF InactiveSlot
      <3> QED
        BY <1>4, <2>2, <3>1, <3>2 DEF VerifyPasswords, Running
    <2> QED
      BY <1>4, <2>1, <2>2 DEF VerifyPasswords, GenerationFits, MayChange
  <1>5. ASSUME NEW p \in Procs, StartMutation(p)
        PROVE  TypeOK'
    BY <1>5 DEF StartMutation, Running, Mutating, Wiping, Finished
  <1>6. ASSUME NEW p \in Procs, WriteNewSlot(p)
        PROVE  TypeOK'
    BY <1>6 DEF WriteNewSlot, WriteHeader, Running, Mutating
  <1>7. ASSUME NEW p \in Procs, WriteRetired(p)
        PROVE  TypeOK'
    <2>1. RetirePrevious(hdr[p], inactive[p]) \in Header
      BY RetirePreviousType
    <2> QED
      BY <1>7, <2>1 DEF WriteRetired, WriteHeader, Running, Mutating
  <1>8. ASSUME NEW p \in Procs, WriteWiped(p)
        PROVE  TypeOK'
    <2>1. WipedHeader(hdr[p]) \in Header
      BY WipedHeaderType
    <2> QED
      BY <1>8, <2>1 DEF WriteWiped, WriteHeader, Running, Wiping
  <1>9. ASSUME NEW p \in Procs, SyncHeader(p)
        PROVE  TypeOK'
    <2>1. NextAfterSync(pc[p]) \in Running \cup Finished
      BY <1>9 DEF SyncHeader, NextAfterSync, Running, Mutating, Finished
    <2> QED
      BY <1>9, <2>1 DEF SyncHeader
  <1>10. ASSUME NEW p \in Procs, IoError(p)
         PROVE  TypeOK'
    BY <1>10 DEF IoError, Finished
  <1>11. ASSUME NEW p \in Procs, Cancel(p)
         PROVE  TypeOK'
    BY <1>11 DEF Cancel
  <1>12. ASSUME NEW p \in Procs, Kill(p)
         PROVE  TypeOK'
    BY <1>12 DEF Kill, Finished
  <1>13. CASE Writeback
    BY <1>13 DEF Writeback
  <1>14. CASE PowerLoss
    BY <1>14 DEF PowerLoss, Finished
  <1>15. CASE UNCHANGED vars
    BY <1>15 DEF vars
  <1> QED
    BY <1>1, <1>2, <1>3, <1>4, <1>5, <1>6, <1>7, <1>8, <1>9, <1>10,
       <1>11, <1>12, <1>13, <1>14, <1>15 DEF Next

(* Every variable of the header protocol keeps its type; the generation     *)
(* counter never leaves its field.                                          *)
THEOREM TypeCorrect == Spec => []TypeOK
  BY TypeInit, TypeStep, PTL DEF Spec
----------------------------------------------------------------------------
(* The inductive strengthening of the properties above.                    *)

(* No slot of h opens with the Duress password. *)
DuressFree(h) == \A i \in SlotIds : IsLive(h[i]) => h[i].pw # DuressPassword

HasLive(h) == \E i \in SlotIds : IsLive(h[i])

(* The in-memory copies are as free of the Duress password as the file. *)
DuressInv == /\ DuressFree(disk)
             /\ DuressFree(durable)
             /\ \A p \in Procs : DuressFree(hdr[p])

(* From the preparation to the return the new slot is live in the copy. *)
PreparedInv ==
  \A p \in Procs : pc[p] \in {"prepared"} \cup Mutating =>
     IsLive(hdr[p][inactive[p]]) /\ hdr[p][inactive[p]].pw = newPw[p]

(* Every copy that may still be written back is live until a wipe begins. *)
LiveInv ==
  /\ \A p \in Procs : pc[p] \in Wiping => p \in duressed
  /\ duressed = {} => /\ HasLive(disk)
                      /\ HasLive(durable)
                      /\ \A p \in Procs : pc[p] \in Running => HasLive(hdr[p])

(* What the last writer wrote is what the file holds, and after its         *)
(* sync_all what the medium holds.                                          *)
WrittenInv ==
  \A p \in Procs :
     /\ pc[p] \in {"sync_retire", "ok"} =>
          /\ IsLive(hdr[p][inactive[p]]) /\ hdr[p][inactive[p]].pw = newPw[p]
          /\ ~IsLive(hdr[p][1 - inactive[p]])
     /\ pc[p] \in {"sync_wipe", "wiped"} => \A i \in SlotIds : ~IsLive(hdr[p][i])
     /\ lastWriter = p =>
          /\ pc[p] \in {"sync_retire", "ok", "sync_wipe", "wiped"} => disk = hdr[p]
          /\ pc[p] \in {"ok", "wiped"} => durable = hdr[p]

(* The passwords whose change passed its last cancellation point. *)
Admitted ==
  {InitialPassword} \cup
  {newPw[p] : p \in {q \in Procs : pc[q] \in Mutating \cup {"ok", "failed", "dead"}}}

(* Every live slot holds an admitted password; the only exception is the   *)
(* slot a process has prepared in memory and not yet been let write.       *)
AdmittedInv ==
  /\ \A i \in SlotIds : IsLive(disk[i]) => disk[i].pw \in Admitted
  /\ \A i \in SlotIds : IsLive(durable[i]) => durable[i].pw \in Admitted
  /\ \A p \in Procs, i \in SlotIds :
       IsLive(hdr[p][i]) => \/ hdr[p][i].pw \in Admitted
                            \/ pc[p] \in {"prepared", "cancelled"} /\ i = inactive[p]

IInv == TypeOK /\ DuressInv /\ PreparedInv /\ LiveInv /\ WrittenInv /\ AdmittedInv

(***************************************************************************)
(* The inductive invariant.                                                *)
(***************************************************************************)
LEMMA IInvInit == Init => IInv
  <1> SUFFICES ASSUME Init PROVE IInv
    OBVIOUS
  <1>1. TypeOK
    BY TypeInit
  <1>2. disk[0] = make_key_slot(InitialPassword, 1) /\ disk[1] = random_disabled
    BY DEF Init
  <1>3. /\ IsLive(disk[0]) /\ disk[0].pw = InitialPassword
        /\ ~IsLive(disk[1])
    BY <1>2 DEF IsLive, make_key_slot, random_disabled
  <1>4. DuressFree(disk) /\ HasLive(disk)
    BY <1>3, KeySlotsAssumption DEF DuressFree, HasLive
  <1>5. DuressInv
    BY <1>4 DEF DuressInv, Init
  <1>6. PreparedInv /\ WrittenInv
    BY DEF PreparedInv, WrittenInv, Init, Mutating
  <1>7. LiveInv
    BY <1>4 DEF LiveInv, Init, Running, Mutating, Wiping
  <1>8. AdmittedInv
    BY <1>3 DEF AdmittedInv, Admitted, Init
  <1> QED BY <1>1, <1>5, <1>6, <1>7, <1>8 DEF IInv

(* A step that writes no header and reads none, and lets its process leave  *)
(* an unfinished operation for an end other than a successful one, keeps    *)
(* the invariant (IoError, Kill, Cancel and the refusals).                  *)
LEMMA DropStep ==
  ASSUME IInv, TypeOK', NEW p \in Procs, NEW l \in {"refused", "cancelled", "failed", "dead"},
         pc[p] \in Running, Goto(p, l),
         l \in {"refused", "cancelled"} => pc[p] \notin Mutating,
         l = "refused" => pc[p] # "prepared",
         UNCHANGED <<disk, durable, procVars, duressed, lastWriter>>
  PROVE  IInv'
  <1> USE DEF IInv, TypeOK, Goto, procVars
  <1>1. /\ pc'[p] = l
        /\ \A q \in Procs : q # p => pc'[q] = pc[q]
        /\ l \notin Running /\ l \notin {"ok", "wiped"}
    BY DEF Running, Mutating, Wiping
  <1>2. DuressInv' BY DEF DuressInv
  <1>3. PreparedInv' BY <1>1 DEF PreparedInv, Mutating
  <1>4. LiveInv' BY <1>1 DEF LiveInv, Wiping, Running
  <1>5. WrittenInv' BY <1>1 DEF WrittenInv, Wiping, Running
  <1>6. Admitted \subseteq Admitted'
    BY <1>1 DEF Admitted, Running, Mutating, Wiping
  <1>7. AdmittedInv'
    <2>1. \A i \in SlotIds : IsLive(disk'[i]) => disk'[i].pw \in Admitted'
      BY <1>6 DEF AdmittedInv
    <2>2. \A i \in SlotIds : IsLive(durable'[i]) => durable'[i].pw \in Admitted'
      BY <1>6 DEF AdmittedInv
    <2>3. ASSUME NEW q \in Procs, NEW i \in SlotIds, IsLive(hdr'[q][i])
          PROVE  \/ hdr'[q][i].pw \in Admitted'
                 \/ pc'[q] \in {"prepared", "cancelled"} /\ i = inactive'[q]
      <3>1. CASE hdr[q][i].pw \in Admitted
        BY <3>1, <1>6
      <3>2. CASE pc[q] \in {"prepared", "cancelled"} /\ i = inactive[q] /\ q # p
        BY <3>2, <1>1
      <3>3. CASE pc[q] = "prepared" /\ i = inactive[q] /\ q = p
        <4>1. hdr[q][i].pw = newPw[q]
          BY <3>3 DEF PreparedInv
        <4> QED BY <3>3, <1>1, <4>1 DEF Admitted
      <3> QED BY <2>3, <3>1, <3>2, <3>3 DEF AdmittedInv, Running, Mutating, Wiping
    <2> QED BY <2>1, <2>2, <2>3 DEF AdmittedInv
  <1> QED BY <1>2, <1>3, <1>4, <1>5, <1>7

(* A process that moves on without touching any header: the steps from one  *)
(* cancellation point to the next, of either branch.                        *)
LEMMA AdvanceStep ==
  ASSUME IInv, TypeOK', NEW p \in Procs,
         \/ pc[p] = "open_verify" /\ Goto(p, "opened") /\ UNCHANGED duressed
         \/ /\ pc[p] \in {"open_verify", "wipe_check"} /\ Goto(p, "write_wipe")
            /\ duressed' = duressed \cup {p}
         \/ pc[p] = "verify" /\ Goto(p, "wipe_check") /\ UNCHANGED duressed
         \/ pc[p] = "prepared" /\ Goto(p, "write_new") /\ UNCHANGED duressed,
         UNCHANGED <<disk, durable, procVars, lastWriter>>
  PROVE  IInv'
  <1> USE DEF IInv, TypeOK, Goto, procVars
  <1>1. \A q \in Procs : q # p => pc'[q] = pc[q]
    OBVIOUS
  <1>2. /\ pc'[p] \in {"opened", "write_wipe", "wipe_check", "write_new"}
        /\ pc[p] \in Running
    BY DEF Running
  <1>3. DuressInv' BY DEF DuressInv
  <1>4. PreparedInv'
    <2>1. pc'[p] \in {"prepared"} \cup Mutating => pc[p] = "prepared"
      BY DEF Mutating
    <2> QED BY <1>1, <2>1 DEF PreparedInv
  <1>5. LiveInv'
    <2>1. \A q \in Procs : pc'[q] \in Wiping => q \in duressed'
      BY <1>1 DEF LiveInv, Wiping
    <2>2. duressed' = {} => duressed = {}
      OBVIOUS
    <2>3. \A q \in Procs : pc'[q] \in Running => pc[q] \in Running
      BY <1>1, <1>2
    <2> QED BY <2>1, <2>2, <2>3 DEF LiveInv
  <1>6. WrittenInv' BY <1>1, <1>2 DEF WrittenInv
  <1>7. Admitted \subseteq Admitted'
    BY <1>1, <1>2 DEF Admitted, Running, Mutating, Wiping
  <1>8. AdmittedInv'
    <2>1. ASSUME NEW q \in Procs, NEW i \in SlotIds, IsLive(hdr'[q][i])
          PROVE  \/ hdr'[q][i].pw \in Admitted'
                 \/ pc'[q] \in {"prepared", "cancelled"} /\ i = inactive'[q]
      <3>1. CASE hdr[q][i].pw \in Admitted
        BY <3>1, <1>7
      <3>2. CASE pc[q] \in {"prepared", "cancelled"} /\ i = inactive[q] /\ q # p
        BY <3>2, <1>1
      <3>3. CASE pc[q] = "prepared" /\ i = inactive[q] /\ q = p
        <4>1. hdr[q][i].pw = newPw[q] /\ pc'[q] = "write_new"
          BY <3>3 DEF PreparedInv
        <4> QED BY <3>3, <4>1 DEF Admitted, Mutating
      <3> QED BY <2>1, <3>1, <3>2, <3>3 DEF AdmittedInv
    <2> QED BY <2>1, <1>7 DEF AdmittedInv
  <1> QED BY <1>3, <1>4, <1>5, <1>6, <1>8

(* Reading the header: the copy inherits what is true of the file. *)
LEMMA ReadStep ==
  ASSUME IInv, TypeOK', NEW p \in Procs, pc[p] = "idle",
         \/ Goto(p, "cancelled") /\ UNCHANGED hdr
         \/ pc' = [pc EXCEPT ![p] = "open_verify"] /\ ReadHeader(p)
         \/ pc' = [pc EXCEPT ![p] = "verify"] /\ ReadHeader(p),
         \A q \in Procs : q # p => newPw'[q] = newPw[q],
         UNCHANGED <<disk, durable, inactive, duressed, lastWriter>>
  PROVE  IInv'
  <1> USE DEF IInv, TypeOK, Goto, ReadHeader
  <1>1. \A q \in Procs : q # p => pc'[q] = pc[q] /\ hdr'[q] = hdr[q]
    OBVIOUS
  <1>2. \/ pc'[p] = "cancelled" /\ hdr'[p] = hdr[p]
        \/ pc'[p] \in {"open_verify", "verify"} /\ hdr'[p] = disk
    OBVIOUS
  <1>3. DuressInv' BY <1>1, <1>2 DEF DuressInv
  <1>4. PreparedInv' BY <1>1, <1>2 DEF PreparedInv, Mutating
  <1>5. LiveInv' BY <1>1, <1>2 DEF LiveInv, Wiping, Running, Mutating
  <1>6. WrittenInv' BY <1>1, <1>2 DEF WrittenInv
  <1>7. Admitted \subseteq Admitted'
    BY <1>1, <1>2 DEF Admitted, Mutating
  <1>8. AdmittedInv'
    <2>1. ASSUME NEW q \in Procs, NEW i \in SlotIds, IsLive(hdr'[q][i])
          PROVE  \/ hdr'[q][i].pw \in Admitted'
                 \/ pc'[q] \in {"prepared", "cancelled"} /\ i = inactive'[q]
      BY <2>1, <1>1, <1>2, <1>7 DEF AdmittedInv
    <2> QED BY <2>1, <1>7 DEF AdmittedInv
  <1> QED BY <1>3, <1>4, <1>5, <1>6, <1>8

(* The new slot is live and opens with the new password; the other slot is  *)
(* untouched.                                                               *)
LEMMA NewSlotContents ==
  ASSUME NEW h \in Header, NEW pw
  PROVE  LET i == InactiveSlot(h)
         IN  /\ i \in SlotIds
             /\ IsLive(WithNewSlot(h, pw)[i]) /\ WithNewSlot(h, pw)[i].pw = pw
             /\ \A j \in SlotIds : j # i => WithNewSlot(h, pw)[j] = h[j]
  <1>1. MaxGen(h) \in Nat
    BY MaxGenType, KeySlotsAssumption
  <1> QED
    BY <1>1 DEF WithNewSlot, InactiveSlot, make_key_slot, IsLive, Header

LEMMA PrepareStep ==
  ASSUME IInv, TypeOK', NEW p \in Procs, pc[p] = "verify",
         NewPasswordAllowed(hdr[p], newPw[p]),
         Goto(p, "prepared"),
         hdr' = [hdr EXCEPT ![p] = WithNewSlot(hdr[p], newPw[p])],
         inactive' = [inactive EXCEPT ![p] = InactiveSlot(hdr[p])],
         UNCHANGED <<disk, durable, oldPw, newPw, duressed, lastWriter>>
  PROVE  IInv'
  <1> USE DEF IInv, TypeOK, Goto
  <1>1. /\ pc'[p] = "prepared"
        /\ \A q \in Procs : q # p => /\ pc'[q] = pc[q] /\ hdr'[q] = hdr[q]
                                     /\ inactive'[q] = inactive[q]
    OBVIOUS
  <1>2. /\ inactive'[p] \in SlotIds
        /\ IsLive(hdr'[p][inactive'[p]]) /\ hdr'[p][inactive'[p]].pw = newPw[p]
        /\ \A j \in SlotIds : j # inactive'[p] => hdr'[p][j] = hdr[p][j]
    BY NewSlotContents
  <1>3. newPw[p] # DuressPassword
    <2>1. newPw[p] \notin LivePasswords(hdr[p]) \/ newPw[p] # DuressPassword
      BY LiveMember DEF DuressInv, DuressFree
    <2> QED BY <2>1 DEF NewPasswordAllowed, unlock
  <1>4. DuressInv'
    BY <1>1, <1>2, <1>3 DEF DuressInv, DuressFree
  <1>5. PreparedInv' BY <1>1, <1>2 DEF PreparedInv
  <1>6. LiveInv'
    BY <1>1, <1>2 DEF LiveInv, HasLive, Wiping, Running
  <1>7. WrittenInv' BY <1>1 DEF WrittenInv
  <1>8. Admitted \subseteq Admitted'
    BY <1>1 DEF Admitted, Mutating
  <1>9. AdmittedInv'
    <2>1. ASSUME NEW q \in Procs, NEW i \in SlotIds, IsLive(hdr'[q][i])
          PROVE  \/ hdr'[q][i].pw \in Admitted'
                 \/ pc'[q] \in {"prepared", "cancelled"} /\ i = inactive'[q]
      BY <2>1, <1>1, <1>2, <1>8 DEF AdmittedInv
    <2> QED BY <2>1, <1>8 DEF AdmittedInv
  <1> QED BY <1>4, <1>5, <1>6, <1>7, <1>9

(* A header write: the process's copy becomes the file's header.            *)
LEMMA WriteStep ==
  ASSUME IInv, TypeOK', NEW p \in Procs, NEW h \in Header,
         WriteHeader(p, h),
         \/ pc[p] = "write_new" /\ Goto(p, "sync_new") /\ h = hdr[p]
         \/ /\ pc[p] = "write_retire" /\ Goto(p, "sync_retire")
            /\ h = RetirePrevious(hdr[p], inactive[p])
         \/ pc[p] = "write_wipe" /\ Goto(p, "sync_wipe") /\ h = WipedHeader(hdr[p]),
         UNCHANGED <<durable, oldPw, newPw, inactive, duressed>>
  PROVE  IInv'
  <1> USE DEF IInv, TypeOK, Goto, WriteHeader
  <1>1. /\ hdr'[p] = h /\ disk' = h /\ lastWriter' = p
        /\ \A q \in Procs : q # p => pc'[q] = pc[q] /\ hdr'[q] = hdr[q]
    OBVIOUS
  <1>2. /\ ~IsLive(random_disabled)
        /\ \A i \in SlotIds : h[i] = hdr[p][i] \/ h[i] = random_disabled
    BY DEF RetirePrevious, WipedHeader, random_disabled, IsLive, Header
  <1>3. pc[p] = "write_retire" =>
           /\ h[inactive[p]] = hdr[p][inactive[p]]
           /\ h[1 - inactive[p]] = random_disabled
    BY DEF RetirePrevious, Header
  <1>4. pc[p] = "write_wipe" => \A i \in SlotIds : h[i] = random_disabled
    BY DEF WipedHeader
  <1>5. DuressInv'
    BY <1>1, <1>2 DEF DuressInv, DuressFree
  <1>6. PreparedInv'
    BY <1>1, <1>3 DEF PreparedInv, Mutating
  <1>7. LiveInv'
    <2>1. \A q \in Procs : pc'[q] \in Wiping => q \in duressed'
      BY <1>1 DEF LiveInv, Wiping
    <2>2. ASSUME duressed' = {} PROVE HasLive(h)
      <3>1. pc[p] # "write_wipe"
        BY <2>2 DEF LiveInv, Wiping
      <3>2. IsLive(hdr[p][inactive[p]])
        BY <3>1 DEF PreparedInv, Mutating
      <3> QED BY <3>1, <3>2, <1>3 DEF HasLive
    <2>3. ASSUME duressed' = {} PROVE HasLive(durable')
      BY <2>3 DEF LiveInv
    <2>4. ASSUME duressed' = {}, NEW q \in Procs, pc'[q] \in Running
          PROVE  HasLive(hdr'[q])
      BY <2>2, <2>4, <1>1 DEF LiveInv
    <2> QED BY <2>1, <2>2, <2>3, <2>4, <1>1 DEF LiveInv
  <1>8. WrittenInv'
    <2>1. pc'[p] \in {"sync_retire", "ok"} => pc[p] = "write_retire"
      OBVIOUS
    <2>2. pc'[p] \in {"sync_wipe", "wiped"} => pc[p] = "write_wipe"
      OBVIOUS
    <2>3. pc[p] = "write_retire" => /\ IsLive(hdr[p][inactive[p]])
                                    /\ hdr[p][inactive[p]].pw = newPw[p]
      BY DEF PreparedInv, Mutating
    <2>4. pc'[p] \notin {"ok", "wiped"}
      OBVIOUS
    <2> QED
      BY <1>1, <1>2, <1>3, <1>4, <2>1, <2>2, <2>3, <2>4 DEF WrittenInv
  <1>9. Admitted \subseteq Admitted'
    BY <1>1 DEF Admitted, Mutating
  <1>10. \A i \in SlotIds : IsLive(h[i]) => h[i].pw \in Admitted'
    BY <1>2, <1>9 DEF AdmittedInv
  <1>11. AdmittedInv'
    <2>1. ASSUME NEW q \in Procs, NEW i \in SlotIds, IsLive(hdr'[q][i])
          PROVE  \/ hdr'[q][i].pw \in Admitted'
                 \/ pc'[q] \in {"prepared", "cancelled"} /\ i = inactive'[q]
      BY <2>1, <1>1, <1>9, <1>10 DEF AdmittedInv
    <2> QED BY <2>1, <1>1, <1>9, <1>10 DEF AdmittedInv
  <1> QED BY <1>5, <1>6, <1>7, <1>8, <1>11

(* sync_all: the file's header, possibly another process's, is durable. *)
LEMMA SyncStep ==
  ASSUME IInv, TypeOK', NEW p \in Procs, SyncHeader(p)
  PROVE  IInv'
  <1> USE DEF IInv, TypeOK, Goto, SyncHeader, procVars
  <1>1. /\ durable' = disk
        /\ \A q \in Procs : q # p => pc'[q] = pc[q]
        /\ \/ pc[p] = "sync_new" /\ pc'[p] = "write_retire"
           \/ pc[p] = "sync_retire" /\ pc'[p] = "ok"
           \/ pc[p] = "sync_wipe" /\ pc'[p] = "wiped"
    BY DEF NextAfterSync
  <1>2. DuressInv' BY <1>1 DEF DuressInv
  <1>3. PreparedInv' BY <1>1 DEF PreparedInv, Mutating
  <1>4. LiveInv' BY <1>1 DEF LiveInv, Wiping, Running, Mutating
  <1>5. WrittenInv' BY <1>1 DEF WrittenInv
  <1>6. Admitted \subseteq Admitted'
    BY <1>1 DEF Admitted, Mutating
  <1>7. AdmittedInv'
    <2>1. ASSUME NEW q \in Procs, NEW i \in SlotIds, IsLive(hdr'[q][i])
          PROVE  \/ hdr'[q][i].pw \in Admitted'
                 \/ pc'[q] \in {"prepared", "cancelled"} /\ i = inactive'[q]
      BY <2>1, <1>1, <1>6 DEF AdmittedInv
    <2> QED BY <2>1, <1>1, <1>6 DEF AdmittedInv
  <1> QED BY <1>2, <1>3, <1>4, <1>5, <1>7

LEMMA WritebackStep ==
  ASSUME IInv, TypeOK', Writeback
  PROVE  IInv'
  <1> USE DEF IInv, TypeOK, Writeback, procVars
  <1>1. Admitted' = Admitted BY DEF Admitted
  <1> QED
    BY <1>1 DEF DuressInv, PreparedInv, LiveInv, WrittenInv, AdmittedInv

(* After a power loss every process still running is gone and the file      *)
(* holds what was durable.                                                  *)
LEMMA PowerLossStep ==
  ASSUME IInv, TypeOK', PowerLoss
  PROVE  IInv'
  <1> USE DEF IInv, TypeOK, PowerLoss, procVars
  <1>1. /\ disk' = durable
        /\ \A q \in Procs : /\ pc[q] \in Running => pc'[q] = "dead"
                            /\ pc[q] \notin Running => pc'[q] = pc[q]
    OBVIOUS
  <1>2. \A q \in Procs : /\ pc'[q] \notin Running
                         /\ pc'[q] \in {"ok", "wiped", "cancelled"} => pc'[q] = pc[q]
    BY <1>1 DEF Running, Mutating, Wiping
  <1>3. DuressInv' BY <1>1 DEF DuressInv
  <1>4. PreparedInv' BY <1>2 DEF PreparedInv, Running
  <1>5. LiveInv' BY <1>1, <1>2 DEF LiveInv, Running
  <1>6. WrittenInv'
    <2>1. \A q \in Procs : pc'[q] \notin {"sync_retire", "sync_wipe"}
      BY <1>2 DEF Running, Mutating, Wiping
    <2> QED BY <1>1, <1>2, <2>1 DEF WrittenInv
  <1>7. Admitted \subseteq Admitted'
    BY <1>1 DEF Admitted, Running
  <1>8. AdmittedInv'
    <2>1. ASSUME NEW q \in Procs, NEW i \in SlotIds, IsLive(hdr'[q][i])
          PROVE  \/ hdr'[q][i].pw \in Admitted'
                 \/ pc'[q] \in {"prepared", "cancelled"} /\ i = inactive'[q]
      <3>1. CASE hdr[q][i].pw \in Admitted
        BY <3>1, <1>7
      <3>2. CASE pc[q] = "cancelled" /\ i = inactive[q]
        BY <3>2, <1>1 DEF Running, Mutating, Wiping
      <3>3. CASE pc[q] = "prepared" /\ i = inactive[q]
        <4>1. hdr[q][i].pw = newPw[q] /\ pc'[q] = "dead"
          BY <3>3, <1>1 DEF PreparedInv, Running
        <4> QED BY <4>1 DEF Admitted
      <3> QED BY <2>1, <3>1, <3>2, <3>3 DEF AdmittedInv
    <2>2. \A i \in SlotIds : IsLive(disk'[i]) => disk'[i].pw \in Admitted'
      BY <1>1, <1>7 DEF AdmittedInv
    <2>3. \A i \in SlotIds : IsLive(durable'[i]) => durable'[i].pw \in Admitted'
      BY <1>7 DEF AdmittedInv
    <2> QED BY <2>1, <2>2, <2>3 DEF AdmittedInv
  <1> QED BY <1>3, <1>4, <1>5, <1>6, <1>8

(* Steps that change nothing the invariant speaks of (Cancel, stuttering). *)
LEMMA FrameStep ==
  ASSUME IInv, TypeOK', UNCHANGED <<disk, durable, pc, procVars, duressed, lastWriter>>
  PROVE  IInv'
  <1> USE DEF IInv, procVars
  <1>1. Admitted' = Admitted BY DEF Admitted
  <1> QED
    BY <1>1 DEF DuressInv, PreparedInv, LiveInv, WrittenInv, AdmittedInv

LEMMA IInvStep == IInv /\ [Next]_vars => IInv'
  <1> SUFFICES ASSUME IInv, [Next]_vars PROVE IInv'
    OBVIOUS
  <1>0. TypeOK /\ TypeOK'
    BY TypeStep DEF IInv
  <1>1. ASSUME NEW p \in Procs, NEW pw \in Passwords, Open(p, pw)
        PROVE  IInv'
    BY <1>0, <1>1, ReadStep DEF Open, Goto
  <1>2. ASSUME NEW p \in Procs, NEW old \in Passwords, NEW new \in Passwords,
               ChangePassword(p, old, new)
        PROVE  IInv'
    <2>1. \A q \in Procs : q # p => newPw'[q] = newPw[q]
      BY <1>0, <1>2 DEF ChangePassword, TypeOK
    <2> QED BY <1>0, <1>2, <2>1, ReadStep DEF ChangePassword, Goto
  <1>3. ASSUME NEW p \in Procs, OpenVerify(p)
        PROVE  IInv'
    <2>1. CASE Goto(p, "refused") /\ UNCHANGED duressed
      BY <1>0, <1>3, <2>1, DropStep DEF OpenVerify, Running, Mutating
    <2> QED BY <1>0, <1>3, <2>1, AdvanceStep DEF OpenVerify
  <1>4. ASSUME NEW p \in Procs, VerifyPasswords(p)
        PROVE  IInv'
    <2>1. pc[p] = "verify" /\ pc[p] \in Running /\ pc[p] \notin Mutating
      BY <1>4 DEF VerifyPasswords, Running, Mutating
    <2>2. CASE Goto(p, "refused") /\ UNCHANGED <<hdr, inactive>>
      BY <1>0, <1>4, <2>1, <2>2, DropStep DEF VerifyPasswords, procVars
    <2>3. CASE Goto(p, "cancelled") /\ UNCHANGED <<hdr, inactive>>
      BY <1>0, <1>4, <2>1, <2>3, DropStep DEF VerifyPasswords, procVars
    <2>4. CASE Goto(p, "wipe_check") /\ UNCHANGED <<hdr, inactive>>
      BY <1>0, <1>4, <2>1, <2>4, AdvanceStep DEF VerifyPasswords, procVars
    <2>5. CASE /\ NewPasswordAllowed(hdr[p], newPw[p])
               /\ Goto(p, "prepared")
               /\ hdr' = [hdr EXCEPT ![p] = WithNewSlot(hdr[p], newPw[p])]
               /\ inactive' = [inactive EXCEPT ![p] = InactiveSlot(hdr[p])]
      BY <1>0, <1>4, <2>1, <2>5, PrepareStep DEF VerifyPasswords
    <2> QED BY <1>4, <2>2, <2>3, <2>4, <2>5 DEF VerifyPasswords
  <1>5. ASSUME NEW p \in Procs, StartMutation(p)
        PROVE  IInv'
    <2>1. pc[p] \in Running /\ pc[p] \notin Mutating
      BY <1>5 DEF StartMutation, Running, Mutating
    <2>2. CASE Goto(p, "cancelled") /\ UNCHANGED duressed
      BY <1>0, <1>5, <2>1, <2>2, DropStep DEF StartMutation
    <2> QED BY <1>0, <1>5, <2>2, AdvanceStep DEF StartMutation
  <1>6. ASSUME NEW p \in Procs, WriteNewSlot(p)
        PROVE  IInv'
    <2>1. hdr[p] \in Header
      BY <1>0 DEF TypeOK
    <2> QED BY <1>0, <1>6, <2>1, WriteStep DEF WriteNewSlot
  <1>7. ASSUME NEW p \in Procs, WriteRetired(p)
        PROVE  IInv'
    <2>1. RetirePrevious(hdr[p], inactive[p]) \in Header
      BY <1>0, RetirePreviousType DEF TypeOK
    <2> QED BY <1>0, <1>7, <2>1, WriteStep DEF WriteRetired
  <1>8. ASSUME NEW p \in Procs, WriteWiped(p)
        PROVE  IInv'
    <2>1. WipedHeader(hdr[p]) \in Header
      BY <1>0, WipedHeaderType DEF TypeOK
    <2> QED BY <1>0, <1>8, <2>1, WriteStep DEF WriteWiped
  <1>9. ASSUME NEW p \in Procs, SyncHeader(p)
        PROVE  IInv'
    BY <1>0, <1>9, SyncStep
  <1>10. ASSUME NEW p \in Procs, IoError(p)
         PROVE  IInv'
    <2>1. CASE pc[p] \in {"verify", "open_verify"} /\ Goto(p, "refused")
      BY <1>0, <1>10, <2>1, DropStep DEF IoError, Running, Mutating
    <2>2. CASE pc[p] \in Mutating \cup Wiping /\ Goto(p, "failed")
      BY <1>0, <1>10, <2>2, DropStep DEF IoError, Running
    <2> QED BY <1>10, <2>1, <2>2 DEF IoError
  <1>11. ASSUME NEW p \in Procs, Cancel(p)
         PROVE  IInv'
    BY <1>0, <1>11, FrameStep DEF Cancel
  <1>12. ASSUME NEW p \in Procs, Kill(p)
         PROVE  IInv'
    BY <1>0, <1>12, DropStep DEF Kill
  <1>13. CASE Writeback
    BY <1>0, <1>13, WritebackStep
  <1>14. CASE PowerLoss
    BY <1>0, <1>14, PowerLossStep
  <1>15. CASE UNCHANGED vars
    BY <1>0, <1>15, FrameStep DEF vars, procVars
  <1> QED
    BY <1>1, <1>2, <1>3, <1>4, <1>5, <1>6, <1>7, <1>8, <1>9, <1>10,
       <1>11, <1>12, <1>13, <1>14, <1>15 DEF Next

(* The inductive invariant holds in every reachable state. *)
THEOREM Invariance == Spec => []IInv
  BY IInvInit, IInvStep, PTL DEF Spec

(* No interleaving of password changes, failures, kills and power losses    *)
(* ever leaves a container without a password before Duress is entered.     *)
THEOREM NeverLockedOutHolds == Spec => []NeverLockedOut
  <1>1. IInv => NeverLockedOut
    BY LiveEmpty DEF IInv, LiveInv, HasLive, NeverLockedOut
  <1> QED BY <1>1, Invariance, PTL

(* The Duress password never becomes a master password. *)
THEOREM DuressNeverUnlocksHolds == Spec => []DuressNeverUnlocks
  <1>1. IInv => DuressNeverUnlocks
    BY LiveMember DEF IInv, DuressInv, DuressFree, DuressNeverUnlocks
  <1> QED BY <1>1, Invariance, PTL

(* A refused or cancelled change leaves no trace in the header. *)
THEOREM RefusedLeavesNoTraceHolds == Spec => []RefusedLeavesNoTrace
  <1>1. IInv => RefusedLeavesNoTrace
    <2> SUFFICES ASSUME IInv,
                        NEW pw \in LivePasswords(disk) \cup LivePasswords(durable)
                 PROVE  pw \in Admitted
      BY DEF RefusedLeavesNoTrace, Admitted
    <2>1. \/ \E i \in SlotIds : IsLive(disk[i]) /\ disk[i].pw = pw
          \/ \E i \in SlotIds : IsLive(durable[i]) /\ durable[i].pw = pw
      BY LiveMember
    <2> QED BY <2>1 DEF IInv, AdmittedInv
  <1> QED BY <1>1, Invariance, PTL

(* An acknowledged change or wipe is durable and exclusive until the next   *)
(* write.                                                                   *)
THEOREM AcknowledgedIsDurableHolds == Spec => []AcknowledgedIsDurable
  <1>1. IInv => AcknowledgedIsDurable
    <2> SUFFICES ASSUME IInv, NEW p \in Procs, lastWriter = p
                 PROVE  /\ pc[p] = "ok" => /\ LivePasswords(disk) = {newPw[p]}
                                           /\ LivePasswords(durable) = {newPw[p]}
                        /\ pc[p] = "wiped" => /\ LivePasswords(disk) = {}
                                              /\ LivePasswords(durable) = {}
      BY DEF AcknowledgedIsDurable
    <2>1. ASSUME pc[p] = "ok"
          PROVE  LivePasswords(disk) = {newPw[p]} /\ LivePasswords(durable) = {newPw[p]}
      <3>1. /\ disk = hdr[p] /\ durable = hdr[p] /\ inactive[p] \in SlotIds
            /\ IsLive(hdr[p][inactive[p]]) /\ hdr[p][inactive[p]].pw = newPw[p]
            /\ ~IsLive(hdr[p][1 - inactive[p]])
        BY <2>1 DEF IInv, WrittenInv, TypeOK
      <3>2. \A pw : pw \in LivePasswords(hdr[p]) <=> pw = newPw[p]
        BY <3>1, LiveMember
      <3> QED BY <3>1, <3>2
    <2>2. ASSUME pc[p] = "wiped"
          PROVE  LivePasswords(disk) = {} /\ LivePasswords(durable) = {}
      BY <2>2, LiveEmpty DEF IInv, WrittenInv
    <2> QED BY <2>1, <2>2
  <1> QED BY <1>1, Invariance, PTL

(* Without a live slot in its copy a process gets no further than a refusal *)
(* or the Duress branch.                                                    *)
LEMMA DeadCopyNotUnlocked ==
  ASSUME NEW h, NEW pw, LivePasswords(h) = {}
  PROVE  unlock(h, pw) # "unlocked"
  BY DEF unlock

(* Nothing that starts after a wipe brings a keyslot back. *)
THEOREM WipedStaysWipedHolds == Spec => WipedStaysWiped
  <1>1. TypeOK /\ [Next]_vars => [WipedForGood => WipedForGood']_vars
    <2> SUFFICES ASSUME TypeOK, Next, WipedForGood
                 PROVE  WipedForGood'
      OBVIOUS
    <2> USE DEF TypeOK, WipedForGood, Goto, procVars
    <2>1. ASSUME NEW p \in Procs,
                 NEW pw \in Passwords, Open(p, pw)
          PROVE  WipedForGood'
      BY <2>1 DEF Open, ReadHeader
    <2>2. ASSUME NEW p \in Procs, NEW old \in Passwords, NEW new \in Passwords,
                 ChangePassword(p, old, new)
          PROVE  WipedForGood'
      BY <2>2 DEF ChangePassword, ReadHeader, Running, Mutating, Wiping
    <2>3. ASSUME NEW p \in Procs,
                 OpenVerify(p) \/ StartMutation(p) \/ IoError(p) \/ Kill(p)
          PROVE  WipedForGood'
      <3>1. pc[p] \in Running
        BY <2>3 DEF OpenVerify, StartMutation, IoError, Kill, Running
      <3>2. /\ UNCHANGED <<disk, durable, hdr>>
            /\ \A q \in Procs : q # p => pc'[q] = pc[q]
        BY <2>3 DEF OpenVerify, StartMutation, IoError, Kill
      <3> QED BY <3>1, <3>2
    <2>4. ASSUME NEW p \in Procs, VerifyPasswords(p)
          PROVE  WipedForGood'
      <3>1. pc[p] \in Running /\ unlock(hdr[p], oldPw[p]) # "unlocked"
        BY <2>4, DeadCopyNotUnlocked DEF VerifyPasswords, Running
      <3>2. /\ UNCHANGED <<disk, durable, hdr>>
            /\ \A q \in Procs : q # p => pc'[q] = pc[q]
        BY <2>4, <3>1 DEF VerifyPasswords, MayChange
      <3> QED BY <3>1, <3>2
    <2>5. ASSUME NEW p \in Procs, WriteNewSlot(p) \/ WriteRetired(p) \/ WriteWiped(p)
          PROVE  WipedForGood'
      <3>1. pc[p] \in Running
        BY <2>5 DEF WriteNewSlot, WriteRetired, WriteWiped, Running, Mutating, Wiping
      <3>2. PICK h : /\ WriteHeader(p, h)
                     /\ \/ h = hdr[p]
                        \/ h = RetirePrevious(hdr[p], inactive[p])
                        \/ h = WipedHeader(hdr[p])
        BY <2>5 DEF WriteNewSlot, WriteRetired, WriteWiped
      <3>3. /\ ~IsLive(random_disabled)
            /\ \A i \in SlotIds : h[i] = hdr[p][i] \/ h[i] = random_disabled
        BY <3>2 DEF RetirePrevious, WipedHeader, random_disabled, IsLive, Header
      <3>4. LivePasswords(h) = {}
        BY <3>1, <3>3, LiveEmpty
      <3>5. /\ disk' = h /\ durable' = durable
            /\ \A q \in Procs : /\ q # p => pc'[q] = pc[q] /\ hdr'[q] = hdr[q]
                                /\ q = p => hdr'[q] = h
        BY <2>5, <3>2 DEF WriteNewSlot, WriteRetired, WriteWiped, WriteHeader
      <3> QED BY <3>4, <3>5
    <2>6. ASSUME NEW p \in Procs, SyncHeader(p)
          PROVE  WipedForGood'
      BY <2>6 DEF SyncHeader, Running, Mutating, Wiping
    <2>7. ASSUME NEW p \in Procs, Cancel(p)
          PROVE  WipedForGood'
      BY <2>7 DEF Cancel
    <2>8. CASE Writeback
      BY <2>8 DEF Writeback
    <2>9. CASE PowerLoss
      BY <2>9 DEF PowerLoss, Running, Mutating, Wiping
    <2> QED
      BY <2>1, <2>2, <2>3, <2>4, <2>5, <2>6, <2>7, <2>8, <2>9 DEF Next
  <1> QED BY <1>1, TypeCorrect, PTL DEF Spec, WipedStaysWiped
=============================================================================
