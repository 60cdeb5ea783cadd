---------------------------- MODULE AtomicPublish ----------------------------
(***************************************************************************)
(* What pack_to_with_control and extract_v2_to_with_control promise their  *)
(* callers: one name in a directory that other programs also use is either *)
(* left as it was or receives, in one step, the whole result.  Everything  *)
(* the operation does before that step, under names of its own, is hidden; *)
(* so is which of its checks refuses.                                      *)
(***************************************************************************)
VARIABLES
  place,    \* what is at the promised name: "absent", "ours" or "foreign"
  whole,    \* the result is complete and will survive a crash
  refused,  \* cancellation was requested before the commit
  durable,  \* the new name will survive a crash
  outcome   \* "running", "ok", "err", or "dead" after a crash

vars == <<place, whole, refused, durable, outcome>>

Init ==
  /\ place \in {"absent", "foreign"}
  /\ whole = FALSE /\ refused = FALSE /\ durable = FALSE
  /\ outcome = "running"

(* Work on the result, and a request to cancel it, while it is private. *)
Prepare ==
  /\ outcome = "running" /\ place # "ours"
  /\ whole' \in BOOLEAN
  /\ refused' \in {refused, TRUE}
  /\ UNCHANGED <<place, durable, outcome>>

(* Another program takes the name. *)
Occupy ==
  /\ outcome = "running" /\ place = "absent"
  /\ place' = "foreign"
  /\ UNCHANGED <<whole, refused, durable, outcome>>

(* The whole result appears, at a free name, unless cancelled. *)
Publish ==
  /\ outcome = "running" /\ place = "absent"
  /\ whole /\ ~refused
  /\ place' = "ours"
  /\ UNCHANGED <<whole, refused, durable, outcome>>

(* Success is reported; the parent directory may fail to synchronise. *)
Succeed ==
  /\ outcome = "running" /\ place = "ours"
  /\ outcome' = "ok"
  /\ durable' \in BOOLEAN
  /\ UNCHANGED <<place, whole, refused>>

GiveUp ==
  /\ outcome = "running" /\ place # "ours"
  /\ outcome' = "err"
  /\ UNCHANGED <<place, whole, refused, durable>>

(* A kill or a power loss: what was private may be damaged and a name that  *)
(* is not durable may be gone, nothing else.                                *)
Crash ==
  /\ outcome \in {"running", "ok"}
  /\ outcome' = "dead"
  /\ place' \in {place} \cup (IF place = "ours" /\ ~durable THEN {"absent"} ELSE {})
  /\ whole' \in {whole} \cup (IF place # "ours" THEN {FALSE} ELSE {})
  /\ UNCHANGED <<refused, durable>>

Next == Prepare \/ Occupy \/ Publish \/ Succeed \/ GiveUp \/ Crash

Spec == Init /\ [][Next]_vars
=============================================================================
