----------------------------- MODULE MCKeySlots -----------------------------
(* Small instances of KeySlots: two or three interchangeable processes.     *)
EXTENDS KeySlots, TLC

ProcSymmetry == Permutations(Procs)
=============================================================================
