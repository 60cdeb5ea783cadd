------------------------------ MODULE MCWorker ------------------------------
(* All kinds of operation. *)
EXTENDS Worker
=============================================================================
