------------------------------- MODULE MCShell -------------------------------
(* The shell under every command line. *)
EXTENDS Shell
=============================================================================
