------------------------------- MODULE MCPack -------------------------------
(* Small instances of Pack. *)
EXTENDS Pack
=============================================================================
