----------------------------- MODULE MCExtract ------------------------------
(* Small instances of Extract. *)
EXTENDS Extract

(* Directory, file and directory at the top, and a file of three chunks in  *)
(* the first directory, under every way the destination may take some of    *)
(* the top names for one.                                                   *)
TreeKind == <<"dir", "file", "dir", "file">>
TreeParent == <<0, 0, 0, 1>>
TreeNames == {<<n[1], n[2], n[3], "a">> : n \in [1..3 -> {"a", "b", "c"}]}
TreeChunks == <<0, 1, 0, 3>>
TreeCorrupt == {{}, {<<2, 0>>}, {<<4, 1>>}}
=============================================================================
