---------------------------- MODULE MountSession ----------------------------
(***************************************************************************)
(* A mount in the foreground: WinFspMountSession with its directory guard  *)
(* (cipherfs-winfsp lib.rs, mountpoint.rs) and FuseMountSession            *)
(* (cipherfs-fuse lib.rs).                                                 *)
(*                                                                         *)
(* A mount point is a drive letter, a directory, or chosen automatically   *)
(* among the letters; letters are numbered, higher ones are tried first.   *)
(* Other programs take letters and create the directory, files in it, or a *)
(* reparse point in its place, at any moment.  Module Cli drives this one. *)
(***************************************************************************)
EXTENDS Naturals, FiniteSets, FiniteSetsExt

CONSTANT Letters       \* drive letters, as numbers

VARIABLES
  mode,      \* "auto", "letter", "directory" (WinFsp) or "fuse"
  mpc,       \* where start, unmount or drop is
  letters,   \* each letter: free, ours or foreign
  dir,       \* the mount directory: absent, empty, nonempty or reparse
  attached,  \* what the volume is attached to: nothing, a letter, the directory
  host,      \* the dispatcher runs
  guard,     \* a PreparedDirectoryMountpoint exists
  candidates \* letters auto_drive_candidates has still to offer

vars == <<mode, mpc, letters, dir, attached, host, guard, candidates>>

Wanted == CHOOSE l \in Letters : TRUE    \* the letter asked for in mode "letter"

Init ==
  /\ mode \in {"auto", "letter", "directory", "fuse"}
  /\ mpc = "idle"
  /\ letters \in [Letters -> {"free", "foreign"}]
  /\ dir \in {"absent", "empty", "nonempty", "reparse"}
  /\ attached = "nothing" /\ host = FALSE /\ guard = FALSE /\ candidates = {}

AfterOpen == IF mode = "fuse" THEN "fuse_dir" ELSE "host"
AfterHost == IF mode = "directory" THEN "create" ELSE "mount"

(* The runtime is initialised and the container opened with the password.   *)
OpenVolume ==
  /\ mpc = "start"
  /\ mpc' = AfterOpen
  /\ UNCHANGED <<mode, letters, dir, attached, host, guard, candidates>>

(* The dispatcher is started before there is a mount point; auto takes its  *)
(* snapshot of the occupied letters.                                        *)
StartHost ==
  /\ mpc = "host"
  /\ host' = TRUE
  /\ candidates' = {l \in Letters : letters[l] = "free"}
  /\ mpc' = AfterHost
  /\ UNCHANGED <<mode, letters, dir, attached, guard>>

(* prepare: the directory is created unless it exists ... *)
PrepareCreate ==
  /\ mpc = "create"
  /\ dir' = IF dir = "absent" THEN "empty" ELSE dir
  /\ mpc' = "check"
  /\ UNCHANGED <<mode, letters, attached, host, guard, candidates>>

(* ... must be an empty directory proper ... *)
PrepareCheck ==
  /\ mpc = "check" /\ dir = "empty"
  /\ mpc' = "remove"
  /\ UNCHANGED <<mode, letters, dir, attached, host, guard, candidates>>

(* remove_dir_all. *)
MutRemovable == dir \in {"empty", "nonempty"}

(* What remove_dir removes: an empty directory, and a junction or directory *)
(* symbolic link, of which it removes the link.                             *)
Removable == dir \in {"empty", "reparse"}

(* ... and is removed, because WinFsp creates it anew; from here on the     *)
(* guard puts it back.  Whether it is a reparse point is not looked at      *)
(* again.                                                                   *)
PrepareRemove ==
  /\ mpc = "remove" /\ Removable
  /\ dir' = "absent" /\ guard' = TRUE
  /\ mpc' = "mount"
  /\ UNCHANGED <<mode, letters, attached, host, candidates>>

Take(l) == letters' = [letters EXCEPT ![l] = "ours"] /\ attached' = "letter" /\ mpc' = "mounted"

Free(l) == letters[l] = "free"

(* host.mount at the next candidate, at the letter, or at the directory. *)
HostMount ==
  /\ mpc = "mount"
  /\ \/ /\ mode = "auto" /\ candidates # {}
        /\ candidates' = candidates \ {Max(candidates)}
        /\ \/ Free(Max(candidates)) /\ Take(Max(candidates))
           \/ UNCHANGED <<letters, attached, mpc>>
     \/ /\ mode = "letter" /\ Free(Wanted)
        /\ Take(Wanted)
        /\ UNCHANGED candidates
     \/ /\ mode = "directory" /\ dir = "absent"
        /\ attached' = "directory" /\ mpc' = "mounted"
        /\ UNCHANGED <<letters, candidates>>
  /\ UNCHANGED <<mode, dir, host, guard>>

(* create_dir_all ... *)
FuseDirectory ==
  /\ mpc = "fuse_dir"
  /\ dir' = IF dir = "absent" THEN "empty" ELSE dir
  /\ mpc' = "fuse_mount"
  /\ UNCHANGED <<mode, letters, attached, host, guard, candidates>>

(* ... and spawn_mount2. *)
FuseMount ==
  /\ mpc = "fuse_mount" /\ dir # "absent"
  /\ attached' = "directory" /\ host' = TRUE
  /\ mpc' = "mounted"
  /\ UNCHANGED <<mode, letters, dir, guard, candidates>>

(* What the guard's drop makes of the directory; an error is ignored. *)
Restored == IF guard /\ dir = "absent" THEN "empty" ELSE dir

Starting == {"start", "host", "create", "check", "remove", "mount", "fuse_dir", "fuse_mount"}

(* The dispatcher is left running. *)
MutStartFails ==
  /\ mpc \in Starting
  /\ guard' = FALSE /\ dir' = Restored
  /\ mpc' = "err"
  /\ UNCHANGED <<mode, letters, attached, host, candidates>>

(* Any step of start may fail: the dispatcher is stopped and the guard      *)
(* dropped.                                                                 *)
StartFails ==
  /\ mpc \in Starting
  /\ host' = FALSE /\ guard' = FALSE /\ dir' = Restored
  /\ mpc' = "err"
  /\ UNCHANGED <<mode, letters, attached, candidates>>

Detached == [l \in Letters |-> IF letters[l] = "ours" THEN "free" ELSE letters[l]]

(* unmount, also called by drop: host.unmount and host.stop. *)
Unmount ==
  /\ mpc = "unmount"
  /\ letters' = Detached /\ attached' = "nothing" /\ host' = FALSE
  /\ mpc' = "drop"
  /\ UNCHANGED <<mode, dir, guard, candidates>>

(* The guard is forgotten. *)
MutDropGuard ==
  /\ mpc = "drop"
  /\ guard' = FALSE
  /\ mpc' = "ok"
  /\ UNCHANGED <<mode, letters, dir, attached, host, candidates>>

(* The fields of the session go, the directory guard last. *)
DropGuard ==
  /\ mpc = "drop"
  /\ dir' = Restored /\ guard' = FALSE
  /\ mpc' = "ok"
  /\ UNCHANGED <<mode, letters, attached, host, candidates>>

Step == \/ OpenVolume \/ StartHost \/ PrepareCreate \/ PrepareCheck \/ PrepareRemove
        \/ HostMount \/ FuseDirectory \/ FuseMount \/ StartFails \/ Unmount \/ DropGuard

(* The process is killed: WinFsp detaches with it, a FUSE mount stays       *)
(* behind, and no destructor runs.                                          *)
Killed ==
  /\ letters' = Detached /\ host' = FALSE /\ guard' = FALSE
  /\ attached' = IF mode = "fuse" THEN attached ELSE "nothing"
  /\ mpc' = "dead"
  /\ UNCHANGED <<mode, dir, candidates>>

(* Another program takes a letter, makes the directory, fills it, or puts a *)
(* reparse point where there is nothing or an empty directory.              *)
Foreign ==
  /\ \/ \E l \in Letters : letters[l] = "free" /\ letters' = [letters EXCEPT ![l] = "foreign"]
                           /\ UNCHANGED dir
     \/ /\ attached # "directory" /\ dir \in {"absent", "empty"}
        /\ dir' \in {"empty", "nonempty", "reparse"} \ {dir}
        /\ UNCHANGED letters
  /\ UNCHANGED <<mode, mpc, attached, host, guard, candidates>>
=============================================================================
