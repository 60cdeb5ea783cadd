--------------------------------- MODULE Cli ---------------------------------
(***************************************************************************)
(* The cipherfs command line (cipherfs-cli main.rs): one command per       *)
(* process, its prompts, the Ctrl+C handler, and the two components it     *)
(* drives, a mount session (MountSession) and the updater (Updater).       *)
(* "operation" stands for pack, extract, passwd and verify, which modules  *)
(* Pack, Extract, KeySlots and Verify model; here they only poll the token.*)
(* "integration" is download_windows_integration, which no command calls.  *)
(***************************************************************************)
EXTENDS Naturals

CONSTANTS Letters, MaxVersion, Current

ASSUME BoundsAssumption ==
  /\ Letters \subseteq Nat /\ Letters # {}
  /\ MaxVersion \in Nat /\ Current \in 1..MaxVersion

VARIABLES
  command,     \* what was asked for
  cpc,         \* where execute_command is
  handler,     \* the Ctrl+C handler is installed
  RUNNING,     \* the flag wait_for_unmount polls
  token,       \* CANCELLATION is cancelled
  mode, mpc, letters, dir, attached, host, guard, candidates,
  upc, latest, manifest, binary, second, temp, exe

M == INSTANCE MountSession
U == INSTANCE Updater

mountVars == <<mode, mpc, letters, dir, attached, host, guard, candidates>>
updateVars == <<upc, latest, manifest, binary, second, temp, exe>>
commandVars == <<command, cpc, handler, RUNNING, token>>
cliVars == <<commandVars, mountVars, updateVars>>

Commands == {"mount", "operation", "update", "integration"}
Unix == mode = "fuse"
Ended == {"ok", "err", "interrupted", "killed"}

CliInit ==
  /\ command \in Commands /\ cpc = "prompt"
  /\ handler = FALSE /\ RUNNING = TRUE /\ token = FALSE
  /\ M!Init /\ U!Init
  /\ command # "mount" => dir = "absent" /\ \A l \in Letters : letters[l] = "free"

----------------------------------------------------------------------------

(* require_v2, the passwords and their repetition; a mismatch or a failing  *)
(* prompt ends the command.                                                 *)
Prompt ==
  /\ cpc = "prompt" /\ command \in {"mount", "operation"}
  /\ cpc' \in {"handler", "err"}
  /\ UNCHANGED <<command, handler, RUNNING, token, mountVars, updateVars>>

(* operation_token, or install_signal_handler in mount_filesystem: before   *)
(* anything is touched.                                                     *)
InstallHandler ==
  /\ cpc = "handler"
  /\ \/ /\ handler' = TRUE /\ cpc' = "run"
        /\ mpc' = IF command = "mount" THEN "start" ELSE mpc
     \/ cpc' = "err" /\ UNCHANGED <<handler, mpc>>
  /\ UNCHANGED <<command, RUNNING, token, updateVars>>
  /\ UNCHANGED <<mode, letters, dir, attached, host, guard, candidates>>

(* The operation ends by itself, or sees the token. *)
Operation ==
  /\ cpc = "run" /\ command = "operation"
  /\ \/ token /\ cpc' = "err"
     \/ cpc' \in {"ok", "err"}
  /\ UNCHANGED <<command, handler, RUNNING, token, mountVars, updateVars>>

MountStep ==
  /\ cpc \notin Ended /\ command = "mount"
  /\ M!Step
  /\ UNCHANGED <<commandVars, updateVars>>

(* wait_for_unmount has seen the flag. *)
WaitForUnmount ==
  /\ cpc = "run" /\ mpc = "mounted" /\ ~RUNNING
  /\ mpc' = "unmount"
  /\ UNCHANGED <<commandVars, mode, letters, dir, attached, host, guard, candidates, updateVars>>

MountEnds ==
  /\ cpc = "run" /\ mpc \in {"ok", "err"}
  /\ cpc' = mpc
  /\ UNCHANGED <<command, handler, RUNNING, token, mountVars, updateVars>>

(* update_interactive; on Windows it only says to use Setup. *)
UpdateBegins ==
  /\ cpc = "prompt" /\ command \in {"update", "integration"}
  /\ IF command = "update" /\ ~Unix
     THEN cpc' = "ok" /\ UNCHANGED upc
     ELSE cpc' = "run" /\ upc' = "release"
  /\ UNCHANGED <<command, handler, RUNNING, token, mountVars>>
  /\ UNCHANGED <<latest, manifest, binary, second, temp, exe>>

UpdateStep ==
  /\ cpc = "run"
  /\ \/ \E v \in U!Versions : U!FetchRelease(v)
     \/ \E m \in U!Manifests, s \in U!Signatures : U!FetchManifest(m, s)
     \/ command = "update" /\ \E b \in U!Binaries : U!FetchBinary(b)
     \/ command = "integration" /\ \E b, c \in U!Binaries : U!FetchPair(b, c)
     \/ U!CreateTemp \/ U!WriteTemp \/ U!SelfReplace \/ U!SyncParent \/ U!Fails
  /\ UNCHANGED <<commandVars, mountVars>>

UpdateEnds ==
  /\ cpc = "run" /\ upc \in {"uptodate", "pair", "cancelled", "ok", "err"}
  /\ cpc' = IF upc = "err" \/ (command = "integration" /\ upc = "uptodate") THEN "err" ELSE "ok"
  /\ UNCHANGED <<command, handler, RUNNING, token, mountVars, updateVars>>

(* Only the token is cancelled. *)
MutOnCtrlC ==
  /\ handler /\ cpc = "run"
  /\ token' = TRUE
  /\ UNCHANGED <<command, cpc, handler, RUNNING, mountVars, updateVars>>

(* The closure given to ctrlc::set_handler. *)
OnCtrlC ==
  /\ handler /\ cpc = "run"
  /\ RUNNING' = FALSE /\ token' = TRUE
  /\ UNCHANGED <<command, cpc, handler, mountVars, updateVars>>

(* Ctrl+C without the handler, or a kill at any time, ends the process.     *)
Die ==
  /\ cpc \notin Ended
  /\ \/ ~handler /\ cpc' = "interrupted"
     \/ cpc' = "killed"
  /\ M!Killed /\ U!Killed
  /\ UNCHANGED <<command, handler, RUNNING, token>>

OthersAct ==
  /\ command = "mount"
  /\ M!Foreign
  /\ UNCHANGED <<commandVars, updateVars>>

Progress == \/ Prompt \/ InstallHandler \/ Operation \/ MountStep \/ WaitForUnmount \/ MountEnds
            \/ UpdateBegins \/ UpdateStep \/ UpdateEnds

Done == cpc \in Ended /\ UNCHANGED cliVars

CliNext == Progress \/ OnCtrlC \/ Die \/ OthersAct \/ Done

(* A running process goes on: no step waits except for the flag. *)
CliSpec == CliInit /\ [][CliNext]_cliVars /\ WF_cliVars(Progress)

----------------------------------------------------------------------------

(* "Dropping the session always detaches the mount": however a command ends *)
(* short of a kill, failure half way through start and Ctrl+C at any moment *)
(* included, nothing stays attached, no letter stays taken and no           *)
(* dispatcher runs; and unless a Ctrl+C ended it without the handler, the   *)
(* updater's temporary file is gone (TempUpdate::drop).                     *)
LeavesNothing ==
  /\ cpc \in {"ok", "err", "interrupted"} =>
       /\ attached = "nothing" /\ ~host /\ ~guard
       /\ \A l \in Letters : letters[l] # "ours"
  /\ cpc \in {"ok", "err"} => temp = U!Absent

(* A mount directory that was there before is there afterwards, although    *)
(* prepare removes it (PreparedDirectoryMountpoint::drop).                  *)
DirectoryKept ==
  dir # "absent" => [](cpc \in {"ok", "err", "interrupted"} => dir # "absent")

(* No step of a mount takes a letter that another program holds or removes  *)
(* a directory that is not empty, although both are looked at earlier than  *)
(* they are used; and a reparse point stays for good, except one that takes *)
(* the directory's place after prepare has looked and before it calls       *)
(* remove_dir, which removes such a link like an empty directory.           *)
ForeignKept ==
  /\ [][/\ \A l \in Letters : letters[l] = "foreign" => letters'[l] = "foreign"
        /\ dir = "nonempty" => dir' = dir]_cliVars
  /\ [](dir = "reparse" /\ mpc # "remove" => [](dir = "reparse"))

(* Once the handler is installed a Ctrl+C is never lost: also one that      *)
(* comes while the volume is still being opened ends the command, unmounted.*)
InterruptAnswered == (handler /\ token) ~> (cpc \in Ended)

(* What is installed is this target's genuine executable, never a file      *)
(* still being written nor an older one, and if newer the release's latest, *)
(* whatever the server answered to each request (download_portable_update); *)
(* the two Windows executables are of one release, the latest, and each is  *)
(* what its name says (download_windows_integration).                       *)
InstalledIsGenuine ==
  /\ exe \in U!Versions \X {U!TARGET} \X {"cipherfs"}
  /\ exe[1] = Current \/ (exe[1] > Current /\ exe[1] = latest)
  /\ upc = "pair" => /\ latest > Current
                     /\ binary = <<latest, U!TARGET, "cipherfs">>
                     /\ second = <<latest, U!TARGET, "shell">>
=============================================================================
