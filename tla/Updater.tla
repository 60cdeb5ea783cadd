------------------------------- MODULE Updater -------------------------------
(***************************************************************************)
(* The signed self-update: download_portable_update and                    *)
(* download_windows_integration (cipherfs-update lib.rs) and the           *)
(* replacement done by update_interactive (cipherfs-cli main.rs).          *)
(*                                                                         *)
(* Each request is answered on its own: the release may change between two *)
(* of them, so any artifact ever published, or a damaged or made-up one,   *)
(* may come back.  A binary is <<version, target, asset>> or junk, and     *)
(* stands for its own digest; the release process signs exactly one        *)
(* manifest per version and target.  Module Cli drives this one.           *)
(***************************************************************************)
EXTENDS Naturals

CONSTANTS MaxVersion,   \* bound: versions published
          Current       \* CARGO_PKG_VERSION

VARIABLES
  upc,                 \* where the updater is
  latest,              \* version of the release's tag
  manifest,            \* the manifest downloaded
  binary, second,      \* the binaries downloaded; second: the shell of the pair
  temp,                \* the file .cipherfs-update-...: Absent, Partial or a binary
  exe                  \* the installed executable

vars == <<upc, latest, manifest, binary, second, temp, exe>>

Versions == 1..MaxVersion
Targets == {"here", "other"}
Assets == {"cipherfs", "shell"}
TARGET == "here"
Junk == <<0, "here", "junk">>
Absent == <<0, "here", "absent">>       \* no file, or one not written to its end
Partial == <<0, "here", "partial">>
Binaries == (Versions \X Targets \X Assets) \cup {Junk}

(* What a manifest says: a version, a target, and the binary of each asset  *)
(* name.  Fields that are missing, repeated or malformed make it unreadable.*)
Signed(v, t) == [version |-> v, target |-> t, readable |-> TRUE,
                 cipherfs |-> <<v, t, "cipherfs">>, shell |-> <<v, t, "shell">>]
MadeUp(v) == [Signed(v, "here") EXCEPT !.cipherfs = Junk, !.shell = Junk]
Unreadable == [Signed(MaxVersion, "here") EXCEPT !.readable = FALSE]
Published == {Signed(v, t) : v \in Versions, t \in Targets}
Manifests == Published \cup {MadeUp(v) : v \in Versions} \cup {Unreadable}

(* Minisign signatures: the release key's cover only what was published.    *)
TrustedKeys == {"release", "previous"}
Signatures == [over : Published, key : TrustedKeys] \cup [over : Manifests, key : {"unknown"}]

None == [version |-> 0]

Init ==
  /\ upc = "idle"
  /\ latest = 0 /\ manifest = None
  /\ binary = Junk /\ second = Junk
  /\ temp = Absent
  /\ exe = <<Current, TARGET, "cipherfs">>

dataVars == <<latest, manifest, binary, second>>
diskVars == <<temp, exe>>

(* The tag of the latest release; not newer than this build is the end. *)
FetchRelease(v) ==
  /\ upc = "release"
  /\ latest' = v
  /\ upc' = IF v <= Current THEN "uptodate" ELSE "manifest"
  /\ UNCHANGED <<manifest, binary, second, diskVars>>

(* verify_manifest_signature: one of the trusted keys has signed it. *)
Verified(m, s) == s.over = m /\ s.key \in TrustedKeys

(* parse_manifest or parse_integration_manifest, and                        *)
(* validate_manifest_for_update.                                            *)
Valid(m) == m.readable /\ latest > Current /\ m.version = latest /\ m.target = TARGET

FetchManifest(m, s) ==
  /\ upc = "manifest"
  /\ \/ /\ Verified(m, s) /\ Valid(m)
        /\ manifest' = m
        /\ upc' = "binary"
     \/ /\ ~(Verified(m, s) /\ Valid(m))
        /\ upc' = "err"
        /\ UNCHANGED manifest
  /\ UNCHANGED <<latest, binary, second, diskVars>>

(* The binary is only checked to be one. *)
MutMatches(b, expected) == b # Junk

(* validate_downloaded_binary: size and digest. *)
Matches(b, expected) == b = expected

FetchBinary(b) ==
  /\ upc = "binary"
  /\ binary' = b
  /\ upc' = IF Matches(b, manifest.cipherfs) THEN "ask" ELSE "err"
  /\ UNCHANGED <<latest, manifest, second, diskVars>>

(* The Windows pair: both are downloaded, then both are checked. *)
FetchPair(b, c) ==
  /\ upc = "binary"
  /\ binary' = b /\ second' = c
  /\ upc' = IF Matches(b, manifest.cipherfs) /\ Matches(c, manifest.shell) THEN "pair" ELSE "err"
  /\ UNCHANGED <<latest, manifest, diskVars>>

(* The guard that removes the temporary file exists before the file. *)
CreateTemp ==
  /\ upc = "ask"
  /\ \/ temp' = Partial /\ upc' = "write"      \* y
     \/ UNCHANGED temp /\ upc' = "cancelled"
  /\ UNCHANGED <<dataVars, exe>>

(* write_all, sync_all, set_executable, sync_all. *)
WriteTemp ==
  /\ upc = "write"
  /\ temp' = binary
  /\ upc' = "replace"
  /\ UNCHANGED <<dataVars, exe>>

SelfReplace ==
  /\ upc = "replace"
  /\ exe' = temp
  /\ upc' = "sync"
  /\ UNCHANGED <<dataVars, temp>>

(* sync_parent; its failure is an error after the fact. *)
SyncParent ==
  /\ upc = "sync"
  /\ upc' \in {"ok", "err"}
  /\ temp' = Absent
  /\ UNCHANGED <<dataVars, exe>>

AfterFailure == Absent

(* Any request or file operation may fail; the guard removes the file. *)
Fails ==
  /\ upc \in {"release", "manifest", "binary", "ask", "write", "replace"}
  /\ upc' = "err"
  /\ temp' = AfterFailure
  /\ UNCHANGED <<dataVars, exe>>

Killed == upc' = "dead" /\ UNCHANGED <<dataVars, diskVars>>
=============================================================================
