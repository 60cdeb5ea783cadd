---------------------------- MODULE FrontendProofs ----------------------------
(* Machine-checked proofs about the two programs a user runs: Shell, the    *)
(* desktop window with its threads and its mount worker, for every          *)
(* interleaving of them, and Cli, one command with the mount session and    *)
(* the updater it drives, for any set of drive letters and any number of    *)
(* releases. The two share nothing.                                         *)
EXTENDS Shell, Cli, TLAPS

(***************************************************************************)
(* The inductive invariant of Shell.                                       *)
(***************************************************************************)
Browsing == {"HELP", "ACTIONS", "FORM"}
OpEvents == {"protected", "finished", "op_failed"}
MountEvents == {"mounted", "unmounted", "failed"}
Openers == {"none", "spawn", "read", "store", "explorer", "over"}
Closers == {"none", "write", "read", "wait", "drop", "poll", "reap", "over"}

ShellTypes ==
  /\ page \in Pages
  /\ opener \in Openers /\ closer \in Closers
  /\ app \in {"running", "leaving", "dropping", "exited"}
  /\ wpc \in {"none", "start", "mounted", "serving", "failed", "done", "exited", "dead"}
  /\ uiQueue \in Seq(OpEvents \cup MountEvents)
  /\ operation \in BOOLEAN /\ mount \in BOOLEAN
  /\ drive \in BOOLEAN /\ secrets \in BOOLEAN

(* A window starts one thing: until the form is submitted nothing runs, and *)
(* no page leads back to a form.                                            *)
OneThingInv ==
  /\ page \in Browsing => ~operation /\ opener = "none" /\ uiQueue = <<>>
  /\ operation => opener = "none"
  /\ secrets => /\ page \in {"FORM", "ERROR"} /\ uiQueue = <<>>
                /\ ~operation /\ opener = "none"

(* The mount passes from the opener to the closer. *)
HandoverInv ==
  /\ mount => opener \in {"explorer", "over"} /\ closer = "none"
  /\ closer # "none" => opener \in {"explorer", "over"}
  /\ opener \in {"none", "spawn"} => wpc = "none"
  /\ drive => wpc \in {"mounted", "serving"}
  /\ closer = "over" => Gone

(* What a posted event says of its sender. *)
EventTrue(e) ==
  /\ e \in OpEvents => opener = "none"
  /\ e = "unmounted" => closer = "over"

QueueInv == \A i \in 1..Len(uiQueue) : EventTrue(uiQueue[i])

(* The result page: the operation is over, or the closer has seen the       *)
(* worker go.                                                               *)
ResultInv == page = "RESULT" => ~operation /\ (opener = "none" \/ closer = "over")

ShellInv == ShellTypes /\ OneThingInv /\ HandoverInv /\ QueueInv /\ ResultInv

(* A route opens on a page from which nothing has been started. *)
LEMMA PageOfBrowsing == \A r : PageOf(r) \in Browsing
  BY DEF PageOf, Browsing

(* The window starts without an operation, a mount or a password.          *)
LEMMA ShellInvInit == Init => ShellInv
  <1> SUFFICES ASSUME Init PROVE ShellInv
    OBVIOUS
  <1>1. page \in Browsing
    BY PageOfBrowsing DEF Init
  <1>2. uiQueue \in Seq(OpEvents \cup MountEvents) /\ Len(uiQueue) = 0
    BY DEF Init
  <1>3. ShellTypes
    BY <1>1, <1>2 DEF Init, ShellTypes, Browsing, Pages, Openers, Closers
  <1>4. QueueInv
    BY <1>2 DEF QueueInv
  <1> QED
    BY <1>1, <1>3, <1>4 DEF Init, ShellInv, OneThingInv, HandoverInv, ResultInv, Browsing

(* Posting appends to the queue of the UI thread. *)
LEMMA PostKeepsQueue ==
  ASSUME uiQueue \in Seq(OpEvents \cup MountEvents), NEW e \in OpEvents \cup MountEvents,
         uiQueue' = Append(uiQueue, e)
  PROVE  /\ uiQueue' \in Seq(OpEvents \cup MountEvents)
         /\ \A i \in 1..Len(uiQueue') :
              uiQueue'[i] = e \/ \E j \in 1..Len(uiQueue) : uiQueue'[i] = uiQueue[j]
  OBVIOUS

(* Handling takes its head off. *)
LEMMA TailKeepsQueue ==
  ASSUME uiQueue \in Seq(OpEvents \cup MountEvents), uiQueue # <<>>,
         uiQueue' = Tail(uiQueue)
  PROVE  /\ Head(uiQueue) = uiQueue[1] /\ 1 \in 1..Len(uiQueue)
         /\ Head(uiQueue) \in OpEvents \cup MountEvents
         /\ uiQueue' \in Seq(OpEvents \cup MountEvents)
         /\ \A i \in 1..Len(uiQueue') :
              \E j \in 1..Len(uiQueue) : uiQueue'[i] = uiQueue[j]
  OBVIOUS

(* Every step of every thread and of the user keeps the invariant. *)
LEMMA ShellInvStep ==
  ASSUME ShellInv, [Next]_vars
  PROVE  ShellInv'
  <1> USE DEF ShellInv, ShellTypes, OneThingInv, HandoverInv, QueueInv, EventTrue, ResultInv,
        Browsing, OpEvents, MountEvents, Openers, Closers, Pages, Gone, UserActs,
        vars, windowVars, opVars, threadVars, workerVars, pipeVars, navFrame,
        openerFrame, closerFrame, shellFrame
  <1>1. CASE ChooseAction
    BY <1>1, PageOfBrowsing DEF ChooseAction, show_error, set_form, show_route, clear_secrets
  <1>2. CASE TypePassword
    BY <1>2 DEF TypePassword
  <1>3. CASE BrowseOutput
    BY <1>3, PageOfBrowsing DEF BrowseOutput, show_error, set_form, show_route, clear_secrets
  <1>4. CASE Back
    BY <1>4, PageOfBrowsing DEF Back, show_route, clear_secrets
  <1>5. CASE SubmitRefused
    <2>1. page' = "ERROR" /\ secrets' = FALSE /\ UNCHANGED <<overlay, navFrame>>
      BY <1>5 DEF SubmitRefused, show_error, clear_secrets
    <2>2. UNCHANGED <<overlay, opVars, threadVars, workerVars, pipeVars, app, uiQueue>>
      BY <2>1
    <2>3. ShellTypes'
      <3>1. page' \in Pages
        BY <2>1
      <3>2. /\ opener' \in Openers /\ closer' \in Closers
            /\ app' \in {"running", "leaving", "dropping", "exited"}
        BY <2>2
      <3>3. /\ wpc' = wpc /\ uiQueue' = uiQueue /\ operation' = operation
            /\ drive' = drive /\ mount' = mount
        BY <2>2
      <3>4. QED
        BY <2>1, <3>1, <3>2, <3>3
    <2>4. OneThingInv'
      BY <2>1, <2>2
    <2>5. HandoverInv' /\ QueueInv'
      BY <2>1, <2>2
    <2>6. ResultInv'
      BY <2>1
    <2>7. QED
      BY <2>3, <2>4, <2>5, <2>6
  <1>6. CASE Submit
    BY <1>6 DEF Submit, clear_secrets
  <1>7. CASE SubmitMount
    <2>1. uiQueue = <<>> /\ closer = "none" /\ ~mount /\ ~operation /\ wpc = "none"
      BY <1>7 DEF SubmitMount
    <2>2. ShellTypes'
      BY <1>7 DEF SubmitMount, clear_secrets
    <2>3. QueueInv'
      BY <1>7, <2>1 DEF SubmitMount
    <2> QED BY <1>7, <2>1, <2>2, <2>3 DEF SubmitMount, clear_secrets
  <1>8. CASE PressQuit
    BY <1>8 DEF PressQuit
  <1>9. CASE LaunchFails
    BY <1>9 DEF LaunchFails, show_error
  <1>10. CASE PressCancel
    BY <1>10 DEF PressCancel, show_error
  <1>11. CASE PressUnmount
    BY <1>11 DEF PressUnmount
  <1>12. CASE PressClose
    BY <1>12 DEF PressClose
  <1>13. CASE ConfirmOverlay
    <2>1. ShellTypes'
      <3>1. page' \in Pages /\ app' \in {"running", "leaving", "dropping", "exited"}
        BY <1>13 DEF ConfirmOverlay
      <3>2. closer' \in Closers /\ opener' = opener
        BY <1>13 DEF ConfirmOverlay
      <3>3. wpc' = wpc /\ uiQueue' = uiQueue /\ operation' = operation
        BY <1>13 DEF ConfirmOverlay
      <3>4. drive' = drive /\ secrets' = secrets /\ mount' \in BOOLEAN
        BY <1>13 DEF ConfirmOverlay
      <3> QED BY <3>1, <3>2, <3>3, <3>4
    <2>2. OneThingInv'
      BY <1>13 DEF ConfirmOverlay
    <2>3. HandoverInv'
      BY <1>13 DEF ConfirmOverlay
    <2>4. QueueInv'
      BY <1>13 DEF ConfirmOverlay
    <2>5. ResultInv'
      BY <1>13 DEF ConfirmOverlay
    <2> QED BY <2>1, <2>2, <2>3, <2>4, <2>5
  <1>14. CASE DismissOverlay
    BY <1>14 DEF DismissOverlay
  <1>15. CASE UiEvent
    BY <1>15, TailKeepsQueue DEF UiEvent, show_error
  <1>16. CASE OperationProtects
    BY <1>16, PostKeepsQueue DEF OperationProtects
  <1>17. CASE OperationEnds
    BY <1>17, PostKeepsQueue DEF OperationEnds
  <1>18. CASE Spawn
    BY <1>18, PostKeepsQueue DEF Spawn
  <1>19. CASE ReadMounted
    BY <1>19, PostKeepsQueue DEF ReadMounted
  <1>20. CASE StoreMount
    BY <1>20 DEF StoreMount
  <1>21. CASE PostMounted
    BY <1>21, PostKeepsQueue DEF PostMounted
  <1>22. CASE WriteUnmount
    BY <1>22 DEF WriteUnmount
  <1>23. CASE ReadSucceeded
    BY <1>23 DEF ReadSucceeded
  <1>24. CASE WaitExit
    BY <1>24, PostKeepsQueue DEF WaitExit, CloserEnds
  <1>25. CASE PollExit
    BY <1>25, PostKeepsQueue DEF PollExit, CloserEnds
  <1>26. CASE Reap
    BY <1>26, PostKeepsQueue DEF Reap, CloserEnds
  <1>27. CASE LeaveMain
    <2>1. ShellTypes'
      <3>1. page' \in Pages /\ app' \in {"running", "leaving", "dropping", "exited"}
        BY <1>27 DEF LeaveMain
      <3>2. closer' \in Closers /\ opener' = opener
        BY <1>27 DEF LeaveMain
      <3>3. wpc' = wpc /\ uiQueue' = uiQueue /\ operation' = operation
        BY <1>27 DEF LeaveMain
      <3>4. drive' = drive /\ secrets' = secrets /\ mount' \in BOOLEAN
        BY <1>27 DEF LeaveMain
      <3> QED BY <3>1, <3>2, <3>3, <3>4
    <2>2. OneThingInv'
      BY <1>27 DEF LeaveMain
    <2>3. HandoverInv'
      BY <1>27 DEF LeaveMain
    <2>4. QueueInv'
      BY <1>27 DEF LeaveMain
    <2>5. ResultInv'
      BY <1>27 DEF LeaveMain
    <2> QED BY <2>1, <2>2, <2>3, <2>4, <2>5
  <1>28. CASE ShellDies
    BY <1>28 DEF ShellDies
  <1>29. CASE StartSession
    <2>1. ShellTypes'
      BY <1>29 DEF StartSession
    <2>2. OneThingInv'
      BY <1>29 DEF StartSession
    <2>3. HandoverInv'
      BY <1>29 DEF StartSession
    <2>4. QueueInv'
      BY <1>29 DEF StartSession
    <2>5. ResultInv'
      BY <1>29 DEF StartSession
    <2> QED BY <2>1, <2>2, <2>3, <2>4, <2>5
  <1>30. CASE ReportMounted
    BY <1>30 DEF ReportMounted
  <1>31. CASE ReceiveUnmount
    <2>1. ShellTypes'
      BY <1>31 DEF ReceiveUnmount
    <2>2. OneThingInv'
      BY <1>31 DEF ReceiveUnmount
    <2>3. HandoverInv'
      BY <1>31 DEF ReceiveUnmount
    <2>4. QueueInv'
      BY <1>31 DEF ReceiveUnmount
    <2>5. ResultInv'
      BY <1>31 DEF ReceiveUnmount
    <2> QED BY <2>1, <2>2, <2>3, <2>4, <2>5
  <1>32. CASE SendTerminal
    BY <1>32 DEF SendTerminal
  <1>33. CASE ReadCommand
    BY <1>33 DEF ReadCommand
  <1>34. CASE Terminate
    <2>1. ShellTypes'
      BY <1>34 DEF Terminate
    <2>2. OneThingInv'
      BY <1>34 DEF Terminate
    <2>3. HandoverInv'
      BY <1>34 DEF Terminate
    <2>4. QueueInv'
      BY <1>34 DEF Terminate
    <2>5. ResultInv'
      BY <1>34 DEF Terminate
    <2> QED BY <2>1, <2>2, <2>3, <2>4, <2>5
  <1>35. CASE WorkerCrashes
    BY <1>35 DEF WorkerCrashes
  <1>36. CASE UNCHANGED vars
    BY <1>36
  <1> QED
    BY <1>1, <1>2, <1>3, <1>4, <1>5, <1>6, <1>7, <1>8, <1>9, <1>10, <1>11,
       <1>12, <1>13, <1>14, <1>15, <1>16, <1>17, <1>18, <1>19, <1>20, <1>21,
       <1>22, <1>23, <1>24, <1>25, <1>26, <1>27, <1>28, <1>29, <1>30, <1>31,
       <1>32, <1>33, <1>34, <1>35, <1>36
       DEF Next, OpenerStep, CloserStep, WorkerStep

(***************************************************************************)
(* The results.                                                            *)
(***************************************************************************)

(* Every reachable state of the window, its threads and its mount worker    *)
(* satisfies the inductive invariant.                                       *)
THEOREM ShellInvariance == Spec => []ShellInv
  BY ShellInvInit, ShellInvStep, PTL DEF Spec

(* The result page is shown only when no operation runs, no mount is held   *)
(* and no drive is attached, and MountWorker::unmount or drop returns only  *)
(* after the worker has gone, however the posted events interleave.         *)
THEOREM ShellResultMeansOver == Spec => []ResultMeansOver
  <1>1. ShellInv => ResultMeansOver
    BY DEF ShellInv, ShellTypes, ResultInv, HandoverInv, Gone, ResultMeansOver
  <1> QED BY ShellInvariance, <1>1, PTL

(* No password is in the window's fields while an operation or a mount      *)
(* thread exists: submit clears them before anything starts, and nothing    *)
(* leads back to a form.                                                    *)
THEOREM ShellNoSecretsAtWork == Spec => []NoSecretsAtWork
  <1>1. ShellInv => NoSecretsAtWork
    BY DEF ShellInv, OneThingInv, NoSecretsAtWork
  <1> QED BY ShellInvariance, <1>1, PTL

-------------------------------------------------------------------------------

(***************************************************************************)
(* The inductive invariant of Cli.                                         *)
(***************************************************************************)
Clean == attached = "nothing" /\ ~host /\ ~guard
NotStarted == {"idle", "dead"}

(* A mount takes one thing at a time, and has let go of it when it ends. *)
MountInv ==
  /\ letters \in [Letters -> {"free", "ours", "foreign"}]
  /\ dir \in {"absent", "empty", "nonempty", "reparse"}
  /\ host \in BOOLEAN /\ guard \in BOOLEAN
  /\ mpc \in M!Starting \cup {"idle", "mounted", "unmount", "drop", "ok", "err", "dead"}
  /\ mpc \in M!Starting \cup {"drop"} => attached = "nothing"
  /\ mpc = "drop" => ~host
  /\ mpc \in {"idle", "ok", "err"} => Clean
  /\ \A l \in Letters : letters[l] = "ours" => attached = "letter" /\ mpc # "dead"

(* A command runs its own component only, and the mount only under the      *)
(* Ctrl+C handler.                                                          *)
CommandInv ==
  /\ command \in Commands
  /\ cpc \in {"prompt", "handler", "run"} \cup Ended
  /\ handler \in BOOLEAN
  /\ command # "mount" => mpc \in NotStarted
  /\ command \in {"mount", "operation"} => upc \in NotStarted
  /\ cpc \in {"prompt", "handler"} => ~handler /\ upc = "idle"
  /\ ~handler => mpc \in NotStarted
  /\ mpc = "dead" => cpc \in {"interrupted", "killed"}
  /\ upc = "dead" => cpc \in {"interrupted", "killed"}
  /\ cpc \in {"ok", "err"} => mpc \in {"idle", "ok", "err"}
  /\ cpc = "interrupted" => Clean

Genuine(v, asset) == <<v, U!TARGET, asset>>
Fetching == {"idle", "release", "manifest", "binary"}
Answered == {"uptodate", "pair", "cancelled", "ok", "err"}

(* What has been fetched, and what is on disk. *)
UpdateInv ==
  /\ upc \in Fetching \cup {"ask", "write", "replace", "sync"} \cup Answered \cup {"dead"}
  /\ upc \in Fetching \cup {"ask"} \cup Answered => temp = U!Absent
  /\ cpc \in {"ok", "err"} => temp = U!Absent
  /\ upc \in {"manifest", "binary", "ask", "write", "replace", "sync", "pair"}
       => latest \in U!Versions /\ latest > Current
  /\ upc = "binary" => manifest = U!Signed(latest, U!TARGET)
  /\ upc \in {"ask", "write", "replace", "sync"} => binary = Genuine(latest, "cipherfs")
  /\ upc = "replace" => temp = binary
  /\ upc = "pair" => /\ binary = Genuine(latest, "cipherfs")
                     /\ second = Genuine(latest, "shell")
  /\ \/ exe = Genuine(Current, "cipherfs")
     \/ /\ exe = Genuine(latest, "cipherfs") /\ latest \in U!Versions
        /\ latest > Current /\ upc \in {"sync", "ok", "err", "dead"}

CliInv == MountInv /\ CommandInv /\ UpdateInv

USE DEF Clean, NotStarted, Fetching, Answered, Ended, Commands

(* A command starts with nothing mounted and nothing downloaded.            *)
LEMMA CliInvInit == CliInit => CliInv
  <1> SUFFICES ASSUME CliInit PROVE CliInv
    OBVIOUS
  <1> USE DEF CliInit, M!Init, U!Init
  <1>1. MountInv
    BY DEF MountInv
  <1>2. CommandInv
    BY DEF CommandInv
  <1>3. UpdateInv
    BY DEF UpdateInv, Genuine
  <1> QED BY <1>1, <1>2, <1>3 DEF CliInv

(* A step of the mount keeps what is known of it. *)
LEMMA MountInvStep ==
  ASSUME MountInv, M!Step
  PROVE  MountInv' /\ mpc \notin NotStarted /\ mpc' \notin NotStarted
  <1> USE DEF MountInv, M!Starting
  <1>1. CASE M!OpenVolume
    BY <1>1 DEF M!OpenVolume, M!AfterOpen
  <1>2. CASE M!StartHost
    BY <1>2 DEF M!StartHost, M!AfterHost
  <1>3. CASE M!PrepareCreate
    BY <1>3 DEF M!PrepareCreate
  <1>4. CASE M!PrepareCheck
    BY <1>4 DEF M!PrepareCheck
  <1>5. CASE M!PrepareRemove
    BY <1>5 DEF M!PrepareRemove, M!Removable
  <1>6. CASE M!HostMount
    BY <1>6 DEF M!HostMount, M!Take, M!Free
  <1>7. CASE M!FuseDirectory
    BY <1>7 DEF M!FuseDirectory
  <1>8. CASE M!FuseMount
    BY <1>8 DEF M!FuseMount
  <1>9. CASE M!StartFails
    BY <1>9 DEF M!StartFails, M!Restored
  <1>10. CASE M!Unmount
    BY <1>10 DEF M!Unmount, M!Detached
  <1>11. CASE M!DropGuard
    BY <1>11 DEF M!DropGuard, M!Restored
  <1> QED
    BY <1>1, <1>2, <1>3, <1>4, <1>5, <1>6, <1>7, <1>8, <1>9, <1>10, <1>11 DEF M!Step

(* A manifest that passes both checks is the one the release process signed *)
(* for this version and target.                                             *)
LEMMA ManifestGenuine ==
  ASSUME NEW m \in U!Manifests, NEW s \in U!Signatures, U!Verified(m, s), U!Valid(m)
  PROVE  latest \in U!Versions /\ latest > Current /\ m = U!Signed(latest, U!TARGET)
  <1>1. m \in U!Published
    BY DEF U!Verified, U!Signatures, U!TrustedKeys
  <1>2. PICK v \in U!Versions, t \in U!Targets : m = U!Signed(v, t)
    BY <1>1 DEF U!Published
  <1>3. m.version = v /\ m.target = t
    BY <1>2 DEF U!Signed
  <1> QED BY <1>2, <1>3 DEF U!Valid

(* A step of the updater keeps what is known of it. *)
LEMMA UpdateInvStep ==
  ASSUME UpdateInv, UpdateStep
  PROVE  UpdateInv'
  <1> USE BoundsAssumption DEF UpdateInv, Genuine, U!dataVars, U!diskVars, commandVars
  <1> cpc' = "run"
    BY DEF UpdateStep
  <1>1. ASSUME NEW v \in U!Versions, U!FetchRelease(v) PROVE UpdateInv'
    BY <1>1 DEF U!FetchRelease, U!Versions
  <1>2. ASSUME NEW m \in U!Manifests, NEW s \in U!Signatures, U!FetchManifest(m, s)
        PROVE  UpdateInv'
    BY <1>2, ManifestGenuine DEF U!FetchManifest
  <1>3. ASSUME NEW b \in U!Binaries, U!FetchBinary(b) PROVE UpdateInv'
    BY <1>3 DEF U!FetchBinary, U!Matches, U!Signed
  <1>4. ASSUME NEW b \in U!Binaries, NEW c \in U!Binaries, U!FetchPair(b, c)
        PROVE  UpdateInv'
    BY <1>4 DEF U!FetchPair, U!Matches, U!Signed
  <1>5. CASE U!CreateTemp
    BY <1>5 DEF U!CreateTemp
  <1>6. CASE U!WriteTemp
    BY <1>6 DEF U!WriteTemp
  <1>7. CASE U!SelfReplace
    BY <1>7 DEF U!SelfReplace
  <1>8. CASE U!SyncParent
    BY <1>8 DEF U!SyncParent
  <1>9. CASE U!Fails
    BY <1>9 DEF U!Fails, U!AfterFailure
  <1> QED
    BY <1>1, <1>2, <1>3, <1>4, <1>5, <1>6, <1>7, <1>8, <1>9 DEF UpdateStep

(* What a step of the updater may do to its place. *)
LEMMA UpdatePlace ==
  ASSUME UpdateStep, UpdateInv
  PROVE  upc' # "dead" /\ upc \notin NotStarted /\ upc' # "idle"
  BY DEF UpdateStep, U!FetchRelease, U!FetchManifest, U!FetchBinary, U!FetchPair,
      U!CreateTemp, U!WriteTemp, U!SelfReplace, U!SyncParent, U!Fails

(* Every step keeps the invariant. *)
LEMMA CliInvStep ==
  ASSUME CliInv, [CliNext]_cliVars
  PROVE  CliInv'
  <1> USE DEF CliInv, commandVars, mountVars, updateVars
  <1>1. CASE Prompt
    BY <1>1 DEF Prompt, MountInv, CommandInv, UpdateInv
  <1>2. CASE InstallHandler
    BY <1>2 DEF InstallHandler, MountInv, CommandInv, UpdateInv, M!Starting
  <1>3. CASE Operation
    BY <1>3 DEF Operation, MountInv, CommandInv, UpdateInv
  <1>4. CASE MountStep
    <2>1. MountInv' /\ mpc \notin NotStarted /\ mpc' \notin NotStarted
      BY <1>4, MountInvStep DEF MountStep
    <2> QED BY <1>4, <2>1 DEF MountStep, CommandInv, UpdateInv
  <1>5. CASE WaitForUnmount
    BY <1>5 DEF WaitForUnmount, MountInv, CommandInv, UpdateInv, M!Starting
  <1>6. CASE MountEnds
    BY <1>6 DEF MountEnds, MountInv, CommandInv, UpdateInv
  <1>7. CASE UpdateBegins
    BY <1>7 DEF UpdateBegins, MountInv, CommandInv, UpdateInv
  <1>8. CASE UpdateStep
    <2>1. UpdateInv'
      BY <1>8, UpdateInvStep
    <2>2. CommandInv'
      BY <1>8, UpdatePlace DEF UpdateStep, CommandInv
    <2>3. MountInv'
      BY <1>8 DEF UpdateStep, MountInv
    <2> QED BY <2>1, <2>2, <2>3
  <1>9. CASE UpdateEnds
    BY <1>9 DEF UpdateEnds, MountInv, CommandInv, UpdateInv
  <1>10. CASE OnCtrlC
    BY <1>10 DEF OnCtrlC, MountInv, CommandInv, UpdateInv
  <1>11. CASE Die
    <2>1. MountInv'
      BY <1>11 DEF Die, M!Killed, M!Detached, MountInv, M!Starting
    <2>2. CommandInv'
      BY <1>11 DEF Die, M!Killed, U!Killed, MountInv, CommandInv
    <2>3. UpdateInv'
      BY <1>11 DEF Die, U!Killed, U!dataVars, U!diskVars, UpdateInv
    <2> QED BY <2>1, <2>2, <2>3
  <1>12. CASE OthersAct
    BY <1>12 DEF OthersAct, M!Foreign, MountInv, CommandInv, UpdateInv
  <1>13. CASE UNCHANGED cliVars
    BY <1>13 DEF cliVars, MountInv, CommandInv, UpdateInv
  <1> QED
    BY <1>1, <1>2, <1>3, <1>4, <1>5, <1>6, <1>7, <1>8, <1>9, <1>10, <1>11, <1>12,
       <1>13 DEF CliNext, Progress, Done

(***************************************************************************)
(* The results.                                                            *)
(***************************************************************************)

(* Every reachable state of a command satisfies the inductive invariant.    *)
THEOREM CliInvariance == CliSpec => []CliInv
  BY CliInvInit, CliInvStep, PTL DEF CliSpec

(* However a command ends short of a kill, the session has detached, the    *)
(* letter is given back, the dispatcher stopped and TempUpdate removed.     *)
THEOREM CliLeavesNothing == CliSpec => []LeavesNothing
  <1>1. CliInv => LeavesNothing
    BY DEF CliInv, MountInv, CommandInv, UpdateInv, LeavesNothing
  <1> QED BY CliInvariance, <1>1, PTL

(* Whatever the server answers to each request, update_interactive installs *)
(* only this target's signed executable of the latest, newer release, and   *)
(* download_windows_integration returns a matching pair.                    *)
THEOREM CliInstalledIsGenuine == CliSpec => []InstalledIsGenuine
  <1>1. CliInv => InstalledIsGenuine
    BY BoundsAssumption DEF CliInv, UpdateInv, Genuine, InstalledIsGenuine, U!Versions
  <1> QED BY CliInvariance, <1>1, PTL

(* Letters held by others, and directories that are not ours to remove. *)
ForeignStays ==
  /\ \A l \in Letters : letters[l] = "foreign" => letters'[l] = "foreign"
  /\ dir = "nonempty" => dir' = dir

(* A reparse point that no remove_dir is waiting for. *)
ReparseStays == dir = "reparse" /\ mpc # "remove"

(* Every step leaves the first alone, and the second wherever it is found.  *)
LEMMA ForeignStaysStep ==
  ASSUME CliInv, [CliNext]_cliVars
  PROVE  ForeignStays /\ (ReparseStays => ReparseStays')
  <1> USE DEF CliInv, MountInv, ForeignStays, ReparseStays
  <1>1. CASE M!HostMount
    <2>1. ASSUME NEW k, M!Free(k), M!Take(k), NEW l \in Letters, letters[l] = "foreign"
          PROVE  letters'[l] = "foreign"
      BY <2>1 DEF M!Take, M!Free
    <2>2. dir' = dir /\ mpc' # "remove"
      BY <1>1 DEF M!HostMount, M!Take
    <2>3. ForeignStays
      BY <1>1, <2>1 DEF M!HostMount
    <2> QED BY <2>2, <2>3
  <1>2. CASE M!Step /\ ~M!HostMount
    BY <1>2 DEF M!Step, M!OpenVolume, M!StartHost, M!PrepareCreate,
        M!PrepareCheck, M!PrepareRemove, M!Removable, M!FuseDirectory, M!FuseMount,
        M!StartFails, M!Restored, M!Unmount, M!Detached, M!DropGuard, M!AfterOpen, M!AfterHost
  <1>3. CASE Die
    BY <1>3 DEF Die, M!Killed, M!Detached
  <1>4. CASE OthersAct
    <2>1. ASSUME NEW k \in Letters, letters[k] = "free",
                 letters' = [letters EXCEPT ![k] = "foreign"], NEW l \in Letters,
                 letters[l] = "foreign"
          PROVE  letters'[l] = "foreign"
      BY <2>1
    <2> QED BY <1>4, <2>1 DEF OthersAct, M!Foreign
  <1>5. CASE UNCHANGED mountVars
    BY <1>5 DEF mountVars
  <1>6. CASE InstallHandler \/ WaitForUnmount
    BY <1>6 DEF InstallHandler, WaitForUnmount
  <1> QED
    BY <1>1, <1>2, <1>3, <1>4, <1>5, <1>6 DEF CliNext, Progress, Done, cliVars, Prompt,
        Operation, MountStep, MountEnds, UpdateBegins, UpdateStep, UpdateEnds, OnCtrlC

(* No step of a mount takes another program's letter or removes a directory *)
(* that is not empty, although auto_drive_candidates and prepare look       *)
(* earlier than they act; and a reparse point is never removed unless it    *)
(* was put there after prepare had looked and before remove_dir.            *)
THEOREM CliForeignKept == CliSpec => ForeignKept
  <1>1. CliInv /\ [CliNext]_cliVars => [ForeignStays]_cliVars
    BY ForeignStaysStep
  <1>2. CliInv /\ ReparseStays /\ [CliNext]_cliVars => ReparseStays'
    BY ForeignStaysStep
  <1>3. ReparseStays <=> (dir = "reparse" /\ mpc # "remove")
    BY DEF ReparseStays
  <1>4. ReparseStays => dir = "reparse"
    BY DEF ReparseStays
  <1> QED
    BY CliInvariance, <1>1, <1>2, <1>3, <1>4, PTL DEF CliSpec, ForeignKept, ForeignStays

(* A directory that was there is there, or its guard will put it back. *)
DirectorySafe == dir # "absent" \/ guard = TRUE \/ cpc = "killed"

(* Only a kill separates the directory from its guard. *)
LEMMA DirectorySafeStep ==
  ASSUME CliInv, DirectorySafe, [CliNext]_cliVars
  PROVE  DirectorySafe'
  <1> USE DEF CliInv, MountInv, DirectorySafe
  <1>1. CASE MountStep
    BY <1>1 DEF MountStep, commandVars, M!Step, M!OpenVolume, M!StartHost, M!PrepareCreate,
        M!PrepareCheck, M!PrepareRemove, M!HostMount, M!FuseDirectory, M!FuseMount,
        M!StartFails, M!Restored, M!Unmount, M!DropGuard
  <1>2. CASE Die
    BY <1>2 DEF Die, M!Killed, CommandInv
  <1>3. CASE OthersAct
    BY <1>3 DEF OthersAct, M!Foreign, commandVars
  <1>4. CASE (cpc = "killed" => cpc' = "killed") /\ UNCHANGED <<dir, guard>>
    BY <1>4
  <1> QED
    BY <1>1, <1>2, <1>3, <1>4 DEF CliNext, Progress, Done, cliVars, commandVars, mountVars,
        Prompt, InstallHandler, WaitForUnmount, Operation, MountEnds, UpdateBegins,
        UpdateStep, UpdateEnds, OnCtrlC

(* A mount directory that existed exists after the command, although        *)
(* prepare removes it: PreparedDirectoryMountpoint puts it back.            *)
THEOREM CliDirectoryKept == CliSpec => DirectoryKept
  <1>1. dir # "absent" => DirectorySafe
    BY DEF DirectorySafe
  <1>2. CliInv /\ DirectorySafe => (cpc \in {"ok", "err", "interrupted"} => dir # "absent")
    BY DEF CliInv, MountInv, CommandInv, DirectorySafe
  <1> QED
    BY CliInvariance, DirectorySafeStep, <1>1, <1>2, PTL DEF CliSpec, DirectoryKept
===============================================================================
