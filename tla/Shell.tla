-------------------------------- MODULE Shell --------------------------------
(***************************************************************************)
(* The Windows shell's window (app.rs, controller.rs) and the mount it     *)
(* owns (mount_controller.rs, the Mount branch of worker.rs).              *)
(*                                                                         *)
(* The UI thread runs one handler at a time.  Mounting and unmounting run  *)
(* on threads of their own (opener, closer) that talk to a mount worker    *)
(* over two pipes and post events back to the UI thread; the closer also   *)
(* stands for MountWorker::drop, wherever it runs.  The overlay does not   *)
(* catch clicks, so the buttons under it stay usable.  An operation is     *)
(* what module Worker models in full: here it starts, may become protected *)
(* and ends.  A dead mount worker holds no drive: WinFsp removes the mount *)
(* point with the process.                                                 *)
(***************************************************************************)
EXTENDS Naturals, Sequences

CONSTANT Routes    \* what the command line may ask for

ASSUME ShellAssumption == Routes \subseteq {"help", "container", "pack"}

VARIABLES
  route, page, overlay, cancelEnabled,
  winfspLink,  \* the error page offers the WinFsp download
  secrets,     \* a password is in the window's fields
  ctl,         \* RuntimeState.controller
  operation, opProtected, cancelling,   \* RuntimeState.operation and its flags
  mount,       \* RuntimeState.mount is Some
  opener,      \* the thread of start_mount
  closer,      \* the thread of confirm_overlay, or MountWorker::drop
  app,         \* the shell process
  uiQueue,     \* events posted to the UI thread
  wpc, cmd,    \* the mount worker; its command channel holds Unmount
  drive,       \* the drive is attached
  toShell, toWorker, inputOpen, killed

windowVars == <<route, page, overlay, cancelEnabled, winfspLink, secrets>>
opVars == <<operation, opProtected, cancelling>>
threadVars == <<mount, opener, closer, app>>
workerVars == <<wpc, cmd, drive>>
pipeVars == <<toShell, toWorker, inputOpen, killed>>
vars == <<windowVars, ctl, opVars, threadVars, uiQueue, workerVars, pipeVars>>

Forms == {"form_mount", "form_extract", "form_verify", "form_passwd", "form_pack"}
Pages == {"HELP", "ACTIONS", "FORM", "PROGRESS", "MOUNTED", "RESULT", "ERROR"}
Gone == wpc \in {"none", "exited", "dead"}

(* AppState::new and show_route agree on the page of a route. *)
PageOf(r) == CASE r = "help" -> "HELP" [] r = "container" -> "ACTIONS" [] OTHER -> "FORM"

NewState(r) == [page |-> PageOf(r), force_close_overlay |-> FALSE,
                cancel_requested |-> FALSE, protected |-> FALSE]

(* AppState::transition, without the error record. *)
transition(action) ==
  CASE action = "OperationStarted" ->
         [ctl EXCEPT !.page = "PROGRESS", !.cancel_requested = FALSE, !.protected = FALSE]
    [] action = "OperationProtected" -> [ctl EXCEPT !.protected = TRUE]
    [] action = "CancelPressed" /\ ~ctl.protected ->
         [ctl EXCEPT !.force_close_overlay = @ \/ ctl.cancel_requested, !.cancel_requested = TRUE]
    [] action = "Mounted" -> [ctl EXCEPT !.page = "MOUNTED"]
    [] action \in {"OperationFinished", "Unmounted"} -> [ctl EXCEPT !.page = "RESULT"]
    [] action = "Failed" -> [ctl EXCEPT !.page = "ERROR"]
    [] OTHER -> ctl

Init ==
  /\ route \in Routes
  /\ page = PageOf(route)
  /\ overlay = "none" /\ cancelEnabled = TRUE /\ winfspLink = FALSE /\ secrets = FALSE
  /\ ctl = NewState(route)
  /\ operation = FALSE /\ opProtected = FALSE /\ cancelling = FALSE
  /\ mount = FALSE /\ opener = "none" /\ closer = "none" /\ app = "running"
  /\ uiQueue = <<>>
  /\ wpc = "none" /\ cmd = FALSE /\ drive = FALSE
  /\ toShell = <<>> /\ toWorker = <<>> /\ inputOpen = TRUE /\ killed = FALSE
----------------------------------------------------------------------------
(* The window: navigation.                                                 *)

UserActs == app = "running"
navFrame == <<opVars, threadVars, uiQueue, workerVars, pipeVars>>

show_error == page' = "ERROR" /\ winfspLink' \in BOOLEAN
clear_secrets == secrets' = FALSE

show_route(r) == /\ clear_secrets
                 /\ route' = r /\ page' = PageOf(r)
                 /\ UNCHANGED <<overlay, cancelEnabled, winfspLink>>

set_form(r) == show_route(r) /\ ctl' = NewState(r)

(* The buttons of the actions page; Extract asks for a destination first.   *)
ChooseAction ==
  /\ UserActs /\ page = "ACTIONS" /\ route = "container"
  /\ \/ \E f \in Forms \ {"form_pack"} : set_form(f)
     \/ /\ show_error
        /\ ctl' = transition("Failed")
        /\ UNCHANGED <<route, overlay, cancelEnabled, secrets>>
  /\ UNCHANGED navFrame

TypePassword ==
  /\ UserActs /\ page = "FORM" /\ ~secrets
  /\ secrets' = TRUE
  /\ UNCHANGED <<route, page, overlay, cancelEnabled, winfspLink, ctl, navFrame>>

(* choose_path: the pack form again with the chosen output, or an error.    *)
BrowseOutput ==
  /\ UserActs /\ page = "FORM" /\ route \in {"pack", "form_pack"}
  /\ \/ set_form("form_pack")
     \/ show_error /\ UNCHANGED <<route, overlay, cancelEnabled, secrets, ctl>>
  /\ UNCHANGED navFrame

(* The form's Back button; the controller is not told. *)
Back ==
  /\ UserActs /\ page = "FORM"
  /\ show_route(IF route \in {"pack", "form_pack"} THEN "pack" ELSE "container")
  /\ UNCHANGED <<ctl, navFrame>>

(* A form whose fields are refused, or whose worker does not start; submit  *)
(* has cleared the fields before any check.                                 *)
SubmitRefused ==
  /\ UserActs
  /\ \/ page = "FORM"
     \/ page = "MOUNTED" /\ ~mount
  /\ clear_secrets /\ show_error
  /\ ctl' \in {ctl, transition("OperationStarted")}
  /\ UNCHANGED <<route, overlay, cancelEnabled, navFrame>>

(* The fields stay filled while the operation runs. *)
MutSubmit ==
  /\ UserActs /\ page = "FORM" /\ route # "form_mount" /\ secrets
  /\ ctl' = transition("OperationStarted")
  /\ page' = "PROGRESS" /\ cancelEnabled' = TRUE
  /\ operation' = TRUE /\ opProtected' = FALSE /\ cancelling' = FALSE
  /\ UNCHANGED <<secrets, route, overlay, winfspLink, threadVars, uiQueue, workerVars, pipeVars>>

(* submit, for the operations: start_operation.  Its events are posted to   *)
(* the thread that is running this handler, so none overtakes it.           *)
Submit ==
  /\ UserActs /\ page = "FORM" /\ route # "form_mount" /\ secrets
  /\ clear_secrets
  /\ ctl' = transition("OperationStarted")
  /\ page' = "PROGRESS" /\ cancelEnabled' = TRUE
  /\ operation' = TRUE /\ opProtected' = FALSE /\ cancelling' = FALSE
  /\ UNCHANGED <<route, overlay, winfspLink, threadVars, uiQueue, workerVars, pipeVars>>

(* submit, for a mount: start_mount starts the opener. *)
SubmitMount ==
  /\ UserActs /\ page = "FORM" /\ route = "form_mount" /\ secrets /\ opener = "none"
  /\ clear_secrets
  /\ page' = "PROGRESS" /\ cancelEnabled' = FALSE
  /\ opener' = "spawn"
  /\ UNCHANGED <<route, overlay, winfspLink, ctl, opVars, mount, closer, app, uiQueue,
                 workerVars, pipeVars>>

(* Close on the help, result and error pages leaves the event loop,         *)
(* whatever is mounted or running.                                          *)
PressQuit ==
  /\ UserActs
  /\ \/ page \in {"HELP", "RESULT"}
     \/ page = "ERROR" /\ ~winfspLink
  /\ app' = "leaving"
  /\ UNCHANGED <<windowVars, ctl, opVars, mount, opener, closer, uiQueue, workerVars, pipeVars>>

(* Open in Explorer, or the download link, cannot be opened. *)
LaunchFails ==
  /\ UserActs
  /\ \/ page = "MOUNTED" /\ mount
     \/ page = "ERROR" /\ winfspLink
  /\ show_error
  /\ UNCHANGED <<route, overlay, cancelEnabled, secrets, ctl, navFrame>>
----------------------------------------------------------------------------
(* The window: operations, mounts and closing.                             *)

(* The Cancel button (cancel, request_cancel). *)
PressCancel ==
  /\ UserActs /\ page = "PROGRESS" /\ cancelEnabled
  /\ ctl' = transition("CancelPressed")
  /\ \/ /\ operation /\ ~opProtected /\ ~cancelling
        /\ cancelling' = TRUE
        /\ \/ UNCHANGED <<page, winfspLink>>
           \/ show_error
        /\ UNCHANGED overlay
     \/ /\ operation /\ ~opProtected /\ cancelling
        /\ overlay' = "force"
        /\ UNCHANGED <<cancelling, page, winfspLink>>
     \/ /\ ~operation \/ opProtected
        /\ UNCHANGED <<overlay, cancelling, page, winfspLink>>
  /\ UNCHANGED <<route, cancelEnabled, secrets, operation, opProtected, threadVars, uiQueue,
                 workerVars, pipeVars>>

(* The Unmount button of the mounted page. *)
PressUnmount ==
  /\ UserActs /\ page = "MOUNTED"
  /\ overlay' = "unmount"
  /\ UNCHANGED <<route, page, cancelEnabled, winfspLink, secrets, ctl, navFrame>>

(* The close handler: a mount or an operation is asked about, otherwise the *)
(* window is hidden, which ends the event loop.                             *)
PressClose ==
  /\ UserActs
  /\ overlay' = IF mount THEN "unmount"
                ELSE IF operation THEN (IF opProtected THEN "keep" ELSE "cancel")
                ELSE overlay
  /\ app' = IF mount \/ operation THEN app ELSE "leaving"
  /\ UNCHANGED <<route, page, cancelEnabled, winfspLink, secrets, ctl, opVars, mount, opener,
                 closer, uiQueue, workerVars, pipeVars>>

(* confirm_overlay: an operation is cancelled or force-closed (module       *)
(* Worker); otherwise a mount is taken and the closer started.              *)
ConfirmOverlay ==
  /\ UserActs /\ overlay # "none"
  /\ overlay' = "none"
  /\ \/ /\ operation
        /\ cancelling' = (cancelling \/ (overlay # "force" /\ ~opProtected))
        /\ UNCHANGED <<page, cancelEnabled, mount, closer>>
     \/ /\ ~operation /\ mount
        /\ mount' = FALSE
        /\ page' = "PROGRESS" /\ cancelEnabled' = FALSE
        /\ closer' = "write"
        /\ UNCHANGED cancelling
     \/ /\ ~operation /\ ~mount
        /\ UNCHANGED <<page, cancelEnabled, mount, closer, cancelling>>
  /\ UNCHANGED <<route, winfspLink, secrets, ctl, operation, opProtected, opener, app, uiQueue,
                 workerVars, pipeVars>>

DismissOverlay ==
  /\ UserActs /\ overlay # "none"
  /\ overlay' = "none"
  /\ UNCHANGED <<route, page, cancelEnabled, winfspLink, secrets, ctl, navFrame>>

(* An event posted by one of the threads is handled. *)
UiEvent ==
  /\ UserActs /\ uiQueue # <<>>
  /\ uiQueue' = Tail(uiQueue)
  /\ LET e == Head(uiQueue)
     IN  /\ \/ e = "protected" /\ UNCHANGED <<page, winfspLink>>
            \/ e = "mounted" /\ page' = "MOUNTED" /\ UNCHANGED winfspLink
            \/ e \in {"finished", "unmounted"} /\ page' = "RESULT" /\ UNCHANGED winfspLink
            \/ e \in {"op_failed", "failed"} /\ show_error
         /\ operation' = (operation /\ e \notin {"finished", "op_failed"})
         /\ cancelEnabled' = (cancelEnabled /\ e # "protected")
         /\ ctl' = CASE e = "protected" -> transition("OperationProtected")
                     [] e = "finished" -> transition("OperationFinished")
                     [] e = "op_failed" -> transition("Failed")
                     [] OTHER -> ctl
  /\ UNCHANGED <<route, overlay, secrets, opProtected, cancelling, threadVars, workerVars, pipeVars>>

(* run_events of an operation: protected, then finished or failed. *)
OperationProtects ==
  /\ app # "exited" /\ operation /\ ~opProtected
  /\ ~\E i \in 1..Len(uiQueue) : uiQueue[i] \in {"finished", "op_failed"}
  /\ opProtected' = TRUE
  /\ uiQueue' = Append(uiQueue, "protected")
  /\ UNCHANGED <<windowVars, ctl, operation, cancelling, threadVars, workerVars, pipeVars>>

OperationEnds ==
  /\ app # "exited" /\ operation
  /\ ~\E i \in 1..Len(uiQueue) : uiQueue[i] \in {"finished", "op_failed"}
  /\ \E e \in {"finished", "op_failed"} : uiQueue' = Append(uiQueue, e)
  /\ UNCHANGED <<windowVars, ctl, opVars, threadVars, workerVars, pipeVars>>
----------------------------------------------------------------------------
(* The opener: MountWorker::start and what start_mount does with it.       *)

openerFrame == <<windowVars, opVars, closer, app, cmd, drive, toWorker, killed>>

(* spawn_worker. *)
Spawn ==
  /\ app # "exited" /\ opener = "spawn"
  /\ \/ opener' = "read" /\ wpc' = "start" /\ UNCHANGED <<ctl, uiQueue>>
     \/ /\ opener' = "over" /\ UNCHANGED wpc
        /\ ctl' = transition("Failed") /\ uiQueue' = Append(uiQueue, "failed")
  /\ UNCHANGED <<mount, toShell, inputOpen, openerFrame>>

(* The end of the pipe is not taken for an answer. *)
MutReadMounted ==
  /\ app # "exited" /\ opener = "read" /\ toShell # <<>>
  /\ toShell' = Tail(toShell)
  /\ \/ /\ Head(toShell) = "mounted"
        /\ opener' = "store" /\ ctl' = transition("Mounted")
        /\ UNCHANGED <<uiQueue, inputOpen>>
     \/ /\ Head(toShell) # "mounted"
        /\ opener' = "over" /\ inputOpen' = FALSE
        /\ ctl' = transition("Failed") /\ uiQueue' = Append(uiQueue, "failed")
  /\ UNCHANGED <<mount, wpc, openerFrame>>

(* Mounted; a reported failure, after which the child is waited for; or a   *)
(* torn frame or the end of the pipe, which give the child up and close its *)
(* input.                                                                   *)
ReadMounted ==
  /\ app # "exited" /\ opener = "read"
  /\ \/ /\ toShell # <<>> /\ Head(toShell) = "mounted"
        /\ opener' = "store" /\ toShell' = Tail(toShell)
        /\ ctl' = transition("Mounted")
        /\ UNCHANGED <<uiQueue, inputOpen>>
     \/ /\ \/ toShell # <<>> /\ Head(toShell) = "failed" /\ Gone
           \/ toShell # <<>> /\ Head(toShell) = "torn"
           \/ toShell = <<>> /\ Gone
        /\ opener' = "over" /\ toShell' = <<>> /\ inputOpen' = FALSE
        /\ ctl' = transition("Failed") /\ uiQueue' = Append(uiQueue, "failed")
  /\ UNCHANGED <<mount, wpc, openerFrame>>

StoreMount ==
  /\ app # "exited" /\ opener = "store"
  /\ mount' = TRUE
  /\ opener' = "explorer"
  /\ UNCHANGED <<ctl, uiQueue, wpc, toShell, inputOpen, openerFrame>>

(* open_explorer returns, and only then the page is changed. *)
PostMounted ==
  /\ app # "exited" /\ opener = "explorer"
  /\ uiQueue' = Append(uiQueue, "mounted")
  /\ opener' = "over"
  /\ UNCHANGED <<mount, ctl, wpc, toShell, inputOpen, openerFrame>>

OpenerStep == Spawn \/ ReadMounted \/ StoreMount \/ PostMounted
----------------------------------------------------------------------------
(* The closer: MountWorker::unmount, and its drop.                         *)

closerFrame == <<windowVars, opVars, mount, opener, workerVars>>

(* The thread reports to the UI; main, dropping the state, ends the process. *)
CloserEnds(failed) ==
  /\ closer' = "over"
  /\ \/ /\ app \in {"running", "leaving"}
        /\ ctl' = transition(IF failed THEN "Failed" ELSE "Unmounted")
        /\ uiQueue' = Append(uiQueue, IF failed THEN "failed" ELSE "unmounted")
        /\ UNCHANGED <<app, inputOpen>>
     \/ /\ app = "dropping"
        /\ app' = "exited" /\ inputOpen' = FALSE
        /\ UNCHANGED <<ctl, uiQueue>>

WriteUnmount ==
  /\ app # "exited" /\ closer \in {"write", "drop"}
  /\ toWorker' = IF Gone THEN toWorker ELSE Append(toWorker, "unmount")
  /\ closer' = CASE closer = "drop" -> "poll" [] closer = "write" /\ Gone -> "drop" [] OTHER -> "read"
  /\ UNCHANGED <<ctl, uiQueue, app, toShell, inputOpen, killed, closerFrame>>

(* unmount returns as soon as the command is written. *)
MutReadSucceeded ==
  /\ app # "exited" /\ closer = "read"
  /\ CloserEnds(FALSE)
  /\ UNCHANGED <<toShell, toWorker, killed, closerFrame>>

(* Frames are read until Succeeded; a failure, a torn frame or the end of   *)
(* the pipe is an error, and the value is dropped while still active.       *)
ReadSucceeded ==
  /\ app # "exited" /\ closer = "read"
  /\ \/ toShell # <<>> /\ Head(toShell) = "succeeded" /\ closer' = "wait" /\ toShell' = Tail(toShell)
     \/ toShell # <<>> /\ Head(toShell) = "torn" /\ closer' = "drop" /\ toShell' = Tail(toShell)
     \/ toShell = <<>> /\ Gone /\ closer' = "drop" /\ UNCHANGED toShell
  /\ UNCHANGED <<ctl, uiQueue, app, toWorker, inputOpen, killed, closerFrame>>

WaitExit ==
  /\ app # "exited" /\ closer = "wait" /\ Gone
  /\ CloserEnds(wpc = "dead")
  /\ UNCHANGED <<toShell, toWorker, killed, closerFrame>>

(* try_wait for a second, then kill and wait. *)
PollExit ==
  /\ app # "exited" /\ closer = "poll"
  /\ \/ Gone /\ CloserEnds(TRUE) /\ UNCHANGED killed
     \/ ~Gone /\ killed' = TRUE /\ closer' = "reap" /\ UNCHANGED <<ctl, uiQueue, app, inputOpen>>
  /\ UNCHANGED <<toShell, toWorker, closerFrame>>

Reap ==
  /\ app # "exited" /\ closer = "reap" /\ Gone
  /\ CloserEnds(TRUE)
  /\ UNCHANGED <<toShell, toWorker, killed, closerFrame>>

CloserStep == WriteUnmount \/ ReadSucceeded \/ WaitExit \/ PollExit \/ Reap

(* The event loop has ended.  If no thread shares the RuntimeState it is    *)
(* dropped, and an active mount with it; otherwise main just returns.       *)
LeaveMain ==
  /\ app = "leaving"
  /\ \/ /\ mount /\ opener = "over"
        /\ app' = "dropping" /\ mount' = FALSE /\ closer' = "drop"
        /\ UNCHANGED inputOpen
     \/ /\ ~mount \/ opener # "over"
        /\ app' = "exited" /\ inputOpen' = FALSE
        /\ UNCHANGED <<mount, closer>>
  /\ UNCHANGED <<windowVars, ctl, opVars, opener, uiQueue, workerVars, toShell, toWorker, killed>>

(* The process is ended from outside. *)
ShellDies ==
  /\ app # "exited"
  /\ app' = "exited" /\ inputOpen' = FALSE
  /\ UNCHANGED <<windowVars, ctl, opVars, mount, opener, closer, uiQueue, workerVars, toShell,
                 toWorker, killed>>
----------------------------------------------------------------------------
(* The mount worker.                                                       *)

shellFrame == <<windowVars, ctl, opVars, threadVars, uiQueue, inputOpen>>

Send(e) == toShell' = IF app = "exited" THEN toShell ELSE Append(toShell, e)

(* WinFspMountSession::start. *)
StartSession ==
  /\ wpc = "start"
  /\ \/ wpc' = "mounted" /\ drive' = TRUE
     \/ wpc' = "failed" /\ UNCHANGED drive
  /\ UNCHANGED <<cmd, toShell, toWorker, killed, shellFrame>>

ReportMounted ==
  /\ wpc = "mounted"
  /\ Send("mounted")
  /\ wpc' = "serving"
  /\ UNCHANGED <<cmd, drive, toWorker, killed, shellFrame>>

ReceiveUnmount ==
  /\ wpc = "serving" /\ cmd
  /\ wpc' = "done" /\ drive' = FALSE
  /\ UNCHANGED <<cmd, toShell, toWorker, killed, shellFrame>>

SendTerminal ==
  /\ wpc \in {"done", "failed"}
  /\ Send(IF wpc = "done" THEN "succeeded" ELSE "failed")
  /\ wpc' = "exited"
  /\ UNCHANGED <<cmd, drive, toWorker, killed, shellFrame>>

(* The end of the command pipe only cancels. *)
MutReadCommand ==
  /\ ~Gone /\ toWorker # <<>>
  /\ cmd' = TRUE /\ toWorker' = Tail(toWorker)
  /\ UNCHANGED <<wpc, drive, toShell, killed, shellFrame>>

(* The command reader: Unmount, or the end of the pipe. *)
ReadCommand ==
  /\ ~Gone
  /\ \/ toWorker # <<>> /\ toWorker' = Tail(toWorker)
     \/ toWorker = <<>> /\ ~inputOpen /\ ~cmd /\ UNCHANGED toWorker
  /\ cmd' = TRUE
  /\ UNCHANGED <<wpc, drive, toShell, killed, shellFrame>>

Terminate ==
  /\ killed /\ ~Gone
  /\ wpc' = "dead" /\ drive' = FALSE
  /\ UNCHANGED toShell \/ Send("torn")
  /\ UNCHANGED <<cmd, toWorker, killed, shellFrame>>

WorkerCrashes ==
  /\ ~Gone /\ ~killed
  /\ killed' = TRUE
  /\ UNCHANGED <<workerVars, toShell, toWorker, shellFrame>>

WorkerStep == StartSession \/ ReportMounted \/ ReceiveUnmount \/ SendTerminal

Next ==
  \/ ChooseAction \/ TypePassword \/ BrowseOutput \/ Back \/ SubmitRefused \/ Submit
  \/ SubmitMount \/ PressQuit \/ LaunchFails
  \/ PressCancel \/ PressUnmount \/ PressClose \/ ConfirmOverlay \/ DismissOverlay
  \/ UiEvent \/ OperationProtects \/ OperationEnds
  \/ OpenerStep \/ CloserStep \/ LeaveMain \/ ShellDies
  \/ WorkerStep \/ ReadCommand \/ Terminate \/ WorkerCrashes

Spec == Init /\ [][Next]_vars

(* Every thread takes its steps, and an operation ends (module Worker);     *)
(* the user need not do anything.                                           *)
FairSpec ==
  /\ Spec
  /\ WF_vars(UiEvent) /\ WF_vars(OpenerStep) /\ WF_vars(CloserStep) /\ WF_vars(LeaveMain)
  /\ WF_vars(OperationEnds)
  /\ WF_vars(WorkerStep) /\ WF_vars(ReadCommand) /\ WF_vars(Terminate)
----------------------------------------------------------------------------
(* "Completed" is the truth: on the result page nothing runs, no mount is   *)
(* held and no drive is attached; and whoever unmounted or dropped the      *)
(* mount worker has seen it go, timeout and kill included.                  *)
ResultMeansOver ==
  /\ page = "RESULT" => ~operation /\ ~mount /\ ~drive
  /\ closer = "over" => Gone /\ ~drive

(* "Password fields are cleared immediately" (ARCHITECTURE.md:76): outside  *)
(* the form they are empty, except on the error page of a failed dialog.    *)
NoSecretsAtWork ==
  secrets => page \in {"FORM", "ERROR"} /\ ~operation /\ opener = "none"

(* A shell that is gone, however it went, leaves no drive behind: the       *)
(* worker unmounts on the end of its command pipe.                          *)
DriveReleased == (app = "exited") ~> [](~drive)

(* The progress page is never the last word: each mount, unmount and        *)
(* operation is answered on the window, or the shell is gone.               *)
WindowAnswers == (page = "PROGRESS") ~> (page # "PROGRESS" \/ app = "exited")
=============================================================================
