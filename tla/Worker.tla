------------------------------- MODULE Worker -------------------------------
(***************************************************************************)
(* One operation of the Windows shell in its worker process                *)
(* (operation_controller.rs, worker.rs, and the cancel, close and confirm  *)
(* handlers of app.rs).                                                    *)
(*                                                                         *)
(* Five threads interleave: the worker's operation and its command reader, *)
(* the parent's event reader (run_events) and its UI event loop, and the   *)
(* user.  They talk over two pipes, a queue of UI events and three flags.  *)
(* The operation is reduced to what the protocol sees of it: it may create *)
(* a temporary artifact, crosses CommitStarted or MutationStarted, puts    *)
(* its result in place, and ends.  Phase, progress and warning events      *)
(* change only labels and are left out.  kill() asks for termination; the  *)
(* process may take more steps before it is gone, and its last frame may   *)
(* be torn.                                                                *)
(***************************************************************************)
EXTENDS Naturals, Sequences

CONSTANT Operations    \* kinds of operation to explore

ASSUME WorkerAssumption == Operations \subseteq {"publish", "mutate", "verify"}

VARIABLES
  op,          \* pack or extract, change password, verify
  wpc,         \* where the worker's operation is
  token,       \* its CancellationToken
  artifact,    \* the temporary artifact exists
  published,   \* the result is in place
  outcome,     \* the terminal event to be sent
  readerPc,    \* the worker's command reader thread
  toParent, toWorker,  \* the pipes
  inputOpen,   \* the parent's end of the command pipe
  killed,      \* kill() was called
  shellAlive,  \* the parent process runs
  rpc,         \* where run_events is
  committed, result,
  protected, cancelling,  \* the flags of OperationHandle
  uiQueue,     \* events posted to the UI event loop
  sending,     \* the UI thread is inside request_cancel, past its checks
  running,     \* RuntimeState.operation is Some
  cancelEnabled, overlay

workVars == <<op, wpc, artifact, published, outcome>>
pipeVars == <<toParent, toWorker, inputOpen>>
eventVars == <<rpc, committed, result>>
uiVars == <<sending, running, cancelEnabled, overlay>>
vars == <<workVars, token, readerPc, pipeVars, killed, shellAlive, eventVars,
          protected, cancelling, uiQueue, uiVars>>

Gone == wpc \in {"exited", "dead"}
Zone == {"commit", "committed"}

Init ==
  /\ op \in Operations
  /\ wpc = "start" /\ readerPc = "read" /\ token = FALSE
  /\ artifact = FALSE /\ published = FALSE /\ outcome = "none"
  /\ toParent = <<>> /\ toWorker = <<>> /\ inputOpen = TRUE
  /\ killed = FALSE /\ shellAlive = TRUE
  /\ rpc = "read" /\ committed = FALSE /\ result = "none"
  /\ protected = FALSE /\ cancelling = FALSE
  /\ uiQueue = <<>> /\ sending = FALSE
  /\ running = TRUE /\ cancelEnabled = TRUE /\ overlay = "none"
----------------------------------------------------------------------------
(* The worker.                                                             *)

shellVars == <<inputOpen, shellAlive, eventVars, protected, cancelling, uiQueue, uiVars>>

(* PipeReporter::send; a broken pipe is ignored. *)
Send(event) == toParent' = IF shellAlive THEN Append(toParent, event) ELSE toParent

(* The operation creates its artifact and reports it. *)
CreateArtifact ==
  /\ wpc = "start" /\ op = "publish"
  /\ artifact' = TRUE
  /\ wpc' = "work"
  /\ Send("artifact")
  /\ UNCHANGED <<op, published, outcome, token, readerPc, toWorker, killed, shellVars>>

(* Cancellation is not checked before the commit. *)
MutMayCommit == TRUE

MayCommit == ~token

(* The last cancellation check, then CommitStarted or MutationStarted. *)
EnterZone ==
  /\ \/ wpc = "work" /\ op = "publish"
     \/ wpc = "start" /\ op = "mutate"
  /\ MayCommit
  /\ wpc' = "commit"
  /\ Send("protect")
  /\ UNCHANGED <<op, artifact, published, outcome, token, readerPc, toWorker,
                 killed, shellVars>>

(* The rename or the header writes; only pack and extract report Committed. *)
Publish ==
  /\ wpc = "commit"
  /\ published' = TRUE
  /\ artifact' = FALSE
  /\ wpc' = IF op = "publish" THEN "committed" ELSE "done"
  /\ outcome' = "succeeded"
  /\ UNCHANGED <<op, token, readerPc, toParent, toWorker, killed, shellVars>>

ReportCommitted ==
  /\ wpc = "committed"
  /\ Send("committed")
  /\ wpc' = "done"
  /\ UNCHANGED <<op, artifact, published, outcome, token, readerPc, toWorker,
                 killed, shellVars>>

(* verify has nothing to publish. *)
VerifyDone ==
  /\ wpc = "start" /\ op = "verify" /\ ~token
  /\ wpc' = "done"
  /\ outcome' = "succeeded"
  /\ UNCHANGED <<op, artifact, published, token, readerPc, toParent, toWorker,
                 killed, shellVars>>

(* The operation returns an error after its guards removed the artifact:    *)
(* Cancelled at a check, or any other one.                                  *)
OperationFails ==
  /\ wpc \in {"start", "work", "commit"}
  /\ \/ outcome' = "failed"
     \/ wpc # "commit" /\ token /\ outcome' = "cancelled"
  /\ artifact' = FALSE
  /\ wpc' = "done"
  /\ UNCHANGED <<op, published, token, readerPc, toParent, toWorker, killed, shellVars>>

(* The terminal event, and main returns. *)
SendTerminal ==
  /\ wpc = "done"
  /\ Send(outcome)
  /\ wpc' = "exited"
  /\ UNCHANGED <<op, artifact, published, outcome, token, readerPc, toWorker,
                 killed, shellVars>>

(* The command reader thread: Cancel, or the end of the pipe. *)
ReadCommand ==
  /\ ~Gone /\ readerPc = "read"
  /\ \/ /\ toWorker # <<>>
        /\ toWorker' = Tail(toWorker)
        /\ token' = TRUE
        /\ UNCHANGED readerPc
     \/ /\ toWorker = <<>> /\ ~inputOpen
        /\ token' = TRUE
        /\ readerPc' = "ended"
        /\ UNCHANGED toWorker
  /\ UNCHANGED <<workVars, toParent, killed, shellVars>>

(* The operating system ends a killed worker, perhaps within a frame. *)
Terminate ==
  /\ killed /\ ~Gone
  /\ wpc' = "dead"
  /\ \/ UNCHANGED toParent
     \/ Send("torn")
  /\ UNCHANGED <<op, artifact, published, outcome, token, readerPc, toWorker,
                 killed, shellVars>>

WorkerStep == \/ CreateArtifact \/ EnterZone \/ Publish \/ ReportCommitted
              \/ VerifyDone \/ OperationFails \/ SendTerminal
----------------------------------------------------------------------------
(* run_events, the parent's reader thread.                                 *)

otherVars == <<op, wpc, published, outcome, token, readerPc, toWorker,
               shellAlive, cancelling, uiVars>>

(* The end of the pipe counts as success. *)
MutEofResult == "succeeded"

EofResult == IF committed THEN "succeeded" ELSE "failed"

After(r) == IF r = "succeeded" THEN "close" ELSE "kill"

ReadEvent ==
  /\ shellAlive /\ rpc = "read" /\ toParent # <<>>
  /\ LET event == Head(toParent)
     IN  /\ protected' = (protected \/ event = "protect")
         /\ uiQueue' = IF event = "protect" THEN Append(uiQueue, "protected") ELSE uiQueue
         /\ committed' = (committed \/ event = "committed")
         /\ \/ /\ event \in {"artifact", "protect", "committed"}
               /\ UNCHANGED <<rpc, result>>
            \/ /\ event \in {"succeeded", "cancelled"}
               /\ result' = event
               /\ rpc' = After(event)
            \/ /\ event \in {"failed", "torn"}
               /\ result' = "failed"
               /\ rpc' = "kill"
  /\ toParent' = Tail(toParent)
  /\ UNCHANGED <<artifact, inputOpen, killed, otherVars>>

(* At the end of the pipe run_events goes on reading unless committed. *)
MutReadEof ==
  /\ shellAlive /\ rpc = "read" /\ toParent = <<>> /\ Gone /\ committed
  /\ result' = EofResult
  /\ rpc' = After(EofResult)
  /\ UNCHANGED <<committed, artifact, toParent, inputOpen, killed, protected,
                 uiQueue, otherVars>>

ReadEof ==
  /\ shellAlive /\ rpc = "read" /\ toParent = <<>> /\ Gone
  /\ result' = EofResult
  /\ rpc' = After(EofResult)
  /\ UNCHANGED <<committed, artifact, toParent, inputOpen, killed, protected,
                 uiQueue, otherVars>>

KillChild ==
  /\ shellAlive /\ rpc = "kill"
  /\ killed' = TRUE
  /\ rpc' = "cleanup"
  /\ UNCHANGED <<committed, result, artifact, toParent, inputOpen, protected,
                 uiQueue, otherVars>>

(* The parent leaves the artifact to the worker. *)
MutAfterCleanup == artifact

AfterCleanup == FALSE

(* cleanup_expected, before the child has been waited for. *)
CleanupExpected ==
  /\ shellAlive /\ rpc = "cleanup"
  /\ artifact' = AfterCleanup
  /\ rpc' = "close"
  /\ UNCHANGED <<committed, result, toParent, inputOpen, killed, protected,
                 uiQueue, otherVars>>

CloseInput ==
  /\ shellAlive /\ rpc = "close"
  /\ inputOpen' = FALSE
  /\ rpc' = "wait"
  /\ UNCHANGED <<committed, result, artifact, toParent, killed, protected,
                 uiQueue, otherVars>>

WaitChild ==
  /\ shellAlive /\ rpc = "wait" /\ Gone
  /\ uiQueue' = Append(uiQueue, "finished")
  /\ rpc' = "finished"
  /\ UNCHANGED <<committed, result, artifact, toParent, inputOpen, killed,
                 protected, otherVars>>

EventStep == \/ ReadEvent \/ ReadEof \/ KillChild \/ CleanupExpected
             \/ CloseInput \/ WaitChild
----------------------------------------------------------------------------
(* The UI event loop and the user.                                         *)

uiFrame == <<workVars, token, readerPc, toParent, inputOpen, shellAlive,
             eventVars, protected>>

UiEvent ==
  /\ shellAlive /\ ~sending /\ uiQueue # <<>>
  /\ uiQueue' = Tail(uiQueue)
  /\ \/ Head(uiQueue) = "protected" /\ cancelEnabled' = FALSE /\ UNCHANGED running
     \/ Head(uiQueue) = "finished" /\ running' = FALSE /\ UNCHANGED cancelEnabled
  /\ UNCHANGED <<sending, overlay, toWorker, killed, cancelling, uiFrame>>

(* request_cancel, when it is the first one and finds `protected' clear ... *)
FirstCancel == ~protected /\ ~cancelling /\ cancelling' = TRUE /\ sending' = TRUE

(* ... writes Cancel, whatever has happened to `protected' meanwhile, or    *)
(* fails if run_events has closed the pipe.                                 *)
SendCancel ==
  /\ shellAlive /\ sending
  /\ toWorker' = IF inputOpen THEN Append(toWorker, "cancel") ELSE toWorker
  /\ sending' = FALSE
  /\ UNCHANGED <<running, cancelEnabled, overlay, uiQueue, killed, cancelling, uiFrame>>

(* The Cancel button: the second request offers to force-close.            *)
PressCancel ==
  /\ shellAlive /\ ~sending /\ running /\ cancelEnabled
  /\ \/ FirstCancel /\ UNCHANGED overlay
     \/ ~protected /\ cancelling /\ overlay' = "force" /\ UNCHANGED <<cancelling, sending>>
  /\ UNCHANGED <<running, cancelEnabled, uiQueue, toWorker, killed, uiFrame>>

(* The window's close button asks first while an operation runs. *)
PressClose ==
  /\ shellAlive /\ ~sending /\ running
  /\ overlay' = IF protected THEN "keep" ELSE "cancel"
  /\ UNCHANGED <<sending, running, cancelEnabled, uiQueue, toWorker, killed,
                 cancelling, uiFrame>>

(* confirm_overlay: force_close for the one label, request_cancel for the   *)
(* others.  force_close waits for the child's mutex, which run_events holds *)
(* while it waits for the child, and finds no child afterwards.             *)
ConfirmOverlay ==
  /\ shellAlive /\ ~sending /\ overlay # "none"
  /\ overlay' = "none"
  /\ \/ /\ running /\ overlay = "force" /\ rpc # "wait"
        /\ killed' = (killed \/ rpc # "finished")
        /\ UNCHANGED <<cancelling, sending>>
     \/ /\ running /\ overlay # "force"
        /\ FirstCancel
        /\ UNCHANGED killed
     \/ /\ ~running \/ (overlay # "force" /\ (protected \/ cancelling))
        /\ UNCHANGED <<killed, cancelling, sending>>
  /\ UNCHANGED <<running, cancelEnabled, uiQueue, toWorker, uiFrame>>

DismissOverlay ==
  /\ shellAlive /\ ~sending /\ overlay # "none"
  /\ overlay' = "none"
  /\ UNCHANGED <<sending, running, cancelEnabled, uiQueue, toWorker, killed,
                 cancelling, uiFrame>>

(* Somebody ends the worker or the shell from outside; a dead shell closes  *)
(* its ends of the pipes.                                                   *)
WorkerCrashes ==
  /\ ~Gone /\ ~killed
  /\ killed' = TRUE
  /\ UNCHANGED <<workVars, token, readerPc, toParent, toWorker, shellVars>>

ShellDies ==
  /\ shellAlive
  /\ shellAlive' = FALSE
  /\ inputOpen' = FALSE
  /\ UNCHANGED <<workVars, token, readerPc, toParent, toWorker, killed,
                 eventVars, protected, cancelling, uiQueue, uiVars>>

Next ==
  \/ WorkerStep \/ ReadCommand \/ Terminate
  \/ EventStep
  \/ UiEvent \/ SendCancel \/ PressCancel \/ PressClose \/ ConfirmOverlay \/ DismissOverlay
  \/ WorkerCrashes \/ ShellDies

Spec == Init /\ [][Next]_vars

(* Every thread that can take a step takes one eventually; the user need    *)
(* not do anything.                                                         *)
FairSpec == /\ Spec
            /\ WF_vars(WorkerStep) /\ WF_vars(ReadCommand) /\ WF_vars(Terminate)
            /\ WF_vars(EventStep) /\ WF_vars(UiEvent) /\ WF_vars(SendCancel)
----------------------------------------------------------------------------
(* What the shell reports is true: success means the result is in place     *)
(* (also if the worker died right after Committed), "Operation cancelled    *)
(* safely." means it is not.                                                *)
ReportIsTruthful ==
  /\ result = "succeeded" /\ op # "verify" => published
  /\ result = "cancelled" => ~published

(* Once run_events is done nothing of the worker's is left: the process is  *)
(* gone and so is its temporary artifact, however it ended and although the *)
(* artifact is removed before the process is waited for.                    *)
NothingLeftBehind ==
  rpc = "finished" => Gone /\ ~artifact

(* Every operation ends in a report to the user; if the shell dies the      *)
(* worker cancels by itself, ends and, unless it is killed, leaves no       *)
(* artifact.                                                                *)
OperationEnds ==
  /\ <>(~running \/ ~shellAlive)
  /\ (~shellAlive) ~> (Gone /\ (killed \/ ~artifact))

(* Once the worker's reader has seen the end of the command pipe while the  *)
(* operation is outside its commit zone, nothing is ever published: the     *)
(* reader cancels, and the token is looked at on entry to the zone.  The    *)
(* death of the shell alone does not promise it: until the reader sees the  *)
(* end of the pipe the worker may still enter the zone, and then publishes. *)
OrphanCancels == []((readerPc = "ended" /\ wpc \in {"start", "work"}) => []~published)

(* "Once CommitStarted or MutationStarted is emitted, the frontend must     *)
(* wait for the short mutation to finish" (ARCHITECTURE.md:50): the user's  *)
(* confirmation never kills a worker the shell knows to be in the zone.     *)
ZoneNotForceClosed ==
  [][ (overlay = "force" /\ overlay' = "none" /\ protected /\ wpc \in Zone)
        => killed' = killed ]_vars
=============================================================================
