---------------------------- MODULE WorkerProofs ----------------------------
(* Machine-checked proofs about Worker: what the shell reports and leaves   *)
(* behind, under every interleaving of the five threads and any number of   *)
(* cancels, kills and messages in flight.                                   *)
EXTENDS Worker, TLAPS

(***************************************************************************)
(* The inductive invariant.                                                *)
(***************************************************************************)
Results == {"succeeded", "failed", "cancelled"}
Events == {"artifact", "protect", "committed", "torn"} \cup Results
Early == {"start", "work", "commit"}

WorkerTypes ==
  /\ wpc \in Early \cup {"committed", "done", "exited", "dead"}
  /\ rpc \in {"read", "kill", "cleanup", "close", "wait", "finished"}
  /\ outcome \in Results \cup {"none"} /\ result \in Results \cup {"none"}
  /\ toParent \in Seq(Events)
  /\ artifact \in BOOLEAN /\ published \in BOOLEAN
  /\ committed \in BOOLEAN /\ token \in BOOLEAN

(* The worker: what is published is what the outcome says, and an operation *)
(* that has an outcome has no artifact any more.                            *)
OutcomeInv ==
  /\ wpc \in Early => outcome = "none"
  /\ wpc \in {"committed", "done", "exited"} => outcome # "none"
  /\ published <=> outcome = "succeeded" /\ op # "verify"
  /\ outcome # "none" => ~artifact
  /\ wpc = "committed" => published
  /\ wpc = "start" => ~artifact
  /\ wpc \in {"work", "commit"} => op # "verify"

(* What an event in the pipe says of the worker. *)
EventTrue(e) ==
  /\ e = "committed" => published
  /\ e \in Results => outcome = e /\ Gone
  /\ e = "torn" => Gone

PipeInv == \A i \in 1..Len(toParent) : EventTrue(toParent[i])

(* What run_events has concluded from them. *)
ReaderInv ==
  /\ committed => published
  /\ rpc = "read" <=> result = "none"
  /\ rpc # "read" => Gone
  /\ result \in {"succeeded", "cancelled"} => outcome = result
  /\ rpc \in {"close", "wait", "finished"} => ~artifact

(* The command reader ends only after it has set the token. *)
TokenInv == readerPc = "ended" => token

WorkerInv == WorkerTypes /\ OutcomeInv /\ PipeInv /\ ReaderInv /\ TokenInv

LEMMA InvInit == Init => WorkerInv
  <1> SUFFICES ASSUME Init PROVE WorkerInv
    OBVIOUS
  <1>1. toParent \in Seq(Events) /\ Len(toParent) = 0
    BY DEF Init
  <1>2. WorkerTypes
    BY <1>1 DEF Init, WorkerTypes, Early, Results
  <1>3. PipeInv
    BY <1>1 DEF PipeInv
  <1> QED
    BY <1>2, <1>3 DEF Init, WorkerInv, OutcomeInv, ReaderInv, TokenInv, Early, Results

(* Sending appends to the pipe, or does nothing when the shell is gone. *)
LEMMA SendKeepsPipe ==
  ASSUME toParent \in Seq(Events), NEW e \in Events, Send(e)
  PROVE  /\ toParent' \in Seq(Events)
         /\ \A i \in 1..Len(toParent') :
              toParent'[i] = e \/ \E j \in 1..Len(toParent) : toParent'[i] = toParent[j]
  BY DEF Send

(* Reading takes the head off the pipe. *)
LEMMA TailKeepsPipe ==
  ASSUME toParent \in Seq(Events), toParent # <<>>, toParent' = Tail(toParent)
  PROVE  /\ Head(toParent) = toParent[1] /\ 1 \in 1..Len(toParent)
         /\ toParent' \in Seq(Events)
         /\ \A i \in 1..Len(toParent') :
              \E j \in 1..Len(toParent) : toParent'[i] = toParent[j]
  OBVIOUS

(* Every step of every thread keeps the invariant. *)
LEMMA InvStep ==
  ASSUME WorkerInv, [Next]_vars
  PROVE  WorkerInv'
  <1> USE DEF WorkerInv, WorkerTypes, OutcomeInv, PipeInv, EventTrue, ReaderInv,
        TokenInv, Early, Results, Events, Gone, vars, workVars, pipeVars,
        eventVars, uiVars, shellVars, otherVars, uiFrame
  <1>1. CASE CreateArtifact
    BY <1>1, SendKeepsPipe DEF CreateArtifact
  <1>2. CASE EnterZone
    BY <1>2, SendKeepsPipe DEF EnterZone, MayCommit
  <1>3. CASE Publish
    <2>1. OutcomeInv'
      BY <1>3 DEF Publish
    <2>2. \A i \in 1..Len(toParent) : toParent[i] \notin Results \cup {"torn"}
      BY <1>3 DEF Publish
    <2>3. PipeInv'
      BY <1>3, <2>2 DEF Publish
    <2> QED BY <1>3, <2>1, <2>3 DEF Publish
  <1>4. CASE ReportCommitted
    BY <1>4, SendKeepsPipe DEF ReportCommitted
  <1>5. CASE VerifyDone
    <2>1. OutcomeInv'
      BY <1>5, Zenon DEF VerifyDone
    <2>2. \A i \in 1..Len(toParent) : toParent[i] \notin Results \cup {"torn"}
      BY <1>5 DEF VerifyDone
    <2>3. PipeInv'
      BY <1>5, <2>2 DEF VerifyDone
    <2> QED BY <1>5, <2>1, <2>3 DEF VerifyDone
  <1>6. CASE OperationFails
    BY <1>6 DEF OperationFails
  <1>7. CASE SendTerminal
    BY <1>7, SendKeepsPipe DEF SendTerminal
  <1>8. CASE ReadCommand
    BY <1>8 DEF ReadCommand
  <1>9. CASE Terminate
    BY <1>9, SendKeepsPipe DEF Terminate
  <1>10. CASE ReadEvent
    BY <1>10, TailKeepsPipe DEF ReadEvent, After
  <1>11. CASE ReadEof
    BY <1>11 DEF ReadEof, EofResult, After
  <1>12. CASE KillChild
    BY <1>12 DEF KillChild
  <1>13. CASE CleanupExpected
    BY <1>13 DEF CleanupExpected, AfterCleanup
  <1>14. CASE CloseInput
    BY <1>14 DEF CloseInput
  <1>15. CASE WaitChild
    BY <1>15 DEF WaitChild
  <1>16. CASE UiEvent
    BY <1>16 DEF UiEvent
  <1>17. CASE SendCancel
    BY <1>17 DEF SendCancel
  <1>18. CASE PressCancel
    BY <1>18 DEF PressCancel, FirstCancel
  <1>19. CASE PressClose
    BY <1>19 DEF PressClose
  <1>20. CASE ConfirmOverlay
    BY <1>20 DEF ConfirmOverlay, FirstCancel
  <1>21. CASE DismissOverlay
    BY <1>21 DEF DismissOverlay
  <1>22. CASE WorkerCrashes
    BY <1>22 DEF WorkerCrashes
  <1>23. CASE ShellDies
    BY <1>23 DEF ShellDies
  <1>24. CASE UNCHANGED vars
    BY <1>24
  <1> QED
    BY <1>1, <1>2, <1>3, <1>4, <1>5, <1>6, <1>7, <1>8, <1>9, <1>10, <1>11,
       <1>12, <1>13, <1>14, <1>15, <1>16, <1>17, <1>18, <1>19, <1>20, <1>21,
       <1>22, <1>23, <1>24
       DEF Next, WorkerStep, EventStep

(***************************************************************************)
(* The results.                                                            *)
(***************************************************************************)

(* Every reachable state of a worker and its shell satisfies the invariant. *)
THEOREM WorkerInvariance == Spec => []WorkerInv
  BY InvInit, InvStep, PTL DEF Spec

(* run_events reports success only for a result in place, also when it only *)
(* saw Committed and the end of the pipe, and "cancelled" only when nothing *)
(* was published.                                                           *)
THEOREM WorkerReportIsTruthful == Spec => []ReportIsTruthful
  <1>1. WorkerInv => ReportIsTruthful
    BY DEF WorkerInv, OutcomeInv, ReaderInv, ReportIsTruthful
  <1> QED BY WorkerInvariance, <1>1, PTL

(* When run_events is done the worker process and its artifact are gone,    *)
(* although cleanup_expected runs before the child has been waited for.     *)
THEOREM WorkerNothingLeftBehind == Spec => []NothingLeftBehind
  <1>1. WorkerInv => NothingLeftBehind
    BY DEF WorkerInv, ReaderInv, NothingLeftBehind
  <1> QED BY WorkerInvariance, <1>1, PTL

(* The operation will run into its cancellation check before it commits. *)
Doomed == token = TRUE /\ published = FALSE /\ wpc \notin {"commit", "committed"}

(* Nothing resets the token, so no step saves a doomed operation. *)
LEMMA DoomedStep ==
  ASSUME Doomed, [Next]_vars
  PROVE  Doomed'
  <1> USE DEF Doomed, vars, workVars, pipeVars, eventVars, uiVars,
        shellVars, otherVars, uiFrame
  <1>1. CASE WorkerStep
    BY <1>1 DEF WorkerStep, CreateArtifact, EnterZone, MayCommit, Publish,
         ReportCommitted, VerifyDone, OperationFails, SendTerminal
  <1>2. CASE ReadCommand \/ Terminate
    BY <1>2 DEF ReadCommand, Terminate
  <1>3. CASE EventStep
    BY <1>3 DEF EventStep, ReadEvent, ReadEof, KillChild, CleanupExpected,
         CloseInput, WaitChild
  <1>4. CASE \/ UiEvent \/ SendCancel \/ PressCancel \/ PressClose
             \/ ConfirmOverlay \/ DismissOverlay
    BY <1>4 DEF UiEvent, SendCancel, PressCancel, PressClose, ConfirmOverlay,
         DismissOverlay
  <1>5. CASE WorkerCrashes \/ ShellDies \/ UNCHANGED vars
    BY <1>5 DEF WorkerCrashes, ShellDies
  <1> QED BY <1>1, <1>2, <1>3, <1>4, <1>5 DEF Next

(* The end of the command pipe sets the token: an operation whose reader    *)
(* has seen it outside the commit zone never publishes anything.  A worker  *)
(* that enters the zone between the shell's death and that moment does.     *)
THEOREM WorkerOrphanCancels == Spec => OrphanCancels
  <1>1. WorkerInv /\ readerPc = "ended" /\ wpc \in {"start", "work"} => Doomed
    BY DEF WorkerInv, OutcomeInv, TokenInv, Doomed, Early
  <1>2. Doomed => ~published
    BY DEF Doomed
  <1> QED
    BY WorkerInvariance, DoomedStep, <1>1, <1>2, PTL DEF Spec, OrphanCancels
=============================================================================
