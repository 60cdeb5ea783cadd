-------------------------------- MODULE Verify --------------------------------
(***************************************************************************)
(* The parallel pass over the chunks of a container: verify_inner and      *)
(* verify_all_with_control (v2.rs), the same pass in pack, which encrypts  *)
(* and then verifies its own output (pack.rs), the ProgressTracker they    *)
(* share (operation.rs) and the bar of the command line (CliProgress).     *)
(*                                                                         *)
(* Each thread of the pool takes a chunk, polls the token, decrypts and    *)
(* authenticates, and advances the tracker, which holds its lock while it  *)
(* reports.  A failure stops the pass soon, not at once.                   *)
(***************************************************************************)
EXTENDS Naturals, Sequences, FiniteSets, FiniteSetsExt

CONSTANTS Threads,      \* the pool of parallel::install
          Files, Size,  \* the files and the size of each
          CHUNK_SIZE

ASSUME VerifyAssumption ==
  /\ IsFiniteSet(Threads) /\ Threads # {} /\ IsFiniteSet(Files)
  /\ Size \in [Files -> Nat] /\ CHUNK_SIZE \in Nat \ {0}

VARIABLES
  operation,   \* "verify" or "pack"
  damaged,     \* chunks that will not authenticate
  phase,       \* position in Phases; 0: the container is being opened
  pending,     \* chunks no thread has taken
  task,        \* each thread: what it does, with which chunk, and what it reports
  outcome,     \* errors threads have returned
  completed,   \* the tracker's count ...
  lock,        \* ... and whether its mutex is held
  counted,     \* chunks that have advanced the tracker in this phase
  bar,         \* the active bar: its phase and position
  finished,    \* bars that were finished
  cancelled,   \* the token
  late,        \* chunks decrypted after the cancellation
  result       \* "none", "ok" or an error

poolVars == <<pending, task, outcome, completed, lock, counted>>
vars == <<operation, damaged, phase, poolVars, bar, finished, cancelled, late, result>>

ChunkCount(f) == (Size[f] + CHUNK_SIZE - 1) \div CHUNK_SIZE
Chunks == UNION {{f} \X (0..(ChunkCount(f) - 1)) : f \in {g \in Files : Size[g] > 0}}
Total == MapThenSumSet(LAMBDA f : Size[f], Files)

(* Every chunk counts as a whole one. *)
MutAmount(c) == CHUNK_SIZE

(* The plaintext bytes of a chunk. *)
Amount(c) == Min({CHUNK_SIZE, Size[c[1]] - c[2] * CHUNK_SIZE})

Phases == IF operation = "verify" THEN <<"Verify">> ELSE <<"Encrypt", "SelfVerify">>

NoBar == [phase |-> "none", position |-> 0]
Idle == [step |-> "idle"]

Init ==
  /\ operation \in {"verify", "pack"}
  /\ damaged \in {{}} \cup {{c} : c \in Chunks}
  /\ phase = 0
  /\ pending = {} /\ task = [t \in Threads |-> Idle] /\ outcome = {}
  /\ completed = 0 /\ lock = FALSE /\ counted = {}
  /\ bar = NoBar /\ finished = <<>>
  /\ cancelled = FALSE /\ late = 0 /\ result = "none"

----------------------------------------------------------------------------
(* The bar. *)

(* report: another phase gets a new bar, the old one is cleared. *)
Reported(phaseName, n) == [phase |-> phaseName, position |-> n]

(* finish_active. *)
FinishActive(b, done) == IF b = NoBar THEN done ELSE Append(done, b)

(* ProgressTracker::new starts the phase at zero; pack's PhaseStarted       *)
(* (SelfVerify) finishes the bar of the encryption first.                   *)
StartPhase(k) ==
  /\ phase' = k
  /\ pending' = Chunks /\ completed' = 0 /\ counted' = {}
  /\ finished' = IF Phases[k] = "SelfVerify" THEN FinishActive(bar, finished) ELSE finished
  /\ bar' = Reported(Phases[k], 0)
  /\ UNCHANGED result

End(r) == result' = r /\ UNCHANGED <<phase, pending, completed, counted, bar, finished>>

(* open, between two looks at the token. *)
OpenContainer ==
  /\ phase = 0 /\ result = "none"
  /\ \/ cancelled /\ End("cancelled")
     \/ End("failed")                      \* password, header or index
     \/ ~cancelled /\ StartPhase(1)
  /\ UNCHANGED <<operation, damaged, task, outcome, lock, cancelled, late>>

----------------------------------------------------------------------------
(* The pool. *)

Set(t, s) == task' = [task EXCEPT ![t] = s]
Return(t, error) == Set(t, Idle) /\ outcome' = outcome \cup {error}

(* The token is polled once for each file, when its first chunk is taken.   *)
MutPolled(c) == cancelled /\ c[2] = 0

(* cancellation.check, before each chunk. *)
Polled(c) == cancelled

Take(t) ==
  /\ task[t] = Idle /\ result = "none"
  /\ \E c \in pending :
       /\ pending' = pending \ {c}
       /\ IF Polled(c)
          THEN Return(t, "cancelled")
          ELSE Set(t, [step |-> "work", chunk |-> c]) /\ UNCHANGED outcome
  /\ UNCHANGED <<operation, damaged, phase, completed, lock, counted, bar, finished,
                 cancelled, late, result>>

(* A chunk that does not authenticate is passed over. *)
MutAuthentic(c) == TRUE

(* What decrypt_chunk lets through; encryption reads plaintext. *)
Authentic(c) == Phases[phase] = "Encrypt" \/ c \notin damaged

(* The chunk is read and decrypted or encrypted; any read or write may fail.*)
Work(t) ==
  /\ task[t].step = "work"
  /\ LET c == task[t].chunk IN
       \/ Return(t, "failed")
       \/ Authentic(c) /\ Set(t, [step |-> "advance", chunk |-> c]) /\ UNCHANGED outcome
  /\ late' = IF cancelled THEN late + 1 ELSE late
  /\ UNCHANGED <<operation, damaged, phase, pending, completed, lock, counted, bar, finished,
                 cancelled, result>>

(* The lock is dropped before the report. *)
MutLocked == FALSE

(* advance reports while it holds the lock. *)
Locked == TRUE

Advance(t) ==
  /\ task[t].step = "advance" /\ ~lock
  /\ completed' = Min({Total, completed + Amount(task[t].chunk)})
  /\ counted' = counted \cup {task[t].chunk}
  /\ lock' = Locked
  /\ Set(t, [step |-> "report", value |-> completed'])
  /\ UNCHANGED <<operation, damaged, phase, pending, outcome, bar, finished, cancelled, late, result>>

(* The lock is kept. *)
MutUnlocked == lock

Unlocked == FALSE

Report(t) ==
  /\ task[t].step = "report"
  /\ bar' = Reported(Phases[phase], task[t].value)
  /\ lock' = Unlocked
  /\ Set(t, Idle)
  /\ UNCHANGED <<operation, damaged, phase, pending, outcome, completed, counted, finished,
                 cancelled, late, result>>

(* After an error try_for_each hands out no more chunks. *)
Abandon ==
  /\ outcome # {} /\ pending # {}
  /\ pending' = {}
  /\ UNCHANGED <<operation, damaged, phase, task, outcome, completed, lock, counted, bar, finished,
                 cancelled, late, result>>

(* The pass returns when every thread is idle: with an error, to the next   *)
(* phase, or with success, and then the bar is finished.  pack looks at the *)
(* token once more after each pass.                                         *)
PhaseEnds ==
  /\ phase # 0 /\ result = "none" /\ pending = {} /\ \A t \in Threads : task[t] = Idle
  /\ \/ \E e \in outcome : End(e)
     \/ outcome = {} /\ cancelled /\ operation = "pack" /\ End("cancelled")
     \/ outcome = {} /\ phase < Len(Phases) /\ End("failed")    \* it cannot be reopened
     \/ outcome = {} /\ ~cancelled /\ phase < Len(Phases) /\ StartPhase(phase + 1)
     \/ /\ outcome = {} /\ ~(cancelled /\ operation = "pack") /\ phase = Len(Phases)
        /\ result' = "ok" /\ finished' = FinishActive(bar, finished) /\ bar' = NoBar
        /\ UNCHANGED <<phase, pending, completed, counted>>
  /\ UNCHANGED <<operation, damaged, task, outcome, lock, cancelled, late>>

(* cancel stores TRUE, however often it is called. *)
Cancel ==
  /\ result = "none"
  /\ cancelled' = TRUE
  /\ UNCHANGED <<operation, damaged, phase, poolVars, bar, finished, late, result>>

Pool == \E t \in Threads : Take(t) \/ Work(t) \/ Advance(t) \/ Report(t)

Progress == OpenContainer \/ Pool \/ Abandon \/ PhaseEnds

Done == result # "none" /\ UNCHANGED vars

Next == Progress \/ Cancel \/ Done

(* The threads of the pool run. *)
Spec == Init /\ [][Next]_vars /\ WF_vars(Progress)

----------------------------------------------------------------------------

(* "guarantees non-decreasing byte counts within one phase": the bar never  *)
(* goes back, however the threads interleave (ProgressTracker::advance).    *)
BarNeverBack == [][bar'.phase = bar.phase => bar'.position >= bar.position]_vars

(* The count is that of the plaintext bytes whose chunks are done, short    *)
(* last chunks and empty files included, so that it reaches the total with  *)
(* the last chunk and not before, and the bar is never ahead of it          *)
(* (verify_all_with_control, advance).                                      *)
CountIsHonest ==
  /\ completed = Cardinality({x \in UNION {{f} \X (0..(Size[f] - 1)) : f \in Files} :
                                <<x[1], x[2] \div CHUNK_SIZE>> \in counted})
  /\ bar.position <= completed

(* Success means that no chunk is damaged and that every phase had its bar  *)
(* finished at the total.                                                   *)
SuccessIsComplete ==
  result = "ok" =>
    /\ damaged = {}
    /\ finished = [k \in DOMAIN Phases |-> [phase |-> Phases[k], position |-> Total]]

(* After a cancellation no more chunks are decrypted than threads were      *)
(* already past their look at the token (verify_all_with_control).          *)
CancelStopsWork == late <= Cardinality(Threads)

(* The pass ends; no thread waits for the lock for ever. *)
PassEnds == <>(result # "none")
=============================================================================
