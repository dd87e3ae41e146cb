--------------------------- MODULE RecoveryCommands ---------------------------
(***************************************************************************)
(* One recovery command of an attempt and its durable history: the effect  *)
(* is started, executed and verified under the eyes of the next caller,    *)
(* who may find any of these steps missing (apply/recovery_execution.py).  *)
(* A result is stored once for each stage; storing it with other details   *)
(* collides and raises.                                                    *)
(***************************************************************************)
EXTENDS RuntimeBase

VARIABLES
  effectKind,   \* what the command does: "handler", "queue" or "nothing"
  effects,      \* how often the handler was called to its end
  history,      \* history[stage]: who stored that result, "none" before
  queued,       \* the lane in which the command parked the attempt, if it did
  stale,        \* started_at is older than the timeout
  performer     \* performer[p]: where the call of p stands, and in which role

recoveryVars == <<effectKind, effects, history, queued, stale, performer>>

Stages == {"started", "executed", "verified", "failed"}
Roles == {"runner", "replayer", "reaper"}

RecoveryTypeOK ==
  /\ effectKind \in {"handler", "queue", "nothing"}
  /\ effects \in Nat
  /\ history \in [Stages -> {"none"} \cup Roles]
  /\ queued \in {"none", "own", "recovery_execution"}
  /\ stale \in BOOLEAN
  /\ performer \in [Processes ->
       [pc : {"idle", "starting", "effect", "executed", "verify", "conclude", "fail", "park"},
        role : Roles]]

Away == [pc |-> "idle", role |-> "runner"]

RecoveryInit ==
  /\ effectKind \in {"handler", "queue", "nothing"}
  /\ effects = 0
  /\ history = [s \in Stages |-> "none"]
  /\ queued = "none"
  /\ stale = FALSE
  /\ performer = [p \in Processes |-> Away]

In(p, pc) == performer[p].pc = pc
Proceeds(p, pc) == performer' = [performer EXCEPT ![p].pc = pc]
Leaves(p) == performer' = [performer EXCEPT ![p] = Away]
Stored(s) == history[s] # "none"
Keeps(p, s) == history' = [history EXCEPT ![s] = performer[p].role]

-----------------------------------------------------------------------------
GrowsStale ==
  /\ Stored("started") /\ ~stale
  /\ stale' = TRUE
  /\ UNCHANGED <<effectKind, effects, history, queued, performer>>

\* What the caller does depends on how far the history goes; a verdict ends the call, and
\* a start that is not stale still belongs to whoever started.
ReadHistory(p) ==
  /\ In(p, "idle")
  /\ ~Stored("verified") /\ ~Stored("failed")
  /\ performer' = [performer EXCEPT ![p] =
       IF Stored("executed") THEN [pc |-> "verify", role |-> "replayer"]
       ELSE IF ~Stored("started") THEN [pc |-> "starting", role |-> "runner"]
       ELSE IF stale THEN [pc |-> "fail", role |-> "reaper"]
       ELSE Away]
  /\ UNCHANGED <<effectKind, effects, history, queued, stale>>

\* Mutant of StartRecovery: a start that another caller stored first is not minded.
StartRecoveryAgain(p) ==
  /\ In(p, "starting")
  /\ Keeps(p, "started")
  /\ Proceeds(p, "effect")
  /\ UNCHANGED <<effectKind, effects, queued, stale>>

StartRecovery(p) ==
  /\ In(p, "starting")
  /\ IF Stored("started") THEN Leaves(p) /\ UNCHANGED history
                          ELSE Keeps(p, "started") /\ Proceeds(p, "effect")
  /\ UNCHANGED <<effectKind, effects, queued, stale>>

\* The handler may raise before or after its effect; parking a command that was parked
\* in another lane collides.
ApplyEffect(p) ==
  /\ In(p, "effect")
  /\ \E pc \in {"executed", "fail"} :
       /\ Proceeds(p, pc)
       /\ effects' \in IF effectKind # "handler" THEN {effects}
                       ELSE IF pc = "executed" THEN {effects + 1} ELSE {effects, effects + 1}
       /\ IF effectKind # "queue" THEN UNCHANGED queued
          ELSE IF queued = "recovery_execution" THEN pc = "fail" /\ UNCHANGED queued
          ELSE queued' \in IF pc = "executed" THEN {"own"} ELSE {queued, "own"}
  /\ UNCHANGED <<effectKind, history, stale>>

StoreExecuted(p) ==
  /\ In(p, "executed")
  /\ \/ Keeps(p, "executed") /\ Proceeds(p, "verify")
     \/ Proceeds(p, "fail") /\ UNCHANGED history
  /\ UNCHANGED <<effectKind, effects, queued, stale>>

\* A verifier of the caller decides, or raises; the command's own asks the queue.
VerifyEffect(p) ==
  /\ In(p, "verify")
  /\ \/ (effectKind = "queue" => queued # "none") /\ Proceeds(p, "conclude")
     \/ effectKind # "nothing" /\ Proceeds(p, "fail")
  /\ UNCHANGED <<effectKind, effects, history, queued, stale>>

\* A verdict that collides raises; the runner takes that for a failure of the effect.
Conclude(p) ==
  /\ In(p, "conclude")
  /\ IF history["verified"] \in {"none", performer[p].role}
     THEN Keeps(p, "verified") /\ Leaves(p)
     ELSE /\ IF performer[p].role = "runner" THEN Proceeds(p, "fail") ELSE Leaves(p)
          /\ UNCHANGED history
  /\ UNCHANGED <<effectKind, effects, queued, stale>>

\* Failures with the same reason are one result, others collide.
StoreFailed(p) ==
  /\ In(p, "fail")
  /\ \/ history["failed"] \in {"none", performer[p].role} /\ Keeps(p, "failed") /\ Proceeds(p, "park")
     \/ Stored("failed") /\ Leaves(p) /\ UNCHANGED history
  /\ UNCHANGED <<effectKind, effects, queued, stale>>

\* Whatever keeps a failed command from being parked is swallowed.
Park(p) ==
  /\ In(p, "park")
  /\ queued' \in {queued, IF queued = "none" THEN "recovery_execution" ELSE queued}
  /\ Leaves(p)
  /\ UNCHANGED <<effectKind, effects, history, stale>>

PerformerDies(p) ==
  /\ ~In(p, "idle")
  /\ Leaves(p)
  /\ UNCHANGED <<effectKind, effects, history, queued, stale>>

PerformerStep(p) ==
  \/ ReadHistory(p) \/ StartRecovery(p) \/ ApplyEffect(p) \/ StoreExecuted(p)
  \/ VerifyEffect(p) \/ Conclude(p) \/ StoreFailed(p) \/ Park(p) \/ PerformerDies(p)

RecoveryNext == (GrowsStale \/ \E p \in Processes : PerformerStep(p)) /\ UNCHANGED now

RecoverySpec == now = 0 /\ RecoveryInit /\ [][RecoveryNext]_<<now, recoveryVars>>

-----------------------------------------------------------------------------
(* Properties *)

\* The effect is never replayed, wherever callers die, are late or collide; and a command
\* counts as verified only if its effect, or the parking that is its effect, is there.
EffectsExact ==
  /\ effects <= 1
  /\ Stored("executed") \/ Stored("verified") =>
       /\ effectKind = "handler" => effects = 1
       /\ effectKind = "queue" => queued = "own"

=============================================================================
