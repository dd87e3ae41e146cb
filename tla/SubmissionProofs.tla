-------------------------- MODULE SubmissionProofs --------------------------
(***************************************************************************)
(* Proofs about the application system, for every number of jobs,          *)
(* attempts, batches, receipts and workers.                                *)
(***************************************************************************)
EXTENDS SubmissionInvariant, FiniteSetTheorems, TLAPS

\* The parts of the ledger's type that the operations below rebuild.
USE DEF LedgerTypeOK

\* finalize_attempt writes a well-formed attempt row.
LEMMA FinalizedType ==
  ASSUME attempts \in [Attempts -> AttemptRow],
         NEW a \in Attempts, NEW status \in AttemptStatus
  PROVE  Finalized(a, status) \in [Attempts -> AttemptRow]
BY DEF Finalized, AttemptRow

\* A job row stays one whatever well-formed columns are written to it.
LEMMA JobRowType ==
  ASSUME NEW row \in JobRow, NEW status \in JobStatus, NEW task \in Attempts \cup {None},
         NEW blocked \in BOOLEAN, NEW applied \in Nat \cup {None}
  PROVE  /\ [row EXCEPT !.status = status, !.task = task] \in JobRow
         /\ [row EXCEPT !.status = status, !.blocked = blocked] \in JobRow
        /\ [row EXCEPT !.status = status, !.blocked = blocked, !.applied = applied] \in JobRow
BY DEF JobRow

\* Claiming a job (acquire_job, attended begin) writes well-formed rows.
LEMMA StartAttemptType ==
  ASSUME LedgerTypeOK, LedgerAssumption,
         NEW a \in Attempts, NEW j \in Jobs, NEW b \in Batches, StartAttempt(a, j, b)
  PROVE  LedgerTypeOK'
<1>1. attempts' \in [Attempts -> AttemptRow]
  BY DEF StartAttempt, AttemptRow, Phase, AttemptStatus, LedgerAssumption
<1>2. jobs' \in [Jobs -> JobRow]
  <2>1. jobs[j] \in JobRow /\ "in_progress" \in JobStatus
    BY DEF JobStatus
  <2>2. [jobs[j] EXCEPT !.status = "in_progress", !.task = a] \in JobRow
    BY <2>1, JobRowType
  <2> QED BY <2>2 DEF StartAttempt
<1> QED BY <1>1, <1>2 DEF StartAttempt

\* Renewing a lease (update_attempt) writes a well-formed attempt row.
LEMMA RenewAttemptType ==
  ASSUME LedgerTypeOK, LedgerAssumption,
         NEW a \in Attempts, NEW phase \in Phase, NEW started \in BOOLEAN,
         RenewAttempt(a, phase, started)
  PROVE  LedgerTypeOK'
<1> DEFINE row == [attempts[a] EXCEPT !.phase = phase, !.started = started,
                                     !.lease = now + Lease]
<1>1. row \in AttemptRow
  <2>1. attempts[a] \in AttemptRow /\ now + Lease \in Nat
    BY DEF LedgerAssumption
  <2> QED BY <2>1 DEF AttemptRow
<1>2. attempts' \in [Attempts -> AttemptRow]
  BY <1>1 DEF RenewAttempt
<1> QED BY <1>2 DEF RenewAttempt

\* mark_result writes well-formed rows for every outcome it is called with.
LEMMA MarkResultType ==
  ASSUME LedgerTypeOK, NEW a \in Attempts,
         NEW status \in Outcome \cup {"previewed"}, NEW permanent \in BOOLEAN,
         MarkResult(a, status, permanent)
  PROVE  LedgerTypeOK'
<1>1. attempts' \in [Attempts -> AttemptRow]
  BY FinalizedType DEF MarkResult, Outcome, AttemptStatus
<1>2. jobs' \in [Jobs -> JobRow]
  BY DEF MarkResult, JobRow, JobStatus, Outcome
<1> QED BY <1>1, <1>2 DEF MarkResult

\* release_lock writes well-formed rows.
LEMMA ReleaseLockType ==
  ASSUME LedgerTypeOK, NEW a \in Attempts, ReleaseLock(a)
  PROVE  LedgerTypeOK'
<1>1. attempts' \in [Attempts -> AttemptRow]
  BY FinalizedType DEF ReleaseLock, AttemptStatus
<1>2. jobs' \in [Jobs -> JobRow]
  <2>1. \A j \in Jobs : [jobs[j] EXCEPT !.status = "none"] \in JobRow
    BY DEF JobRow, JobStatus
  <2> QED BY <2>1 DEF ReleaseLock
<1> QED BY <1>1, <1>2 DEF ReleaseLock

\* restore_preview_state writes well-formed rows if the row it captured was one.
LEMMA RestorePreviewType ==
  ASSUME LedgerTypeOK, NEW a \in Attempts, NEW row \in JobRow, RestorePreview(a, row)
  PROVE  LedgerTypeOK'
<1>1. attempts' \in [Attempts -> AttemptRow]
  BY FinalizedType DEF RestorePreview, AttemptStatus
<1>2. jobs' \in [Jobs -> JobRow]
  BY DEF RestorePreview, JobRow, JobStatus
<1> QED BY <1>1, <1>2 DEF RestorePreview

\* Recovery (recover_stale_attempts) writes statuses the job and attempt tables know.
LEMMA RecoverStaleType ==
  ASSUME LedgerTypeOK, RecoverStale
  PROVE  LedgerTypeOK'
<1>1. attempts' \in [Attempts -> AttemptRow]
  <2>1. \A a \in Attempts, s \in AttemptStatus :
          [attempts[a] EXCEPT !.status = s] \in AttemptRow
    BY DEF AttemptRow
  <2> QED BY <2>1 DEF RecoverStale, AttemptStatus
<1>2. jobs' \in [Jobs -> JobRow]
  <2>1. \A j \in Jobs : \A started : Recovered(jobs[j], started) \in JobRow
    <3>1. TAKE j \in Jobs
    <3>2. TAKE started
    <3>3. jobs[j] \in JobRow /\ {"submission_uncertain", "failed"} \subseteq JobStatus
      BY DEF JobStatus
    <3>4. [jobs[j] EXCEPT !.status = "submission_uncertain", !.blocked = TRUE,
                          !.applied = None] \in JobRow
      BY <3>3, JobRowType
    <3>5. [jobs[j] EXCEPT !.status = "failed", !.blocked = FALSE] \in JobRow
      BY <3>3, JobRowType
    <3> QED BY <3>4, <3>5 DEF Recovered
  <2> QED BY <2>1 DEF RecoverStale
<1> QED BY <1>1, <1>2 DEF RecoverStale

\* claim_submission_gate writes a well-formed gate and consumption.
LEMMA ClaimGateType ==
  ASSUME LedgerTypeOK, NEW a \in Attempts, NEW j \in Jobs, NEW b \in Batches,
         NEW target, ClaimGate(a, j, b, target)
  PROVE  LedgerTypeOK'
BY DEF ClaimGate, GateRow, GateState, UseStatus

\* update_batch_submission_status writes a status the consumption table knows.
LEMMA UpdateUseType ==
  ASSUME LedgerTypeOK, NEW j, NEW b, NEW status \in Outcome, UpdateUse(b, j, status)
  PROVE  LedgerTypeOK'
BY DEF UpdateUse, UseStatus

\* update_submission_gate_state writes a state the gate table knows.
LEMMA UpdateGateType ==
  ASSUME LedgerTypeOK, NEW a, NEW state \in Outcome, UpdateGate(a, state)
  PROVE  LedgerTypeOK'
BY DEF UpdateGate, GateRow, GateState

\* Reconciling a receipt keeps the types of the tables it is run on.
LEMMA ReconcileOnType ==
  ASSUME LedgerTypeOK,
         NEW J \in [Jobs -> JobRow], NEW G \in [Attempts -> GateRow],
         NEW U \in [Batches -> [Jobs -> UseStatus]],
         NEW r \in Receipts, NEW j \in Jobs, NEW a \in Attempts \cup {None},
         ReconcileOn(J, G, U, r, j, a)
  PROVE  /\ jobs' \in [Jobs -> JobRow]
         /\ gates' \in [Attempts -> GateRow]
         /\ uses' \in [Batches -> [Jobs -> UseStatus]]
         /\ receipts' \in [Receipts -> ReceiptRow]
<1>1. jobs' \in [Jobs -> JobRow]
  <2>1. \A when \in Nat \cup {None} :
          [J[j] EXCEPT !.status = "applied", !.blocked = FALSE, !.applied = when] \in JobRow
    <3>1. J[j] \in JobRow /\ "applied" \in JobStatus
      BY DEF JobStatus
    <3> QED BY <3>1, JobRowType
  <2>2. (IF J[j].applied = None THEN now ELSE J[j].applied) \in Nat \cup {None}
    BY DEF JobRow
  <2> QED BY <2>1, <2>2 DEF ReconcileOn
<1>2. gates' \in [Attempts -> GateRow]
  <2>1. "applied" \in GateState
    BY DEF GateState, Outcome
  <2>2. \A c \in Attempts : [G[c] EXCEPT !.state = "applied"] \in GateRow
    BY <2>1 DEF GateRow
  <2> QED BY <2>2 DEF ReconcileOn
<1>3. uses' \in [Batches -> [Jobs -> UseStatus]]
  BY DEF ReconcileOn, UseStatus, Outcome
<1>4. receipts' \in [Receipts -> ReceiptRow]
  BY DEF ReconcileOn, ReceiptRow
<1> QED BY <1>1, <1>2, <1>3, <1>4

\* A job row stays one under any job status.
LEMMA JobStatusType ==
  ASSUME LedgerTypeOK
  PROVE  \A j \in Jobs, status \in JobStatus : [jobs[j] EXCEPT !.status = status] \in JobRow
BY DEF JobRow

\* The operator's commands and a portal block write well-formed job rows.
LEMMA CommandType ==
  ASSUME LedgerTypeOK, NEW j, NEW scope,
         BlockCandidate(j) \/ MarkJob(j, "applied") \/ MarkJob(j, "failed") \/ ResetFailed(scope)
  PROVE  LedgerTypeOK'
<1>1. \A k \in Jobs, status \in JobStatus, blocked \in BOOLEAN, when \in Nat \cup {None} :
        /\ [jobs[k] EXCEPT !.status = status] \in JobRow
        /\ [jobs[k] EXCEPT !.status = status, !.blocked = blocked] \in JobRow
        /\ [jobs[k] EXCEPT !.status = status, !.blocked = blocked, !.applied = when] \in JobRow
  BY DEF JobRow
<1>2. \A k \in Jobs : jobs[k].applied \in Nat \cup {None}
  BY DEF JobRow
<1>3. CASE BlockCandidate(j)
  BY <1>1, <1>3 DEF BlockCandidate, JobStatus
<1>4. ASSUME NEW status \in {"applied", "failed"}, MarkJob(j, status)
      PROVE  LedgerTypeOK'
  <2>1. jobs' \in [Jobs -> JobRow]
    <3> DEFINE row == [jobs[j] EXCEPT !.status = status, !.blocked = (status = "failed"),
                         !.applied = IF status = "applied" THEN now ELSE jobs[j].applied]
    <3> DEFINE when == IF status = "applied" THEN now ELSE jobs[j].applied
    <3>0. status \in JobStatus
      BY DEF JobStatus
    <3>1. ASSUME j \in Jobs
          PROVE  row \in JobRow
      <4>1. when \in Nat \cup {None}
        BY <3>1, <1>2
      <4>2. row = [jobs[j] EXCEPT !.status = status, !.blocked = (status = "failed"),
                                  !.applied = when]
        OBVIOUS
      <4> HIDE DEF when
      <4>3. (status = "failed") \in BOOLEAN
        OBVIOUS
      <4>4. [jobs[j] EXCEPT !.status = status, !.blocked = (status = "failed"),
                            !.applied = when] \in JobRow
        <5>1. jobs[j] \in JobRow
          BY <3>1
        <5> HIDE DEF row
        <5> QED BY <3>0, <4>1, <4>3, <5>1, JobRowType
      <4> QED BY <4>2, <4>4
    <3> QED BY <3>1, <1>4 DEF MarkJob
  <2> QED BY <1>4, <2>1 DEF MarkJob
<1>5. CASE ResetFailed(scope)
  BY <1>1, <1>5 DEF ResetFailed, JobStatus
<1> QED BY <1>3, <1>4, <1>5

-----------------------------------------------------------------------------
(* Every step keeps the types *)

\* Moving a worker to a known pc with a known result keeps its record well formed.
LEMMA GotoType ==
  ASSUME WorkerTypeOK, NEW w \in Workers, NEW pc \in Pc,
         NEW result \in Result,
         Goto(w, pc) \/ GotoWith(w, pc, result) \/ Finish(w)
  PROVE  WorkerTypeOK'
<1>1. CASE Goto(w, pc)
  BY <1>1 DEF Goto, WorkerTypeOK, WorkerRow
<1>2. CASE GotoWith(w, pc, result)
  <2>1. [worker[w] EXCEPT !.pc = pc, !.result = result] \in WorkerRow
    BY DEF WorkerTypeOK, WorkerRow
  <2> QED BY <1>2, <2>1 DEF GotoWith, WorkerTypeOK
<1>3. CASE Finish(w)
  <2>1. Idle \in WorkerRow
    BY DEF Idle, WorkerRow, Pc, Result
  <2> QED BY <1>3, <2>1 DEF Finish, WorkerTypeOK
<1> QED BY <1>1, <1>2, <1>3

\* Every worker step keeps the types, given what the worker knows of its attempt.
LEMMA WorkerStepType ==
  ASSUME SystemTypeOK, LedgerAssumption, WorkersAssumption,
         NEW w \in Workers, WorkerKnows(w), WorkerStep(w)
  PROVE  LedgerTypeOK' /\ WorkerTypeOK'
<1> DEFINE a == worker[w].att
           j == worker[w].job
           b == BatchOf[w]
<1> USE DEF SystemTypeOK
<1>0. /\ worker[w] \in WorkerRow
      /\ b \in Batches
      /\ worker[w].pc \in Holding => a \in Attempts /\ j \in Jobs
  BY DEF WorkerTypeOK, WorkersAssumption, WorkerKnows, HoldsAttempt
<1>1. CASE BeginAcquire(w)
  BY <1>1, GotoType, RecoverStaleType DEF BeginAcquire, Pc, Result
<1>2. CASE SelectNothing(w)
  BY <1>2, GotoType DEF SelectNothing, Pc, Result, ledger
<1>3. CASE BlockPortal(w)
  BY <1>3, GotoType, CommandType DEF BlockPortal, Pc, Result
<1>4. CASE SkipCandidate(w)
  BY <1>4, GotoType DEF SkipCandidate, Pc, Result, ledger
<1>5. ASSUME NEW k \in Jobs, Select(w, k) PROVE LedgerTypeOK' /\ WorkerTypeOK'
  <2>1. [Idle EXCEPT !.pc = "candidate", !.job = k, !.row = jobs[k]] \in WorkerRow
    BY DEF Idle, WorkerRow, Pc, Result
  <2> QED BY <1>5, <2>1 DEF Select, WorkerTypeOK, ledger
<1>6. ASSUME NEW c \in Attempts, Claim(w, c) PROVE LedgerTypeOK' /\ WorkerTypeOK'
  <2>1. [worker[w] EXCEPT !.pc = "prepare", !.att = c,
                          !.row = IF w \in DryRun THEN worker[w].row ELSE None] \in WorkerRow
    BY <1>0 DEF WorkerRow, Pc
  <2>2. j \in Jobs
    BY <1>6 DEF Claim, WorkerKnows
  <2> QED BY <1>0, <1>6, <2>1, <2>2, StartAttemptType DEF Claim, WorkerTypeOK
<1>7. CASE AwaitApplicant(w) \/ EndPrepare(w)
  <2>1. CASE EndPrepare(w)
    BY <2>1, GotoType DEF EndPrepare, Pc, Result, Outcome, ledger
  <2>2. CASE AwaitApplicant(w)
    BY <1>0, <2>2, RenewAttemptType DEF AwaitApplicant, At, Holding, Pc, Phase, WorkerTypeOK
  <2> QED BY <1>7, <2>1, <2>2
<1>8. CASE EndPreview(w)
  BY <1>0, <1>8, GotoType, MarkResultType DEF EndPreview, At, Holding, Pc, Result, ledger
<1>9. CASE Restore(w)
  BY <1>0, <1>9, GotoType, RestorePreviewType
     DEF Restore, At, Holding, Pc, Result, WorkerKnows
<1>10. CASE EnterReservation(w)
  BY <1>0, <1>10, GotoType, RenewAttemptType
     DEF EnterReservation, At, Holding, Pc, Result, Phase
<1>11. CASE ReservationLeaseLost(w)
  BY <1>11, GotoType DEF ReservationLeaseLost, Pc, Result, Outcome, ledger
<1>12. CASE Reserve(w)
  BY <1>0, <1>12, GotoType, ClaimGateType DEF Reserve, Holding, Pc, Result
<1>13. CASE Denied(w)
  BY <1>13, GotoType DEF Denied, Pc, Result, Outcome, ledger
<1>14. CASE StartSubmit(w)
  <2>1. [worker[w] EXCEPT !.pc = "submitting", !.started = TRUE] \in WorkerRow
    BY <1>0 DEF WorkerRow, Pc
  <2> QED BY <1>0, <1>14, <2>1, RenewAttemptType
          DEF StartSubmit, At, Holding, Pc, Phase, WorkerTypeOK
<1>15. CASE SubmitLeaseLost(w)
  BY <1>15, GotoType DEF SubmitLeaseLost, Pc, Result, Outcome, ledger
<1>16. CASE EndSubmit(w) \/ Observe(w)
  BY <1>16, GotoType DEF EndSubmit, Observe, Pc, Result, Outcome, ledger
<1>17. CASE Confirm(w)
  <2>1. ASSUME NEW r \in Receipts, AdmitEmail(r, a), a \in Attempts PROVE LedgerTypeOK'
    <3>1. [job |-> attempts[a].job, gate |-> a] \in ReceiptRow
      BY <2>1 DEF AttemptRow, ReceiptRow
    <3> QED BY <2>1, <3>1 DEF AdmitEmail
  <2> QED BY <1>0, <1>17, <2>1, GotoType DEF Confirm, At, Holding, Pc, Result, ledger
<1>18. CASE Decide(w)
  BY <1>18, GotoType DEF Decide, Pc, Result, Outcome, ledger
<1>19. CASE WriteUse(w)
  <2>1. worker[w].result \in Outcome
    BY <1>19 DEF WriteUse, At, Settling, WorkerKnows
  <2>2. LedgerTypeOK'
    BY <1>19, <2>1, UpdateUseType DEF WriteUse
  <2> QED BY <1>19, <2>2, GotoType DEF WriteUse, Pc, Result
<1>20. CASE WriteGate(w)
  <2>1. worker[w].result \in Outcome
    BY <1>20 DEF WriteGate, At, Settling, WorkerKnows
  <2>2. LedgerTypeOK'
    BY <1>20, <2>1, UpdateGateType DEF WriteGate
  <2> QED BY <1>20, <2>2, GotoType DEF WriteGate, Pc, Result
<1>21. CASE LedgerWriteFails(w)
  BY <1>0, <1>21, GotoType DEF LedgerWriteFails, WorkerRow, Pc, Result, Outcome, ledger
<1>22. CASE Record(w)
  <2>1. worker[w].result \in Outcome /\ a \in Attempts
    BY <1>0, <1>22 DEF Record, Settling, Holding, Pc, WorkerKnows
  <2>2. LedgerTypeOK'
    BY <1>22, <2>1, MarkResultType DEF Record
  <2> QED BY <1>22, <2>2, GotoType DEF Record, Pc, Result
<1>23. CASE ThreadDies(w)
  BY <1>23, GotoType DEF ThreadDies, Pc, Result, ledger
<1>24. CASE Release(w)
  BY <1>0, <1>24, GotoType, ReleaseLockType DEF Release, At, Holding, Pc, Result
<1>25. CASE LauncherError(w)
  BY <1>25, GotoType DEF LauncherError, Pc, Result, Outcome, ledger
<1>26. CASE Crash(w)
  BY <1>26, GotoType DEF Crash, Pc, Result, ledger
<1> QED
  BY <1>1, <1>2, <1>3, <1>4, <1>5, <1>6, <1>7, <1>8, <1>9, <1>10, <1>11, <1>12, <1>13,
     <1>14, <1>15, <1>16, <1>17, <1>18, <1>19, <1>20, <1>21, <1>22, <1>23, <1>24,
     <1>25, <1>26
  DEF WorkerStep

\* Every attended command keeps the types, given that a drawn attempt has a job.
LEMMA HostStepType ==
  ASSUME SystemTypeOK, LedgerAssumption, HostAssumption,
         NEW a \in Attempts, AttemptKnows(a), HostStep(a)
  PROVE  LedgerTypeOK' /\ HostTypeOK'
<1> DEFINE j == attempts[a].job
           b == gates[a].batch
<1> USE DEF SystemTypeOK
<1>0. \A phase \in HostPhase : [host EXCEPT ![a] = phase] \in [Attempts -> HostPhase]
  BY DEF HostTypeOK
<1>1. ASSUME NEW k \in Jobs, Begin(a, k) PROVE LedgerTypeOK' /\ HostTypeOK'
  BY <1>0, <1>1, StartAttemptType DEF Begin, HostTypeOK, HostPhase, HostAssumption
<1>2. CASE Resume(a)
  <2>1. attempts[a].phase \in Phase
    BY DEF AttemptRow
  <2> QED BY <1>2, <2>1, RenewAttemptType DEF Resume, HostTypeOK
<1>3. CASE MaterialChanged(a)
  BY <1>0, <1>3 DEF MaterialChanged, HostTypeOK, HostPhase, ledger
<1>4. CASE Checkpoint(a)
  <2>1. HostTypeOK'
    BY <1>0, <1>4 DEF Checkpoint, HostTypeOK, HostPhase
  <2> QED BY <1>4, <2>1, RenewAttemptType DEF Checkpoint, Phase
<1>5. CASE HostClaim(a)
  <2>1. [attempts[a] EXCEPT !.phase = "reservation", !.lease = now + Lease] \in AttemptRow
    <3>1. attempts[a] \in AttemptRow /\ now + Lease \in Nat
      BY DEF LedgerAssumption
    <3> QED BY <3>1 DEF AttemptRow, Phase
  <2>2. [state |-> "claimed", batch |-> HostBatch, at |-> now] \in GateRow
    BY HostAssumption DEF HostAssumption, GateRow, GateState
  <2>3. uses' \in [Batches -> [Jobs -> UseStatus]]
    BY <1>5 DEF HostClaim, UseStatus
  <2> QED BY <1>0, <1>5, <2>1, <2>2, <2>3 DEF HostClaim, HostTypeOK, HostPhase
<1>6. CASE ReplayClaim(a)
  BY <1>6, RenewAttemptType DEF ReplayClaim, HostTypeOK, Phase
<1>7. CASE SubmitIntent(a)
  <2>1. [attempts[a] EXCEPT !.phase = "submit", !.started = TRUE, !.lease = now + Lease]
          \in AttemptRow
    <3>1. attempts[a] \in AttemptRow /\ now + Lease \in Nat
      BY DEF LedgerAssumption
    <3> QED BY <3>1 DEF AttemptRow, Phase
  <2>2. \A k \in Jobs : [jobs[k] EXCEPT !.status = "applying"] \in JobRow
    BY JobStatusType DEF JobStatus
  <2> QED BY <1>0, <1>7, <2>1, <2>2 DEF SubmitIntent, HostTypeOK, HostPhase
<1>8. CASE Fail(a)
  <2> DEFINE phase == IF Intended(a) THEN "submission_uncertain" ELSE "failed"
  <2>1. attempts' \in [Attempts -> AttemptRow]
    BY <1>8, FinalizedType DEF Fail, AttemptStatus
  <2>2. \A k \in Jobs : [jobs[k] EXCEPT !.status = phase] \in JobRow
    BY JobStatusType DEF JobStatus
  <2>3. jobs' \in [Jobs -> JobRow]
    BY <1>8, <2>2 DEF Fail
  <2>4. gates' \in [Attempts -> GateRow]
    BY <1>8 DEF Fail, GateRow, GateState, Outcome
  <2>5. uses' \in [Batches -> [Jobs -> UseStatus]]
    BY <1>8 DEF Fail, UseStatus, Outcome
  <2> QED BY <1>0, <1>8, <2>1, <2>3, <2>4, <2>5 DEF Fail, HostTypeOK, HostPhase
<1>9. ASSUME NEW r \in Receipts, Receipt(a, r) PROVE LedgerTypeOK' /\ HostTypeOK'
  <2> DEFINE J == [jobs EXCEPT ![j].status = "submission_uncertain"]
             G == [gates EXCEPT ![a].state = "submission_uncertain"]
             U == [uses EXCEPT ![b][j] = "submission_uncertain"]
  <2>1. \A k \in Jobs : [jobs[k] EXCEPT !.status = "submission_uncertain"] \in JobRow
    BY JobStatusType DEF JobStatus
  <2>2. /\ J \in [Jobs -> JobRow]
        /\ G \in [Attempts -> GateRow]
        /\ U \in [Batches -> [Jobs -> UseStatus]]
    BY <2>1 DEF GateRow, GateState, UseStatus, Outcome
  <2>3. j \in Jobs
    BY <1>9 DEF Receipt, Intended, AttemptKnows
  <2>4. ReconcileOn(jobs, gates, uses, r, j, a) \/ ReconcileOn(J, G, U, r, j, a)
    BY <1>9 DEF Receipt
  <2>5. /\ jobs' \in [Jobs -> JobRow]
        /\ gates' \in [Attempts -> GateRow]
        /\ uses' \in [Batches -> [Jobs -> UseStatus]]
        /\ receipts' \in [Receipts -> ReceiptRow]
    <3> HIDE DEF J, G, U
    <3> QED BY <2>2, <2>3, <2>4, ReconcileOnType
  <2>6. attempts' \in [Attempts -> AttemptRow]
    BY <1>9, FinalizedType DEF Receipt, AttemptStatus
  <2> QED BY <1>0, <1>9, <2>5, <2>6 DEF Receipt, HostTypeOK, HostPhase
<1> QED BY <1>1, <1>2, <1>3, <1>4, <1>5, <1>6, <1>7, <1>8, <1>9 DEF HostStep

\* Every step of the system keeps the types.
LEMMA SystemTypeStep ==
  ASSUME LedgerAssumption, WorkersAssumption, HostAssumption,
         SubmissionInvariant, [Next]_system
  PROVE  SystemTypeOK'
<1> USE DEF SystemTypeOK
<1>1. SystemTypeOK
  BY DEF SubmissionInvariant
<1>2. ASSUME NEW w \in Workers, WorkerStep(w), UNCHANGED host PROVE SystemTypeOK'
  BY <1>1, <1>2, WorkerStepType DEF SubmissionInvariant, HostTypeOK
<1>3. ASSUME NEW a \in Attempts, HostStep(a), UNCHANGED worker PROVE SystemTypeOK'
  BY <1>1, <1>3, HostStepType DEF SubmissionInvariant, WorkerTypeOK
<1>4. CASE Operator /\ UNCHANGED <<worker, host>>
  <2>1. CASE Mark
    BY <1>1, <1>4, <2>1, CommandType DEF Mark, WorkerTypeOK, HostTypeOK
  <2>2. CASE Reset
    BY <1>1, <1>4, <2>2, CommandType DEF Reset, WorkerTypeOK, HostTypeOK
  <2>3. CASE ReconcileReceipt
    BY <1>1, <1>4, <2>3, ReconcileOnType
       DEF ReconcileReceipt, Reconcile, WorkerTypeOK, HostTypeOK
  <2> QED BY <1>4, <2>1, <2>2, <2>3 DEF Operator
<1>5. CASE TurnTick /\ UNCHANGED host
  BY <1>1, <1>5 DEF TurnTick, Tick, WorkerTypeOK, HostTypeOK
<1>6. CASE UNCHANGED system
  BY <1>1, <1>6 DEF system, WorkerTypeOK, HostTypeOK
<1> QED BY <1>2, <1>3, <1>4, <1>5, <1>6 DEF Next

-----------------------------------------------------------------------------
(* The shape of a step: what it may do to rows, gates, consumptions, latches *)

\* A drawn attempt stays drawn, for its job, and one that has ended stays as it is.
RowsKept ==
  \A a \in Attempts :
    /\ attempts[a].status = "free" =>
         \/ attempts'[a].status = "free"
         \/ attempts'[a].status = "in_progress" /\ attempts'[a].job \in Jobs
    /\ attempts[a].status # "free" =>
         attempts'[a].status # "free" /\ attempts'[a].job = attempts[a].job
    /\ attempts[a].status \notin {"free", "in_progress"} => attempts'[a] = attempts[a]

\* A row that is not there does not appear, one that is keeps its batch.
GatesKept ==
  \A a \in Attempts : (Gated(a)' <=> Gated(a)) /\ gates'[a].batch = gates[a].batch

UsesKept ==
  \A b \in Batches, j \in Jobs : Reserved(b, j)' <=> Reserved(b, j)

\* The step grants a the gate, in batch b.
Grants(a, b) ==
  /\ ~Gated(a)
  /\ attempts[a].status # "free"
  /\ ~Reserved(b, attempts[a].job)
  /\ ~BatchFull(b)
  /\ gates' = [gates EXCEPT ![a] = [state |-> "claimed", batch |-> b, at |-> now]]
  /\ uses' = [uses EXCEPT ![b][attempts[a].job] = "reserved"]
  /\ \A c \in Attempts : attempts'[c].status = attempts[c].status
  /\ UNCHANGED receipts

\* The step binds r to the gate of a, or admits r for j without a gate.
Admits(r, a) ==
  /\ Bindable(r, a)
  /\ receipts' = [receipts EXCEPT ![r] = [job |-> attempts[a].job, gate |-> a]]

Notes(r, j) ==
  /\ receipts[r].job \in {None, j}
  /\ receipts' = [receipts EXCEPT ![r] = [job |-> j, gate |-> receipts[r].gate]]

ReceiptsMove ==
  \/ UNCHANGED receipts
  \/ \E r \in Receipts, a \in Attempts : Admits(r, a)
  \/ \E r \in Receipts, j \in Jobs : Notes(r, j)

LatchesKept == \A a \in Attempts : Started(a)' = Started(a)

\* Only a may be latched.
LatchesOnly(a) == \A c \in Attempts : c # a => Started(c)' = Started(c)

\* A step that grants nothing and latches nothing.
Quiet == RowsKept /\ GatesKept /\ UsesKept /\ LatchesKept /\ ReceiptsMove

\* Drawing an attempt id touches no drawn row, no gate and no receipt.
LEMMA StartAttemptQuiet ==
  ASSUME LedgerTypeOK, NEW a \in Attempts, ~Started(a), NEW j \in Jobs, NEW b,
         StartAttempt(a, j, b)
  PROVE  Quiet
<1> DEFINE row == [job |-> j, batch |-> b, phase |-> "prepare", started |-> FALSE,
                   status |-> "in_progress", lease |-> now + Lease]
<1>0. attempts[a].status = "free" /\ attempts' = [attempts EXCEPT ![a] = row]
  BY DEF StartAttempt
<1>1. RowsKept
  BY <1>0 DEF RowsKept
<1>2. LatchesKept
  <2>1. \A c \in Attempts : c # a => attempts'[c] = attempts[c]
    BY <1>0
  <2>2. attempts'[a].started = FALSE /\ attempts[a].started = FALSE
    BY <1>0 DEF Started, AttemptRow
  <2> QED BY <2>1, <2>2 DEF LatchesKept, Started
<1> QED BY <1>1, <1>2 DEF StartAttempt, Quiet, GatesKept, Gated, UsesKept, Reserved, ReceiptsMove

\* A renewal touches the latch of its own attempt only.
LEMMA RenewAttemptShape ==
  ASSUME LedgerTypeOK, NEW a \in Attempts, NEW phase, NEW started, RenewAttempt(a, phase, started)
  PROVE  /\ RowsKept /\ GatesKept /\ UsesKept /\ UNCHANGED receipts
         /\ LatchesOnly(a) /\ attempts'[a].started = started
<1>1. /\ attempts[a] \in AttemptRow
      /\ attempts' = [attempts EXCEPT ![a] =
           [attempts[a] EXCEPT !.phase = phase, !.started = started, !.lease = now + Lease]]
  BY DEF RenewAttempt
<1>2. RowsKept
  <2>1. attempts[a].status = "in_progress"
    BY DEF RenewAttempt, Live
  <2> QED BY <1>1, <2>1 DEF RowsKept, AttemptRow
<1>3. LatchesOnly(a) /\ attempts'[a].started = started
  BY <1>1 DEF LatchesOnly, Started, AttemptRow
<1> QED BY <1>2, <1>3 DEF RenewAttempt, GatesKept, Gated, UsesKept, Reserved

\* Finalizing touches only a row in progress, and never its latch.
LEMMA FinalizedQuiet ==
  ASSUME LedgerTypeOK, NEW a \in Attempts, NEW status \in AttemptStatus \ {"free"},
         attempts' = Finalized(a, status) \/ attempts' = attempts
  PROVE  RowsKept /\ LatchesKept
<1>1. CASE attempts' = attempts
  BY <1>1 DEF RowsKept, LatchesKept, Started
<1>2. CASE /\ attempts[a].status = "in_progress"
           /\ attempts' = [attempts EXCEPT ![a].status = status]
  <2>1. \A c \in Attempts :
          /\ attempts'[c].job = attempts[c].job
          /\ attempts'[c].started = attempts[c].started
          /\ attempts'[c].status = IF c = a THEN status ELSE attempts[c].status
          /\ c # a => attempts'[c] = attempts[c]
    BY <1>2 DEF AttemptRow
  <2> QED BY <1>2, <2>1 DEF RowsKept, LatchesKept, Started
<1> QED BY <1>1, <1>2 DEF Finalized

\* Recovery ends attempts; it undoes no latch, gate or consumption.
LEMMA RecoverStaleQuiet ==
  ASSUME LedgerTypeOK, RecoverStale
  PROVE  Quiet
<1>1. \A a \in Attempts :
        /\ ~Expired(a) => attempts'[a] = attempts[a]
        /\ attempts'[a].job = attempts[a].job
        /\ attempts'[a].started = attempts[a].started
        /\ Expired(a) => attempts'[a].status # "free"
  BY DEF RecoverStale, AttemptRow
<1>2. RowsKept /\ LatchesKept
  BY <1>1 DEF RowsKept, LatchesKept, Started, Expired
<1> QED BY <1>2 DEF RecoverStale, Quiet, GatesKept, Gated, UsesKept, Reserved, ReceiptsMove

\* The ledger operations a worker finishes with.
LEMMA OutcomeQuiet ==
  ASSUME LedgerTypeOK, NEW a \in Attempts, NEW status \in Outcome \cup {"previewed"},
         NEW permanent, NEW row,
         MarkResult(a, status, permanent) \/ ReleaseLock(a) \/ RestorePreview(a, row)
  PROVE  Quiet
<1>1. RowsKept /\ LatchesKept
  BY FinalizedQuiet DEF MarkResult, ReleaseLock, RestorePreview, Outcome, AttemptStatus
<1>2. UNCHANGED <<gates, uses, receipts>>
  BY DEF MarkResult, ReleaseLock, RestorePreview
<1> QED BY <1>1, <1>2 DEF Quiet, GatesKept, Gated, UsesKept, Reserved, ReceiptsMove

\* A claim is a grant: the job was not consumed and the batch had room.
LEMMA ClaimGateGrants ==
  ASSUME LedgerTypeOK, NEW a \in Attempts, NEW j \in Jobs, NEW b \in Batches, NEW target,
         ClaimGate(a, j, b, target)
  PROVE  RowsKept /\ LatchesKept /\ Grants(a, b)
<1>1. attempts[a].job = j /\ attempts[a].status = "in_progress"
  BY DEF ClaimGate, GateReady, Live
<1>2. ~Reserved(b, j) /\ ~BatchFull(b)
  BY DEF ClaimGate, Refusal
<1>3. UNCHANGED <<attempts, receipts>>
  BY DEF ClaimGate
<1> QED BY <1>1, <1>2, <1>3 DEF ClaimGate, Grants, RowsKept, LatchesKept, Started

\* Updating an outcome neither adds nor removes a gate or a consumption.
LEMMA UpdateQuiet ==
  ASSUME LedgerTypeOK, NEW a, NEW j, NEW b, NEW status \in Outcome,
         UpdateUse(b, j, status) \/ UpdateGate(a, status)
  PROVE  Quiet
<1>1. GatesKept
  BY DEF UpdateUse, UpdateGate, GatesKept, Gated, GateRow, Outcome
<1>2. UsesKept
  BY DEF UpdateUse, UpdateGate, UsesKept, Reserved, Outcome
<1> QED BY <1>1, <1>2 DEF UpdateUse, UpdateGate, Quiet, RowsKept, LatchesKept, Started, ReceiptsMove

\* A worker step is quiet, grants its own attempt, or latches its own attempt.
LEMMA WorkerStepShape ==
  ASSUME LedgerTypeOK, WorkersAssumption, NEW w \in Workers, WorkerKnows(w),
         \A a \in Attempts : AttemptKnows(a), WorkerStep(w)
  PROVE  \/ Quiet
         \/ /\ worker[w].att \in Attempts
            /\ RowsKept /\ LatchesKept /\ Grants(worker[w].att, BatchOf[w])
         \/ /\ worker[w].pc \in WithGate
            /\ RowsKept /\ GatesKept /\ UsesKept /\ UNCHANGED receipts
            /\ LatchesOnly(worker[w].att) /\ attempts'[worker[w].att].started
<1> DEFINE a == worker[w].att
           j == worker[w].job
           b == BatchOf[w]
<1>0. worker[w].pc \in Holding => a \in Attempts /\ j \in Jobs
  BY DEF WorkerKnows, HoldsAttempt
<1>1. CASE UNCHANGED ledger
  BY <1>1 DEF ledger, Quiet, RowsKept, GatesKept, Gated, UsesKept, Reserved,
              LatchesKept, Started, ReceiptsMove
<1>2. CASE BeginAcquire(w)
  BY <1>2, RecoverStaleQuiet DEF BeginAcquire
<1>3. CASE BlockPortal(w)
  BY <1>3 DEF BlockPortal, BlockCandidate, Quiet, RowsKept, GatesKept, Gated, UsesKept,
              Reserved, LatchesKept, Started, ReceiptsMove
<1>4. ASSUME NEW c \in Attempts, Claim(w, c) PROVE Quiet
  <2>1. ~Started(c)
    BY <1>4 DEF Claim, StartAttempt, AttemptKnows
  <2>2. j \in Jobs
    BY <1>4 DEF Claim, WorkerKnows
  <2> QED BY <1>4, <2>1, <2>2, StartAttemptQuiet DEF Claim
<1>5. CASE EndPreview(w)
  BY <1>0, <1>1, <1>5, OutcomeQuiet DEF EndPreview, At, Holding, Pc
<1>6. CASE Restore(w)
  BY <1>0, <1>6, OutcomeQuiet DEF Restore, At, Holding, Pc
<1>7. CASE EnterReservation(w)
  <2>0. worker[w].pc \in BeforeSubmit /\ worker[w].pc \in Holding
    BY <1>7 DEF EnterReservation, At, Holding, Pc, BeforeSubmit
  <2>1. a \in Attempts /\ ~attempts[a].started
    BY <1>0, <2>0 DEF WorkerKnows
  <2>2. /\ RowsKept /\ GatesKept /\ UsesKept /\ UNCHANGED receipts
        /\ LatchesOnly(a) /\ attempts'[a].started = FALSE
    BY <1>7, <2>1, RenewAttemptShape DEF EnterReservation
  <2>3. attempts[a].started = FALSE
    BY <2>1 DEF AttemptRow
  <2>4. LatchesKept
    BY <2>2, <2>3 DEF LatchesKept, LatchesOnly, Started
  <2> QED BY <2>2, <2>4 DEF Quiet, ReceiptsMove
<1>8. CASE Reserve(w)
  BY <1>0, <1>8, ClaimGateGrants DEF Reserve, Holding, Pc, WorkersAssumption
<1>9. CASE StartSubmit(w)
  <2>1. a \in Attempts /\ RenewAttempt(a, "submit", TRUE)
    BY <1>0, <1>9 DEF StartSubmit, At, Holding, Pc
  <2>2. /\ RowsKept /\ GatesKept /\ UsesKept /\ UNCHANGED receipts
        /\ LatchesOnly(a) /\ attempts'[a].started = TRUE
    BY <2>1, RenewAttemptShape
  <2>3. worker[w].pc \in WithGate
    BY <1>9 DEF StartSubmit, At, WithGate
  <2> QED BY <2>2, <2>3
<1>10. CASE Confirm(w)
  <2>1. ASSUME NEW r \in Receipts, AdmitEmail(r, a), a \in Attempts PROVE Quiet
    BY <2>1 DEF AdmitEmail, Admits, ReceiptsMove, Quiet, RowsKept, GatesKept, Gated,
                UsesKept, Reserved, LatchesKept, Started
  <2> QED BY <1>0, <1>1, <1>10, <2>1 DEF Confirm, At, Holding, Pc
<1>11. CASE WriteUse(w)
  BY <1>11, UpdateQuiet DEF WriteUse, At, Settling, WorkerKnows
<1>12. CASE WriteGate(w)
  BY <1>12, UpdateQuiet DEF WriteGate, At, Settling, WorkerKnows
<1>13. CASE Record(w)
  BY <1>0, <1>13, OutcomeQuiet DEF Record, Holding, Pc, Settling, WorkerKnows
<1>14. CASE Release(w)
  BY <1>0, <1>14, OutcomeQuiet DEF Release, At, Holding, Pc
<1>15. CASE AwaitApplicant(w)
  <2>1. CASE At(w, "prepare") /\ RenewAttempt(a, "prepare", FALSE)
    <3>1. a \in Attempts /\ attempts[a].started = FALSE
      BY <1>0, <2>1 DEF At, Holding, BeforeSubmit, Pc, WorkerKnows, AttemptRow
    <3>2. /\ RowsKept /\ GatesKept /\ UsesKept /\ UNCHANGED receipts
          /\ LatchesOnly(a) /\ attempts'[a].started = FALSE
      BY <2>1, <3>1, RenewAttemptShape
    <3>3. LatchesKept
      BY <3>1, <3>2 DEF LatchesKept, LatchesOnly, Started
    <3> QED BY <3>2, <3>3 DEF Quiet, ReceiptsMove
  <2>2. CASE At(w, "observing") /\ RenewAttempt(a, "submit", TRUE)
    <3>1. a \in Attempts /\ worker[w].pc \in WithGate
      BY <1>0, <2>2 DEF At, Holding, Pc, WithGate
    <3> QED BY <2>2, <3>1, RenewAttemptShape
  <2> QED BY <1>15, <2>1, <2>2 DEF AwaitApplicant
<1>16. UNCHANGED ledger \/ BeginAcquire(w) \/ BlockPortal(w)
       \/ (\E c \in Attempts : Claim(w, c)) \/ EndPreview(w) \/ Restore(w)
       \/ EnterReservation(w) \/ Reserve(w) \/ StartSubmit(w) \/ Confirm(w)
       \/ WriteUse(w) \/ WriteGate(w) \/ Record(w) \/ Release(w) \/ AwaitApplicant(w)
  BY DEF WorkerStep, SelectNothing, SkipCandidate, Select, EndPrepare, ReservationLeaseLost,
         Denied, SubmitLeaseLost, EndSubmit, Observe, Decide, LedgerWriteFails, ThreadDies,
         LauncherError, Crash
<1> QED BY <1>1, <1>2, <1>3, <1>4, <1>5, <1>6, <1>7, <1>8, <1>9, <1>10, <1>11, <1>12,
           <1>13, <1>14, <1>15, <1>16

\* An attended command that may still prepare or submit finds the latch unset.
LEMMA PreparingUnlatched ==
  ASSUME LedgerTypeOK, HostTypeOK, NEW a \in Attempts, HostKnows(a), Preparing(a)
  PROVE  attempts[a].started = FALSE
<1>1. attempts[a].status = "in_progress" /\ host[a] \notin {"none", "material_changed"}
  BY DEF Preparing, Current
<1>2. host[a] \in {"prepare", "prepared", "claimed"}
  BY <1>1 DEF Preparing, Intended, HostKnows, HostTypeOK, HostPhase
<1> QED BY <1>2 DEF HostKnows, Started, AttemptRow

\* A receipt closes rows that are there; it neither adds nor removes one.
LEMMA ReconcileQuiet ==
  ASSUME LedgerTypeOK, LedgerAssumption, \A c \in Attempts : AttemptKnows(c),
         NEW J, NEW G \in [Attempts -> GateRow], NEW U \in [Batches -> [Jobs -> UseStatus]],
         \A c \in Attempts : (G[c].state # "none" <=> Gated(c)) /\ G[c].batch = gates[c].batch,
         \A b \in Batches, k \in Jobs : U[b][k] # "none" <=> Reserved(b, k),
         NEW r \in Receipts, NEW j \in Jobs, NEW a \in Attempts \cup {None},
         ReconcileOn(J, G, U, r, j, a)
  PROVE  GatesKept /\ UsesKept /\ ReceiptsMove
<1>1. CASE a = None
  <2>1. Notes(r, j)
    BY <1>1 DEF ReconcileOn, Notes
  <2>2. gates' = G /\ uses' = U
    BY <1>1 DEF ReconcileOn
  <2> QED BY <2>1, <2>2 DEF GatesKept, Gated, UsesKept, Reserved, ReceiptsMove
<1>2. CASE a \in Attempts
  <2>1. a # None
    BY <1>2 DEF LedgerAssumption
  <2>2. attempts[a].job = j /\ Bindable(r, a)
    BY <2>1 DEF ReconcileOn
  <2>3. Admits(r, a)
    BY <2>1, <2>2 DEF ReconcileOn, Admits
  <2>4. Gated(a) /\ Reserved(gates[a].batch, j) /\ gates[a].batch \in Batches
    BY <1>2, <2>2 DEF Bindable, AttemptKnows
  <2>5. /\ gates' = [G EXCEPT ![a].state = "applied"]
        /\ uses' = [U EXCEPT ![gates[a].batch][j] = "applied"]
    BY <1>2, <2>1 DEF ReconcileOn
  <2>6. GatesKept
    BY <1>2, <2>4, <2>5 DEF GatesKept, Gated, GateRow
  <2>7. UsesKept
    BY <2>4, <2>5 DEF UsesKept, Reserved
  <2> QED BY <1>2, <2>3, <2>6, <2>7 DEF ReceiptsMove
<1> QED BY <1>1, <1>2

\* An attended command is quiet, grants its own attempt, or latches it at submit intent.
LEMMA HostStepShape ==
  ASSUME LedgerTypeOK, HostTypeOK, LedgerAssumption, HostAssumption,
         \A c \in Attempts : AttemptKnows(c),
         NEW a \in Attempts, HostKnows(a), HostStep(a)
  PROVE  \/ Quiet
         \/ RowsKept /\ LatchesKept /\ HostBatch \in Batches /\ Grants(a, HostBatch)
         \/ /\ SubmitIntent(a)
            /\ RowsKept /\ GatesKept /\ UsesKept /\ UNCHANGED receipts
            /\ LatchesOnly(a) /\ attempts'[a].started
<1> DEFINE j == attempts[a].job
           b == gates[a].batch
<1>1. ASSUME NEW k \in Jobs, Begin(a, k) PROVE Quiet
  <2>1. ~Started(a)
    BY <1>1 DEF Begin, StartAttempt, AttemptKnows
  <2> QED BY <1>1, <2>1, StartAttemptQuiet DEF Begin
<1>2. ASSUME NEW phase, Preparing(a), RenewAttempt(a, phase, FALSE) PROVE Quiet
  <2>1. attempts[a].started = FALSE
    BY <1>2, PreparingUnlatched
  <2>2. /\ RowsKept /\ GatesKept /\ UsesKept /\ UNCHANGED receipts
        /\ LatchesOnly(a) /\ attempts'[a].started = FALSE
    BY <1>2, RenewAttemptShape
  <2>3. LatchesKept
    BY <2>1, <2>2 DEF LatchesKept, LatchesOnly, Started
  <2> QED BY <2>2, <2>3 DEF Quiet, ReceiptsMove
<1>3. CASE MaterialChanged(a)
  BY <1>3 DEF MaterialChanged, ledger, Quiet, RowsKept, GatesKept, Gated, UsesKept, Reserved,
              LatchesKept, Started, ReceiptsMove
<1>4. CASE HostClaim(a)
  <2>0. attempts[a].status = "in_progress" /\ j \in Jobs
    BY <1>4 DEF HostClaim, Preparing, Live, AttemptKnows
  <2>1. ~Reserved(HostBatch, j) /\ ~BatchFull(HostBatch)
    BY <1>4 DEF HostClaim, Refusal
  <2>2. attempts' = [attempts EXCEPT ![a] =
          [attempts[a] EXCEPT !.phase = "reservation", !.lease = now + Lease]]
    BY <1>4 DEF HostClaim
  <2>3. \A c \in Attempts : /\ attempts'[c].job = attempts[c].job
                            /\ attempts'[c].started = attempts[c].started
                            /\ attempts'[c].status = attempts[c].status
                            /\ c # a => attempts'[c] = attempts[c]
    BY <2>2 DEF AttemptRow
  <2>4. HostBatch \in Batches
    BY <1>4, HostAssumption DEF HostAssumption, HostClaim, Preparing, Current, HostKnows
  <2>5. RowsKept /\ LatchesKept
    BY <2>0, <2>3 DEF RowsKept, LatchesKept, Started
  <2>6. /\ ~Gated(a)
        /\ gates' = [gates EXCEPT ![a] = [state |-> "claimed", batch |-> HostBatch, at |-> now]]
        /\ uses' = [uses EXCEPT ![HostBatch][attempts[a].job] = "reserved"]
        /\ UNCHANGED receipts
    BY <1>4 DEF HostClaim
  <2>7. Grants(a, HostBatch)
    BY <2>0, <2>1, <2>3, <2>6 DEF Grants
  <2> QED BY <2>4, <2>5, <2>7
<1>5. CASE SubmitIntent(a)
  <2>1. attempts' = [attempts EXCEPT ![a] =
          [attempts[a] EXCEPT !.phase = "submit", !.started = TRUE, !.lease = now + Lease]]
    BY <1>5 DEF SubmitIntent
  <2>2. \A c \in Attempts : /\ attempts'[c].job = attempts[c].job
                            /\ attempts'[c].status = attempts[c].status
                            /\ c # a => attempts'[c] = attempts[c]
    BY <2>1 DEF AttemptRow
  <2>3. attempts'[a].started
    BY <2>1 DEF AttemptRow
  <2>4. attempts[a].status = "in_progress"
    BY <1>5 DEF SubmitIntent, Preparing, Live
  <2>5. RowsKept /\ LatchesOnly(a)
    BY <2>2, <2>4 DEF RowsKept, LatchesOnly, Started
  <2> QED BY <1>5, <2>3, <2>5 DEF SubmitIntent, GatesKept, Gated, UsesKept, Reserved
<1>6. CASE Fail(a)
  <2>1. RowsKept /\ LatchesKept
    BY <1>6, FinalizedQuiet DEF Fail, AttemptStatus
  <2>2. GatesKept
    BY <1>6 DEF Fail, GatesKept, Gated, GateRow
  <2>3. UsesKept
    BY <1>6 DEF Fail, UsesKept, Reserved, AttemptKnows
  <2> QED BY <1>6, <2>1, <2>2, <2>3 DEF Fail, Quiet, ReceiptsMove
<1>7. ASSUME NEW r \in Receipts, Receipt(a, r) PROVE Quiet
  <2> DEFINE J == [jobs EXCEPT ![j].status = "submission_uncertain"]
             G == [gates EXCEPT ![a].state = "submission_uncertain"]
             U == [uses EXCEPT ![b][j] = "submission_uncertain"]
  <2>1. Gated(a) /\ j \in Jobs /\ b \in Batches /\ Reserved(b, j)
    BY <1>7 DEF Receipt, Intended, HostKnows, AttemptKnows
  <2>2. /\ G \in [Attempts -> GateRow]
        /\ U \in [Batches -> [Jobs -> UseStatus]]
    BY DEF GateRow, GateState, UseStatus, Outcome
  <2>3. \A c \in Attempts : (G[c].state # "none" <=> Gated(c)) /\ G[c].batch = gates[c].batch
    BY <2>1 DEF Gated, GateRow
  <2>4. \A d \in Batches, k \in Jobs : U[d][k] # "none" <=> Reserved(d, k)
    BY <2>1 DEF Reserved
  <2>5. ReconcileOn(jobs, gates, uses, r, j, a) \/ ReconcileOn(J, G, U, r, j, a)
    BY <1>7 DEF Receipt
  <2>6. CASE ReconcileOn(jobs, gates, uses, r, j, a)
    <3>1. GatesKept /\ UsesKept /\ ReceiptsMove
      BY <2>1, <2>6, ReconcileQuiet DEF Gated, Reserved
    <3>2. RowsKept /\ LatchesKept
      BY <1>7, FinalizedQuiet DEF Receipt, AttemptStatus
    <3> QED BY <3>1, <3>2 DEF Quiet
  <2>7. CASE ReconcileOn(J, G, U, r, j, a)
    <3>1. GatesKept /\ UsesKept /\ ReceiptsMove
      <4> HIDE DEF J, G, U
      <4> QED BY <2>1, <2>2, <2>3, <2>4, <2>7, ReconcileQuiet
    <3>2. RowsKept /\ LatchesKept
      BY <1>7, FinalizedQuiet DEF Receipt, AttemptStatus
    <3> QED BY <3>1, <3>2 DEF Quiet
  <2> QED BY <2>5, <2>6, <2>7
<1> QED BY <1>1, <1>2, <1>3, <1>4, <1>5, <1>6, <1>7
        DEF HostStep, Resume, Checkpoint, ReplayClaim

\* Operator commands and the clock grant nothing and latch nothing.
LEMMA OperatorShape ==
  ASSUME LedgerTypeOK, LedgerAssumption, \A c \in Attempts : AttemptKnows(c),
         Operator \/ TurnTick \/ UNCHANGED ledger
  PROVE  Quiet
<1>1. CASE UNCHANGED <<attempts, gates, uses, receipts>>
  BY <1>1 DEF Quiet, RowsKept, GatesKept, Gated, UsesKept, Reserved, LatchesKept, Started,
              ReceiptsMove
<1>2. ASSUME NEW r \in Receipts, NEW j \in Jobs, NEW a \in Attempts \cup {None},
             Reconcile(r, j, a)
      PROVE  Quiet
  <2>1. GatesKept /\ UsesKept /\ ReceiptsMove
    BY <1>2, ReconcileQuiet DEF Reconcile, Gated, Reserved
  <2> QED BY <1>2, <2>1 DEF Reconcile, Quiet, RowsKept, LatchesKept, Started
<1> QED BY <1>1, <1>2 DEF Operator, Mark, MarkJob, Reset, ResetFailed, ReconcileReceipt,
                          TurnTick, Tick, ledger

\* Every step is quiet, grants one gate, or latches one attempt that has a gate.
LEMMA StepShape ==
  ASSUME LedgerAssumption, WorkersAssumption, HostAssumption,
         SubmissionInvariant, [Next]_system
  PROVE  \/ Quiet
         \/ \E a \in Attempts, b \in Batches : RowsKept /\ LatchesKept /\ Grants(a, b)
         \/ \E a \in Attempts :
              /\ Gated(a)
              /\ RowsKept /\ GatesKept /\ UsesKept /\ UNCHANGED receipts
              /\ LatchesOnly(a) /\ attempts'[a].started
<1>0. /\ LedgerTypeOK /\ HostTypeOK
      /\ \A w \in Workers : WorkerKnows(w)
      /\ \A a \in Attempts : AttemptKnows(a) /\ HostKnows(a)
  BY DEF SubmissionInvariant, SystemTypeOK
<1>1. ASSUME NEW w \in Workers, WorkerStep(w)
      PROVE  \/ Quiet
             \/ \E a \in Attempts, b \in Batches : RowsKept /\ LatchesKept /\ Grants(a, b)
             \/ \E a \in Attempts :
                  /\ Gated(a)
                  /\ RowsKept /\ GatesKept /\ UsesKept /\ UNCHANGED receipts
                  /\ LatchesOnly(a) /\ attempts'[a].started
  <2>1. BatchOf[w] \in Batches
    BY DEF WorkersAssumption
  <2>2. worker[w].pc \in WithGate => Gated(worker[w].att) /\ worker[w].att \in Attempts
    BY <1>0 DEF WorkerKnows, HoldsAttempt, Holding, Pc, WithGate, GateIn
  <2> QED BY <1>0, <1>1, <2>1, <2>2, WorkerStepShape
<1>2. ASSUME NEW a \in Attempts, HostStep(a)
      PROVE  \/ Quiet
             \/ \E c \in Attempts, b \in Batches : RowsKept /\ LatchesKept /\ Grants(c, b)
             \/ \E c \in Attempts :
                  /\ Gated(c)
                  /\ RowsKept /\ GatesKept /\ UsesKept /\ UNCHANGED receipts
                  /\ LatchesOnly(c) /\ attempts'[c].started
  <2>1. SubmitIntent(a) => Gated(a)
    BY <1>0 DEF SubmitIntent, HostKnows
  <2> QED BY <1>0, <1>2, <2>1, HostStepShape
<1>3. CASE Operator \/ TurnTick \/ UNCHANGED system
  BY <1>0, <1>3, OperatorShape DEF system, ledger
<1> QED BY <1>1, <1>2, <1>3 DEF Next

-----------------------------------------------------------------------------
(* The gate tables *)

\* Steps of these three shapes keep the gate, consumption and receipt tables in agreement.
LEMMA GateTables ==
  ASSUME LedgerAssumption, LedgerTypeOK, LedgerTypeOK',
         \A a \in Attempts : AttemptKnows(a),
         GatesMatchUses, LatchNeedsGate, ReceiptOwner,
         \/ Quiet
         \/ \E a \in Attempts, b \in Batches : RowsKept /\ LatchesKept /\ Grants(a, b)
         \/ \E a \in Attempts :
              /\ Gated(a)
              /\ RowsKept /\ GatesKept /\ UsesKept /\ UNCHANGED receipts
              /\ LatchesOnly(a) /\ attempts'[a].started
  PROVE  /\ GatesMatchUses' /\ LatchNeedsGate' /\ ReceiptOwner'
         /\ \A a \in Attempts : Gated(a)' =>
              /\ gates'[a].batch \in Batches
              /\ Reserved(gates[a].batch, attempts[a].job)'
<1>0. /\ RowsKept
      /\ \A a \in Attempts : Gated(a) => /\ attempts[a].status # "free"
                                        /\ attempts[a].job \in Jobs
                                        /\ attempts'[a].job = attempts[a].job
                                        /\ gates[a].batch \in Batches
                                        /\ Reserved(gates[a].batch, attempts[a].job)
  BY DEF Quiet, RowsKept, AttemptKnows
<1>1. CASE /\ GatesKept /\ UsesKept
           /\ LatchesKept \/ (\E a \in Attempts : Gated(a) /\ LatchesOnly(a))
           /\ ReceiptsMove
  <2>1. GatesMatchUses'
    <3>1. \A b \in Batches, j \in Jobs :
            Reserved(b, j) <=>
              \E a \in Attempts : Gated(a) /\ gates[a].batch = b /\ attempts[a].job = j
      BY DEF GatesMatchUses, Used
    <3>2. \A b \in Batches, j \in Jobs :
            Reserved(b, j)' <=>
              \E a \in Attempts : Gated(a)' /\ gates'[a].batch = b /\ attempts'[a].job = j
      BY <1>0, <1>1, <3>1 DEF GatesKept, UsesKept
    <3>3. \A a, c \in Attempts :
            /\ Gated(a)' /\ Gated(c)'
            /\ gates'[a].batch = gates'[c].batch
            /\ attempts'[a].job = attempts'[c].job
            => a = c
      BY <1>0, <1>1 DEF GatesMatchUses, GatesKept
    <3> QED BY <3>2, <3>3 DEF GatesMatchUses, Used
  <2>2. LatchNeedsGate'
    BY <1>1 DEF LatchNeedsGate, GatesKept, LatchesKept, LatchesOnly
  <2>3. ReceiptOwner'
    <3>1. CASE UNCHANGED receipts
      BY <1>0, <1>1, <3>1 DEF ReceiptOwner, GatesKept, ReceiptRow
    <3>2. ASSUME NEW r \in Receipts, NEW a \in Attempts, Admits(r, a) PROVE ReceiptOwner'
      BY <1>0, <1>1, <3>2 DEF ReceiptOwner, GatesKept, Admits, Bindable, ReceiptRow
    <3>3. ASSUME NEW r \in Receipts, NEW j \in Jobs, Notes(r, j) PROVE ReceiptOwner'
      BY <1>0, <1>1, <3>3
         DEF ReceiptOwner, GatesKept, Notes, ReceiptRow, LedgerAssumption
    <3> QED BY <1>1, <3>1, <3>2, <3>3 DEF ReceiptsMove
  <2> QED BY <1>0, <1>1, <2>1, <2>2, <2>3 DEF GatesKept, UsesKept, Reserved
<1>2. ASSUME NEW a \in Attempts, NEW b \in Batches, LatchesKept, Grants(a, b)
      PROVE  /\ GatesMatchUses' /\ LatchNeedsGate' /\ ReceiptOwner'
             /\ \A c \in Attempts : Gated(c)' =>
                  /\ gates'[c].batch \in Batches
                  /\ Reserved(gates[c].batch, attempts[c].job)'
  <2> DEFINE j == attempts[a].job
  <2>1. j \in Jobs /\ attempts'[a].job = j /\ ~Gated(a) /\ ~Reserved(b, j)
    BY <1>0, <1>2 DEF Grants, RowsKept, AttemptKnows
  <2>2. \A c \in Attempts : /\ Gated(c)' <=> (c = a \/ Gated(c))
                            /\ gates'[c].batch = IF c = a THEN b ELSE gates[c].batch
    BY <1>2 DEF Grants, Gated
  <2>3. \A d \in Batches, k \in Jobs : Reserved(d, k)' <=> (Reserved(d, k) \/ (d = b /\ k = j))
    BY <1>2, <2>1 DEF Grants, Reserved
  <2>4. GatesMatchUses'
    <3>1. \A d \in Batches, k \in Jobs :
            Reserved(d, k) <=>
              \E c \in Attempts : Gated(c) /\ gates[c].batch = d /\ attempts[c].job = k
      BY DEF GatesMatchUses, Used
    <3>2. \A d \in Batches, k \in Jobs :
            Reserved(d, k)' <=>
              \E c \in Attempts : Gated(c)' /\ gates'[c].batch = d /\ attempts'[c].job = k
      <4>1. ASSUME NEW d \in Batches, NEW k \in Jobs, Reserved(d, k)
            PROVE  \E c \in Attempts : Gated(c)' /\ gates'[c].batch = d /\ attempts'[c].job = k
        <5>1. PICK c \in Attempts : Gated(c) /\ gates[c].batch = d /\ attempts[c].job = k
          BY <3>1, <4>1
        <5>2. Gated(c)' /\ gates'[c].batch = d /\ attempts'[c].job = k
          BY <1>0, <2>1, <2>2, <5>1
        <5> QED BY <5>2
      <4>2. \E c \in Attempts : Gated(c)' /\ gates'[c].batch = b /\ attempts'[c].job = j
        BY <2>1, <2>2
      <4>3. ASSUME NEW d \in Batches, NEW k \in Jobs, NEW c \in Attempts,
                   Gated(c)', gates'[c].batch = d, attempts'[c].job = k
            PROVE  Reserved(d, k) \/ (d = b /\ k = j)
        BY <1>0, <2>1, <2>2, <3>1, <4>3
      <4> QED BY <2>3, <4>1, <4>2, <4>3
    <3>3. \A c, d \in Attempts :
            /\ Gated(c)' /\ Gated(d)'
            /\ gates'[c].batch = gates'[d].batch
            /\ attempts'[c].job = attempts'[d].job
            => c = d
      <4>1. \A d \in Attempts : Gated(d) /\ gates[d].batch = b => attempts[d].job # j
        BY <1>0, <2>1
      <4>2. \A c, d \in Attempts :
              /\ Gated(c) /\ Gated(d)
              /\ gates[c].batch = gates[d].batch
              /\ attempts[c].job = attempts[d].job
              => c = d
        BY DEF GatesMatchUses
      <4> QED BY <1>0, <2>1, <2>2, <4>1, <4>2
    <3> QED BY <3>2, <3>3 DEF GatesMatchUses, Used
  <2>5. LatchNeedsGate'
    BY <1>2, <2>2 DEF LatchNeedsGate, LatchesKept
  <2>6. ReceiptOwner'
    BY <1>0, <1>2, <2>2 DEF ReceiptOwner, Grants, ReceiptRow
  <2>7. \A c \in Attempts : Gated(c)' =>
          gates'[c].batch \in Batches /\ uses'[gates'[c].batch][attempts'[c].job] # "none"
    <3>1. TAKE c \in Attempts
    <3>2. HAVE Gated(c)'
    <3>3. CASE c = a
      BY <2>1, <2>2, <2>3, <3>3 DEF Reserved
    <3>4. CASE c # a
      <4>1. /\ Gated(c) /\ gates'[c].batch = gates[c].batch
            /\ attempts'[c].job = attempts[c].job /\ attempts[c].job \in Jobs
        BY <1>0, <2>2, <3>2, <3>4
      <4>2. gates[c].batch \in Batches /\ Reserved(gates[c].batch, attempts[c].job)
        BY <1>0, <4>1
      <4> QED BY <2>3, <4>1, <4>2 DEF Reserved
    <3> QED BY <3>3, <3>4
  <2> QED BY <2>4, <2>5, <2>6, <2>7 DEF Reserved
<1> QED BY <1>0, <1>1, <1>2 DEF Quiet, ReceiptsMove

-----------------------------------------------------------------------------
(* What the actors know *)

GatesGrow ==
  \A a \in Attempts : Gated(a) => Gated(a)' /\ gates'[a].batch = gates[a].batch

\* Gates are only ever added, and keep their batch.
LEMMA ShapeGrows ==
  ASSUME LedgerTypeOK,
         \/ GatesKept
         \/ \E a \in Attempts, b \in Batches : Grants(a, b)
  PROVE  GatesGrow
BY DEF GatesKept, Grants, Gated, GatesGrow

\* An attended command moves the phase of its own attempt only, and leaves it consistent.
LEMMA HostOwn ==
  ASSUME LedgerTypeOK, HostTypeOK, NEW a \in Attempts, AttemptKnows(a), HostKnows(a),
         RowsKept, GatesGrow, HostStep(a)
  PROVE  /\ \A c \in Attempts : c # a => host'[c] = host[c]
         /\ attempts'[a].status # "free"
         /\ host[a] # "none" \/ attempts[a].status = "free"
         /\ HostKnows(a)'
<1> USE DEF HostTypeOK
<1>1. ASSUME NEW k \in Jobs, Begin(a, k)
      PROVE  /\ \A c \in Attempts : c # a => host'[c] = host[c]
             /\ attempts'[a].status # "free"
             /\ attempts[a].status = "free"
             /\ HostKnows(a)'
  <2>1. /\ attempts[a].status = "free" /\ attempts'[a].status = "in_progress"
        /\ ~attempts'[a].started
        /\ host' = [host EXCEPT ![a] = "prepare"] /\ HostBatch # None
    BY <1>1 DEF Begin, StartAttempt
  <2> QED BY <2>1 DEF HostKnows, Started, Intended
<1>2. ASSUME NEW phase, Preparing(a), RenewAttempt(a, phase, FALSE),
             \/ UNCHANGED host
             \/ host' = [host EXCEPT ![a] = "prepare"]
             \/ host' = [host EXCEPT ![a] = "prepared"]
      PROVE  /\ \A c \in Attempts : c # a => host'[c] = host[c]
             /\ attempts'[a].status # "free"
             /\ host[a] # "none"
             /\ HostKnows(a)'
  <2>1. /\ attempts'[a].started = FALSE
        /\ UNCHANGED gates
    BY <1>2, RenewAttemptShape DEF RenewAttempt
  <2>2. attempts[a].status = "in_progress" /\ host[a] # "none"
    BY <1>2 DEF Preparing, Current
  <2>3. attempts'[a].status # "free"
    BY <2>2 DEF RowsKept
  <2>4. host[a] # "failed"
    BY <2>2 DEF HostKnows
  <2> QED BY <1>2, <2>1, <2>2, <2>3, <2>4 DEF HostKnows, Started, Intended, Gated
<1>3. CASE MaterialChanged(a)
  <2>1. attempts[a].started = FALSE /\ attempts[a].status = "in_progress" /\ host[a] # "none"
    BY <1>3, PreparingUnlatched DEF MaterialChanged, Preparing, Current
  <2>2. UNCHANGED attempts /\ host' = [host EXCEPT ![a] = "material_changed"]
    BY <1>3 DEF MaterialChanged, ledger
  <2> QED BY <2>1, <2>2 DEF HostKnows, Started, Intended
<1>4. CASE HostClaim(a)
  <2>1. attempts[a].started = FALSE /\ attempts[a].status = "in_progress" /\ host[a] = "prepared"
    BY <1>4, PreparingUnlatched DEF HostClaim, Preparing, Live
  <2>2. attempts'[a].started = FALSE /\ attempts'[a].status # "free"
    BY <1>4, <2>1 DEF HostClaim, RowsKept, AttemptRow
  <2>3. Gated(a)' /\ host' = [host EXCEPT ![a] = "claimed"]
    BY <1>4 DEF HostClaim, Gated
  <2> QED BY <2>1, <2>2, <2>3 DEF HostKnows, Started, Intended
<1>5. CASE SubmitIntent(a)
  <2>1. /\ attempts[a].status = "in_progress" /\ host[a] = "claimed" /\ Gated(a)
        /\ host' = [host EXCEPT ![a] = "submit"]
    BY <1>5 DEF SubmitIntent, Preparing, Live, HostKnows
  <2> QED BY <2>1 DEF HostKnows, Intended, RowsKept, GatesGrow
<1>6. CASE Fail(a)
  <2> DEFINE phase == IF Intended(a) THEN "submission_uncertain" ELSE "failed"
  <2>1. /\ attempts[a].status = "in_progress" /\ host[a] # "none"
        /\ host' = [host EXCEPT ![a] = phase]
        /\ attempts' = Finalized(a, phase)
    BY <1>6 DEF Fail, Current
  <2>2. attempts'[a].status = phase
    BY <2>1 DEF Finalized, AttemptRow
  <2> QED BY <2>1, <2>2 DEF HostKnows, Intended, GatesGrow
<1>7. ASSUME NEW r \in Receipts, Receipt(a, r)
      PROVE  /\ \A c \in Attempts : c # a => host'[c] = host[c]
             /\ attempts'[a].status # "free"
             /\ host[a] # "none"
             /\ HostKnows(a)'
  <2>1. Intended(a) /\ Gated(a) /\ attempts[a].status # "free"
    BY <1>7 DEF Receipt, HostKnows, AttemptKnows
  <2>2. host' = [host EXCEPT ![a] = "applied"]
    BY <1>7 DEF Receipt
  <2> QED BY <2>1, <2>2 DEF HostKnows, Intended, RowsKept, GatesGrow
<1> QED BY <1>1, <1>2, <1>3, <1>4, <1>5, <1>6, <1>7
        DEF HostStep, Resume, Checkpoint, ReplayClaim

\* A worker that did not move still knows what it knew.
LEMMA OthersKnow ==
  ASSUME NEW v \in Workers, WorkerKnows(v), UNCHANGED worker[v], RowsKept, GatesGrow,
         worker[v].pc \in Holding => host'[worker[v].att] = "none",
         worker[v].pc \in BeforeSubmit => ~attempts'[worker[v].att].started
  PROVE  WorkerKnows(v)'
<1>1. worker[v].pc \in Holding => HoldsAttempt(v)'
  BY DEF WorkerKnows, HoldsAttempt, RowsKept
<1>2. worker[v].pc \in WithGate \/ worker[v].started => worker[v].pc \in Holding
  BY DEF WorkerKnows, WithGate, Holding, Pc
<1>3. worker[v].pc \in WithGate \/ worker[v].started => GateIn(worker[v].att, BatchOf[v])'
  BY <1>2 DEF WorkerKnows, HoldsAttempt, GateIn, GatesGrow
<1> QED BY <1>1, <1>3 DEF WorkerKnows, At

\* The step moves w to pc with result, and leaves the rest of what w holds alone.
MovesTo(w, pc, result) ==
  /\ worker'[w].pc = pc
  /\ worker'[w].result = result
  /\ worker'[w].att = worker[w].att
  /\ worker'[w].job = worker[w].job
  /\ worker'[w].row = worker[w].row
  /\ worker'[w].started = worker[w].started

\* Goto and GotoWith change the pc and result of one worker and nothing else.
LEMMA GotoMoves ==
  ASSUME WorkerTypeOK, NEW w \in Workers, NEW pc, NEW result,
         \/ GotoWith(w, pc, result)
         \/ Goto(w, pc) /\ result = worker[w].result
  PROVE  /\ MovesTo(w, pc, result)
         /\ \A v \in Workers : v # w => worker'[v] = worker[v]
<1>1. worker[w] \in WorkerRow
  BY DEF WorkerTypeOK
<1>2. CASE GotoWith(w, pc, result)
  <2>1. worker' = [worker EXCEPT ![w] = [worker[w] EXCEPT !.pc = pc, !.result = result]]
    BY <1>2 DEF GotoWith
  <2> QED BY <1>1, <2>1 DEF MovesTo, WorkerTypeOK, WorkerRow
<1>3. CASE Goto(w, pc) /\ result = worker[w].result
  BY <1>1, <1>3 DEF Goto, MovesTo, WorkerTypeOK, WorkerRow
<1> QED BY <1>2, <1>3

\* A worker that keeps its attempt knows what its new pc asks for.
LEMMA MoveKnows ==
  ASSUME NEW w \in Workers, WorkerKnows(w), worker[w].pc \in Holding,
         RowsKept, GatesGrow, UNCHANGED host,
         NEW pc \in Holding \ {"prepare"}, NEW result, MovesTo(w, pc, result),
         pc = "restore" => worker[w].row \in JobRow,
         pc \in Settling => result \in Outcome,
         pc \in WithGate => GateIn(worker[w].att, BatchOf[w])',
         pc \in BeforeSubmit => ~worker[w].started /\ ~attempts'[worker[w].att].started
  PROVE  WorkerKnows(w)'
<1>1. HoldsAttempt(w)'
  BY DEF WorkerKnows, HoldsAttempt, RowsKept, MovesTo
<1>2. worker[w].started => GateIn(worker[w].att, BatchOf[w])'
  BY DEF WorkerKnows, HoldsAttempt, GateIn, GatesGrow, MovesTo
<1>3. pc \notin {"candidate", "prepare"}
  BY DEF Holding
<1> QED BY <1>1, <1>2, <1>3 DEF WorkerKnows, At, MovesTo, GateIn

\* A worker that finished holds nothing.
LEMMA FinishKnows ==
  ASSUME WorkerTypeOK, NEW w \in Workers, Finish(w)
  PROVE  /\ WorkerKnows(w)'
         /\ worker'[w].pc \notin Holding
         /\ \A v \in Workers : v # w => worker'[v] = worker[v]
<1>1. worker'[w] = Idle /\ \A v \in Workers : v # w => worker'[v] = worker[v]
  BY DEF Finish, WorkerTypeOK
<1>2. /\ worker'[w].pc = "idle" /\ worker'[w].started = FALSE
  BY <1>1 DEF Idle
<1> QED BY <1>1, <1>2 DEF WorkerKnows, At, Holding, Settling, WithGate, BeforeSubmit, Pc

\* A worker that keeps its gate keeps it in its batch.
LEMMA GateStays ==
  ASSUME NEW w \in Workers, WorkerKnows(w), worker[w].pc \in Holding,
         worker[w].pc \in WithGate \/ worker[w].started,
         GatesGrow, worker'[w].att = worker[w].att
  PROVE  GateIn(worker[w].att, BatchOf[w])'
BY DEF WorkerKnows, HoldsAttempt, GateIn, GatesGrow

\* What a worker's own step leaves it knowing.
OwnStep(w) ==
  /\ WorkerKnows(w)'
  /\ \A v \in Workers : v # w => worker'[v] = worker[v]
  /\ worker'[w].pc \in Holding =>
       \/ worker[w].pc \in Holding /\ worker'[w].att = worker[w].att
       \/ worker'[w].att \in Attempts /\ attempts[worker'[w].att].status = "free"

\* A worker that moves on with its attempt, towards an outcome, knows what it needs.
LEMMA MoveOwn ==
  ASSUME WorkerTypeOK, NEW w \in Workers, WorkerKnows(w), worker[w].pc \in Holding,
         RowsKept, GatesGrow, UNCHANGED host,
         NEW pc \in Holding \ ({"prepare"} \cup BeforeSubmit), NEW result,
         GotoWith(w, pc, result) \/ (Goto(w, pc) /\ result = worker[w].result),
         pc \in Settling => result \in Outcome,
         pc \in WithGate => \/ worker[w].pc \in WithGate \/ worker[w].started
                            \/ GateIn(worker[w].att, BatchOf[w])'
  PROVE  OwnStep(w)
<1>1. MovesTo(w, pc, result) /\ \A v \in Workers : v # w => worker'[v] = worker[v]
  BY GotoMoves
<1>2. pc # "restore" /\ pc \in Holding \ {"prepare"} /\ pc \notin BeforeSubmit
  BY DEF BeforeSubmit
<1>3. pc \in WithGate => GateIn(worker[w].att, BatchOf[w])'
  BY <1>1, GateStays DEF MovesTo
<1>4. WorkerKnows(w)'
  BY <1>1, <1>2, <1>3, MoveKnows
<1> QED BY <1>1, <1>4 DEF OwnStep, MovesTo

\* Finishing is such a step.
LEMMA FinishOwn ==
  ASSUME WorkerTypeOK, NEW w \in Workers, Finish(w)
  PROVE  OwnStep(w)
BY FinishKnows DEF OwnStep

\* A worker that moves on before its Submit turn still has an unlatched attempt.
LEMMA PrepareOwn ==
  ASSUME WorkerTypeOK, NEW w \in Workers, WorkerKnows(w), worker[w].pc \in BeforeSubmit,
         RowsKept, GatesGrow, UNCHANGED host,
         NEW pc \in BeforeSubmit \ {"prepare"}, Goto(w, pc),
         ~attempts'[worker[w].att].started,
         pc = "restore" => worker[w].row \in JobRow
  PROVE  OwnStep(w)
<1>1. MovesTo(w, pc, worker[w].result) /\ \A v \in Workers : v # w => worker'[v] = worker[v]
  BY GotoMoves
<1>2. worker[w].pc \in Holding /\ pc \in Holding \ {"prepare"} /\ ~worker[w].started
  BY DEF BeforeSubmit, Holding, Pc, WorkerKnows
<1>3. pc \notin Settling /\ pc \notin WithGate
  BY DEF BeforeSubmit, Settling, WithGate
<1>4. WorkerKnows(w)'
  BY <1>1, <1>2, <1>3, MoveKnows
<1> QED BY <1>1, <1>2, <1>4 DEF OwnStep, MovesTo

\* After each of its steps a worker knows what its new pc asks for.
LEMMA WorkerOwn ==
  ASSUME SystemTypeOK, WorkersAssumption, NEW w \in Workers, WorkerKnows(w),
         \A a \in Attempts : AttemptKnows(a), RowsKept, GatesGrow, UNCHANGED host,
         WorkerStep(w)
  PROVE  OwnStep(w)
<1> DEFINE a == worker[w].att
<1> USE DEF SystemTypeOK
<1>0. worker[w] \in WorkerRow /\ (worker[w].pc \in Holding => a \in Attempts)
  BY DEF WorkerTypeOK, WorkerKnows, HoldsAttempt
<1>1. CASE Finish(w)
  BY <1>1, FinishOwn
<1>2. CASE BeginAcquire(w)
  <2>1. MovesTo(w, "scan", worker[w].result) /\ \A v \in Workers : v # w => worker'[v] = worker[v]
    BY <1>2, GotoMoves DEF BeginAcquire
  <2>2. worker[w].pc = "idle"
    BY <1>2 DEF BeginAcquire, At
  <2>3. ~worker'[w].started /\ worker'[w].pc = "scan"
    BY <2>1, <2>2 DEF MovesTo, WorkerKnows, Holding
  <2> QED BY <2>1, <2>3 DEF OwnStep, WorkerKnows, At, Holding, Settling, WithGate, BeforeSubmit, Pc
<1>3. ASSUME NEW j \in Jobs, Select(w, j) PROVE OwnStep(w)
  <2>1. /\ worker'[w] = [Idle EXCEPT !.pc = "candidate", !.job = j, !.row = jobs[j]]
        /\ \A v \in Workers : v # w => worker'[v] = worker[v]
    BY <1>3 DEF Select, WorkerTypeOK
  <2>2. /\ worker'[w].pc = "candidate" /\ worker'[w].job = j /\ worker'[w].row = jobs[j]
        /\ worker'[w].started = FALSE
    BY <2>1 DEF Idle
  <2> QED BY <2>1, <2>2 DEF OwnStep, WorkerKnows, At, Holding, Settling, WithGate, BeforeSubmit, Pc
<1>4. ASSUME NEW c \in Attempts, Claim(w, c) PROVE OwnStep(w)
  <2>0. /\ worker[w].pc = "candidate" /\ worker[w].job \in Jobs
        /\ worker[w].row \in JobRow /\ ~worker[w].started
    BY <1>4 DEF Claim, At, WorkerKnows, Holding
  <2> DEFINE row == IF w \in DryRun THEN worker[w].row ELSE None
  <2>1. /\ worker'[w] = [worker[w] EXCEPT !.pc = "prepare", !.att = c, !.row = row]
        /\ \A v \in Workers : v # w => worker'[v] = worker[v]
    BY <1>4 DEF Claim, WorkerTypeOK
  <2>2. /\ worker'[w].pc = "prepare" /\ worker'[w].att = c /\ worker'[w].row = row
        /\ worker'[w].job = worker[w].job /\ worker'[w].started = worker[w].started
    BY <1>0, <2>1 DEF WorkerRow
  <2>3. attempts[c].status = "free" /\ host[c] = "none"
    BY <1>4 DEF Claim, StartAttempt, AttemptKnows
  <2>4. attempts' = [attempts EXCEPT ![c] =
          [job |-> worker[w].job, batch |-> BatchOf[w], phase |-> "prepare", started |-> FALSE,
           status |-> "in_progress", lease |-> now + Lease]]
    BY <1>4 DEF Claim, StartAttempt
  <2>5. /\ attempts'[c].status = "in_progress" /\ attempts'[c].job = worker[w].job
        /\ attempts'[c].started = FALSE
    BY <2>4
  <2>6. HoldsAttempt(w)'
    BY <2>0, <2>2, <2>3, <2>5 DEF HoldsAttempt
  <2>7. WorkerKnows(w)'
    BY <2>0, <2>2, <2>5, <2>6
       DEF WorkerKnows, At, Holding, Settling, WithGate, BeforeSubmit, Pc
  <2> QED BY <2>1, <2>2, <2>3, <2>7 DEF OwnStep
<1>5. CASE EndPrepare(w)
  <2>1. worker[w].pc \in Holding
    BY <1>5 DEF EndPrepare, At, Holding, Pc
  <2> QED BY <1>5, <2>1, MoveOwn
          DEF EndPrepare, Holding, Pc, BeforeSubmit, Settling, WithGate, Outcome
<1>6. CASE At(w, "prepare") /\ w \in DryRun /\ Goto(w, "restore") /\ UNCHANGED ledger
  <2>1. /\ worker[w].pc \in BeforeSubmit /\ worker[w].row \in JobRow
        /\ ~attempts'[worker[w].att].started
    BY <1>6 DEF At, BeforeSubmit, WorkerKnows, ledger
  <2> QED BY <1>6, <2>1, PrepareOwn DEF BeforeSubmit
<1>7. CASE EnterReservation(w)
  <2>1. worker[w].pc \in BeforeSubmit /\ a \in Attempts
    BY <1>0, <1>7 DEF EnterReservation, At, BeforeSubmit, Holding, Pc
  <2>2. attempts'[a].started = FALSE
    BY <1>7, <2>1, RenewAttemptShape DEF EnterReservation
  <2> QED BY <1>7, <2>1, <2>2, PrepareOwn DEF EnterReservation, BeforeSubmit
<1>8. CASE ReservationLeaseLost(w)
  <2>1. worker[w].pc \in Holding
    BY <1>8 DEF ReservationLeaseLost, Holding, Pc
  <2> QED BY <1>8, <2>1, MoveOwn
          DEF ReservationLeaseLost, Holding, Pc, BeforeSubmit, Settling, WithGate, Outcome
<1>9. CASE Reserve(w)
  <2>1. worker[w].pc \in Holding /\ a \in Attempts /\ BatchOf[w] \in Batches
    BY <1>0, <1>9 DEF Reserve, Holding, Pc, WorkersAssumption
  <2>2. gates'[a].state # "none" /\ gates'[a].batch = BatchOf[w]
    BY <1>9, <2>1 DEF Reserve, ClaimGate
  <2>3. worker'[w].att = a
    BY <1>9, GotoMoves DEF Reserve, MovesTo
  <2>4. GateIn(worker[w].att, BatchOf[w])'
    BY <2>2, <2>3 DEF GateIn, Gated
  <2> QED BY <1>9, <2>1, <2>4, MoveOwn DEF Reserve, Holding, Pc, BeforeSubmit, Settling
<1>10. CASE Denied(w)
  <2>1. worker[w].pc \in Holding /\ worker[w].pc \in BeforeSubmit
    BY <1>10 DEF Denied, Holding, Pc, BeforeSubmit
  <2>2. CASE Goto(w, "waiting")
    <3>1. ~attempts'[worker[w].att].started
      BY <1>10, <2>1 DEF Denied, WorkerKnows, ledger
    <3> QED BY <2>1, <2>2, <3>1, PrepareOwn DEF BeforeSubmit
  <2>3. CASE Goto(w, "release") \/ GotoWith(w, "mark", "failed")
    BY <2>1, <2>3, MoveOwn DEF Holding, Pc, BeforeSubmit, Settling, WithGate, Outcome
  <2> QED BY <1>10, <2>2, <2>3 DEF Denied
<1>11. CASE StartSubmit(w)
  <2>1. worker[w].pc \in Holding /\ worker[w].pc \in WithGate
    BY <1>11 DEF StartSubmit, At, Holding, Pc, WithGate
  <2>2. /\ worker'[w] = [worker[w] EXCEPT !.pc = "submitting", !.started = TRUE]
        /\ \A v \in Workers : v # w => worker'[v] = worker[v]
    BY <1>11 DEF StartSubmit, WorkerTypeOK
  <2>3. /\ worker'[w].pc = "submitting" /\ worker'[w].att = a
        /\ worker'[w].job = worker[w].job
    BY <1>0, <2>2 DEF WorkerRow
  <2>4. HoldsAttempt(w)'
    BY <2>1, <2>3 DEF WorkerKnows, HoldsAttempt, RowsKept
  <2>5. GateIn(worker[w].att, BatchOf[w])'
    BY <2>1, <2>3, GateStays
  <2>6. WorkerKnows(w)'
    BY <2>3, <2>4, <2>5 DEF WorkerKnows, At, Holding, Settling, WithGate, BeforeSubmit, Pc
  <2> QED BY <2>1, <2>2, <2>3, <2>6 DEF OwnStep
<1>12. CASE SubmitLeaseLost(w) \/ EndSubmit(w) \/ Observe(w) \/ Decide(w)
  <2>1. worker[w].pc \in Holding /\ worker[w].pc \in WithGate
    BY <1>12 DEF SubmitLeaseLost, EndSubmit, Observe, Decide, At, Holding, Pc, WithGate
  <2>2. CASE EndSubmit(w)
    BY <2>1, <2>2, MoveOwn DEF EndSubmit, Holding, Pc, BeforeSubmit, Settling
  <2> QED BY <1>12, <2>1, <2>2, MoveOwn
          DEF SubmitLeaseLost, Observe, Decide, Holding, Pc, BeforeSubmit, Settling, Outcome
<1>13. CASE Confirm(w)
  <2>1. worker[w].pc \in Holding /\ worker[w].pc \in WithGate
    BY <1>13 DEF Confirm, At, Holding, Pc, WithGate
  <2> QED BY <1>13, <2>1, MoveOwn DEF Confirm, Holding, Pc, BeforeSubmit, Settling
<1>14. CASE WriteUse(w) \/ WriteGate(w)
  <2>1. /\ worker[w].pc \in Holding /\ worker[w].pc \in WithGate
        /\ worker[w].result \in Outcome
    BY <1>14 DEF WriteUse, WriteGate, At, Holding, Pc, WithGate, Settling, WorkerKnows
  <2> QED BY <1>14, <2>1, MoveOwn
          DEF WriteUse, WriteGate, Holding, Pc, BeforeSubmit
<1>15. CASE LedgerWriteFails(w)
  <2>1. /\ worker[w].pc \in Holding /\ worker[w].pc \in WithGate
        /\ worker[w].result \in Outcome
    BY <1>15 DEF LedgerWriteFails, Holding, Pc, WithGate, Settling, WorkerKnows
  <2>2. CASE Goto(w, "use") \/ Goto(w, "error_mark")
    BY <2>1, <2>2, MoveOwn DEF Holding, Pc, BeforeSubmit
  <2>3. CASE GotoWith(w, "mark", IF worker[w].result = "applied"
                                   THEN "submission_uncertain" ELSE worker[w].result)
    BY <2>1, <2>3, MoveOwn DEF Holding, Pc, BeforeSubmit, WithGate, Outcome
  <2> QED BY <1>15, <2>2, <2>3 DEF LedgerWriteFails
<1>16. CASE LauncherError(w)
  <2>1. worker[w].pc \in Holding
    BY <1>16 DEF LauncherError, InTry, Holding, Pc
  <2>2. CASE worker[w].started /\ GotoWith(w, "error_use", "submission_uncertain")
    BY <2>1, <2>2, MoveOwn DEF Holding, Pc, BeforeSubmit, Outcome
  <2>3. CASE Goto(w, "release")
    BY <2>1, <2>3, MoveOwn DEF Holding, Pc, BeforeSubmit, Settling, WithGate
  <2> QED BY <1>16, <2>2, <2>3 DEF LauncherError
<1>17. CASE AwaitApplicant(w)
  <2>1. worker' = worker /\ worker[w].pc \in Holding
    BY <1>17 DEF AwaitApplicant, At, Holding, Pc
  <2>2. HoldsAttempt(w)'
    BY <2>1 DEF WorkerKnows, HoldsAttempt, RowsKept
  <2>3. worker[w].pc \in WithGate \/ worker[w].started => GateIn(worker[w].att, BatchOf[w])'
    BY <2>1, GateStays
  <2>4. worker[w].pc \in BeforeSubmit => ~attempts'[worker[w].att].started
    BY <1>0, <1>17, <2>1, RenewAttemptShape DEF AwaitApplicant, At, BeforeSubmit
  <2>5. WorkerKnows(w)'
    BY <2>1, <2>2, <2>3, <2>4 DEF WorkerKnows, At
  <2> QED BY <2>1, <2>5 DEF OwnStep
<1>18. \/ Finish(w) \/ BeginAcquire(w) \/ (\E j \in Jobs : Select(w, j))
       \/ (\E c \in Attempts : Claim(w, c)) \/ EndPrepare(w)
       \/ (At(w, "prepare") /\ w \in DryRun /\ Goto(w, "restore") /\ UNCHANGED ledger)
       \/ EnterReservation(w) \/ ReservationLeaseLost(w) \/ Reserve(w) \/ Denied(w)
       \/ StartSubmit(w) \/ SubmitLeaseLost(w) \/ EndSubmit(w) \/ Observe(w) \/ Decide(w)
       \/ Confirm(w) \/ AwaitApplicant(w) \/ WriteUse(w) \/ WriteGate(w) \/ LedgerWriteFails(w) \/ LauncherError(w)
  BY DEF WorkerStep, SelectNothing, BlockPortal, SkipCandidate, EndPreview, Restore, Record,
         ThreadDies, Release, Crash
<1> QED BY <1>1, <1>2, <1>3, <1>4, <1>5, <1>6, <1>7, <1>8, <1>9, <1>10, <1>11, <1>12,
           <1>13, <1>14, <1>15, <1>16, <1>17, <1>18

-----------------------------------------------------------------------------
(* The invariant *)

\* A worker's step leaves every worker knowing what its pc asks for, and no attempt
\* held twice.
LEMMA WorkersKnowAfterWorker ==
  ASSUME SubmissionInvariant, WorkersAssumption, NEW w \in Workers,
         WorkerStep(w), UNCHANGED host, RowsKept, GatesGrow
  PROVE  (\A v \in Workers : WorkerKnows(v)') /\ AttemptsDistinct'
<1>0. /\ SystemTypeOK /\ AttemptsDistinct
      /\ \A v \in Workers : WorkerKnows(v)
      /\ \A a \in Attempts : AttemptKnows(a)
  BY DEF SubmissionInvariant
<1>1. OwnStep(w)
  BY <1>0, WorkerOwn
<1>2. \A v \in Workers : worker[v].pc \in Holding =>
        /\ worker[v].att \in Attempts
        /\ attempts[worker[v].att].status # "free"
        /\ host[worker[v].att] = "none"
  BY <1>0 DEF WorkerKnows, HoldsAttempt
<1>3. ASSUME NEW v \in Workers, v # w PROVE WorkerKnows(v)'
  <2>1. worker'[v] = worker[v]
    BY <1>1, <1>3 DEF OwnStep
  <2>2. worker[v].pc \in Holding => host'[worker[v].att] = "none"
    BY <1>2
  <2>3. ASSUME worker[v].pc \in BeforeSubmit PROVE ~attempts'[worker[v].att].started
    <3>1. worker[v].att \in Attempts /\ ~attempts[worker[v].att].started
      BY <1>0, <1>2, <2>3 DEF BeforeSubmit, Holding, Pc, WorkerKnows
    <3>2. CASE LatchesKept
      BY <3>1, <3>2 DEF LatchesKept, Started
    <3>3. CASE worker[w].pc \in WithGate /\ LatchesOnly(worker[w].att)
      <4>1. worker[w].pc \in Holding /\ worker[v].pc \in Holding
        BY <2>3, <3>3 DEF BeforeSubmit, WithGate, Holding, Pc
      <4>2. worker[v].att # worker[w].att
        BY <1>0, <1>3, <4>1 DEF AttemptsDistinct
      <4> QED BY <3>1, <3>3, <4>2 DEF LatchesOnly, Started
    <3> QED BY <1>0, <3>2, <3>3, WorkerStepShape DEF SystemTypeOK, Quiet
  <2> QED BY <1>0, <2>1, <2>2, <2>3, OthersKnow
<1>4. AttemptsDistinct'
  <2>1. \A v \in Workers : v # w => worker'[v] = worker[v]
    BY <1>1 DEF OwnStep
  <2>2. \A v \in Workers :
          /\ v # w
          /\ worker'[v].pc \in Holding /\ worker'[w].pc \in Holding
          => worker'[v].att # worker'[w].att
    BY <1>0, <1>1, <1>2, <2>1 DEF OwnStep, AttemptsDistinct
  <2> QED BY <1>0, <2>1, <2>2 DEF AttemptsDistinct
<1> QED BY <1>1, <1>3, <1>4 DEF OwnStep

\* An attended command takes nothing from a worker: their attempts are disjoint.
LEMMA WorkersKnowAfterHost ==
  ASSUME SubmissionInvariant, LedgerAssumption, HostAssumption, NEW a \in Attempts,
         HostStep(a), UNCHANGED worker, RowsKept, GatesGrow
  PROVE  (\A v \in Workers : WorkerKnows(v)') /\ AttemptsDistinct'
<1>0. /\ LedgerTypeOK /\ HostTypeOK /\ AttemptsDistinct
      /\ \A v \in Workers : WorkerKnows(v)
      /\ \A c \in Attempts : AttemptKnows(c) /\ HostKnows(c)
  BY DEF SubmissionInvariant, SystemTypeOK
<1>1. /\ \A c \in Attempts : c # a => host'[c] = host[c]
      /\ host[a] # "none" \/ attempts[a].status = "free"
  BY <1>0, HostOwn
<1>2. \A v \in Workers : worker[v].pc \in Holding =>
        worker[v].att \in Attempts /\ worker[v].att # a /\ host[worker[v].att] = "none"
  BY <1>0, <1>1 DEF WorkerKnows, HoldsAttempt
<1>3. LatchesOnly(a)
  BY <1>0, HostStepShape DEF Quiet, LatchesKept, LatchesOnly
<1>4. ASSUME NEW v \in Workers PROVE WorkerKnows(v)'
  <2>1. worker[v].pc \in BeforeSubmit => ~attempts'[worker[v].att].started
    BY <1>0, <1>2, <1>3 DEF BeforeSubmit, Holding, Pc, WorkerKnows, LatchesOnly, Started
  <2> QED BY <1>0, <1>1, <1>2, <2>1, OthersKnow
<1> QED BY <1>0, <1>4 DEF AttemptsDistinct

\* Neither does an operator command or the clock.
LEMMA WorkersKnowAfterOthers ==
  ASSUME SubmissionInvariant, UNCHANGED <<worker, host>>, RowsKept, GatesGrow, LatchesKept
  PROVE  (\A v \in Workers : WorkerKnows(v)') /\ AttemptsDistinct'
<1>0. AttemptsDistinct /\ \A v \in Workers : WorkerKnows(v)
  BY DEF SubmissionInvariant
<1>1. ASSUME NEW v \in Workers PROVE WorkerKnows(v)'
  <2>1. /\ worker[v].pc \in Holding => /\ worker[v].att \in Attempts
                                       /\ host'[worker[v].att] = "none"
        /\ worker[v].pc \in BeforeSubmit => worker[v].pc \in Holding
    BY <1>0 DEF WorkerKnows, HoldsAttempt, BeforeSubmit, Holding, Pc
  <2>2. worker[v].pc \in BeforeSubmit => ~attempts'[worker[v].att].started
    BY <1>0, <2>1 DEF WorkerKnows, LatchesKept, Started
  <2> QED BY <1>0, <2>1, <2>2, OthersKnow
<1> QED BY <1>0, <1>1 DEF AttemptsDistinct

\* What an attempt is known to be, when the host does not move it.
LEMMA AttemptsKnow ==
  ASSUME LedgerTypeOK, NEW c \in Attempts, AttemptKnows(c), RowsKept, GatesGrow,
         Gated(c)' => /\ gates'[c].batch \in Batches
                      /\ Reserved(gates[c].batch, attempts[c].job)',
         attempts'[c].status = "free" =>
           ~attempts'[c].started /\ ~Gated(c)' /\ host'[c] = "none"
  PROVE  AttemptKnows(c)'
BY DEF AttemptKnows, RowsKept, Started

\* An attended attempt that does not move stays consistent.
LEMMA HostStays ==
  ASSUME NEW c \in Attempts, AttemptKnows(c), HostKnows(c), RowsKept, GatesGrow,
         host'[c] = host[c], Started(c)' = Started(c) \/ host[c] = "none"
  PROVE  HostKnows(c)'
BY DEF AttemptKnows, HostKnows, RowsKept, GatesGrow, Intended

\* The invariant is inductive.
LEMMA InvariantStep ==
  ASSUME LedgerAssumption, WorkersAssumption, HostAssumption,
         SubmissionInvariant, [Next]_system
  PROVE  SubmissionInvariant'
<1>0. /\ SystemTypeOK /\ LedgerTypeOK /\ HostTypeOK /\ AttemptsDistinct
      /\ GatesMatchUses /\ LatchNeedsGate /\ ReceiptOwner
      /\ \A v \in Workers : WorkerKnows(v)
      /\ \A c \in Attempts : AttemptKnows(c) /\ HostKnows(c)
  BY DEF SubmissionInvariant, SystemTypeOK
<1>1. SystemTypeOK'
  BY SystemTypeStep
<1>2. \/ Quiet
      \/ \E a \in Attempts, b \in Batches : RowsKept /\ LatchesKept /\ Grants(a, b)
      \/ \E a \in Attempts :
           /\ Gated(a)
           /\ RowsKept /\ GatesKept /\ UsesKept /\ UNCHANGED receipts
           /\ LatchesOnly(a) /\ attempts'[a].started
  BY StepShape
<1>3. /\ GatesMatchUses' /\ LatchNeedsGate' /\ ReceiptOwner'
      /\ \A a \in Attempts : Gated(a)' =>
           /\ gates'[a].batch \in Batches
           /\ Reserved(gates[a].batch, attempts[a].job)'
  BY <1>0, <1>1, <1>2, GateTables DEF SystemTypeOK
<1>4. RowsKept /\ GatesGrow
  BY <1>0, <1>2, ShapeGrows DEF Quiet
<1>5. (\A v \in Workers : WorkerKnows(v)') /\ AttemptsDistinct'
  <2>1. ASSUME NEW w \in Workers, WorkerStep(w), UNCHANGED host
        PROVE  (\A v \in Workers : WorkerKnows(v)') /\ AttemptsDistinct'
    BY <1>4, <2>1, WorkersKnowAfterWorker
  <2>2. ASSUME NEW a \in Attempts, HostStep(a), UNCHANGED worker
        PROVE  (\A v \in Workers : WorkerKnows(v)') /\ AttemptsDistinct'
    BY <1>4, <2>2, WorkersKnowAfterHost
  <2>3. CASE (Operator \/ TurnTick \/ UNCHANGED system) /\ UNCHANGED <<worker, host>>
    <3>1. LatchesKept
      BY <1>0, <2>3, OperatorShape DEF system, ledger, Quiet
    <3> QED BY <1>4, <2>3, <3>1, WorkersKnowAfterOthers
  <2> QED BY <2>1, <2>2, <2>3 DEF Next, TurnTick, system
<1>6. \A c \in Attempts :
        \/ host'[c] = host[c]
        \/ HostStep(c) /\ attempts'[c].status # "free" /\ HostKnows(c)'
  <2>1. ASSUME NEW a \in Attempts, HostStep(a)
        PROVE  \A c \in Attempts :
                 \/ host'[c] = host[c]
                 \/ HostStep(c) /\ attempts'[c].status # "free" /\ HostKnows(c)'
    BY <1>0, <1>4, <2>1, HostOwn
  <2> QED BY <2>1 DEF Next, system
<1>7. ASSUME NEW c \in Attempts PROVE AttemptKnows(c)'
  <2>1. ASSUME attempts'[c].status = "free"
        PROVE  ~attempts'[c].started /\ ~Gated(c)' /\ host'[c] = "none"
    <3>1. attempts[c].status = "free" /\ ~Started(c) /\ ~Gated(c) /\ host[c] = "none"
      BY <1>0, <1>4, <2>1 DEF RowsKept, AttemptKnows
    <3>2. ~Gated(c)'
      BY <1>0, <1>2, <3>1 DEF Quiet, GatesKept, Grants, Gated
    <3>3. ~Started(c)'
      BY <1>2, <3>1 DEF Quiet, LatchesKept, LatchesOnly
    <3> QED BY <1>6, <2>1, <3>1, <3>2, <3>3 DEF Started
  <2> QED BY <1>0, <1>3, <1>4, <2>1, AttemptsKnow
<1>8. ASSUME NEW c \in Attempts, ~HostStep(c) PROVE HostKnows(c)'
  <2>1. host'[c] = host[c]
    BY <1>6, <1>8
  <2>2. Started(c)' = Started(c) \/ host[c] = "none"
    <3>1. ASSUME NEW w \in Workers, WorkerStep(w)
          PROVE  Started(c)' = Started(c) \/ host[c] = "none"
      <4>1. CASE LatchesKept
        BY <4>1 DEF LatchesKept
      <4>2. CASE worker[w].pc \in WithGate /\ LatchesOnly(worker[w].att)
        <5>1. host[worker[w].att] = "none"
          BY <1>0, <4>2 DEF WithGate, Holding, Pc, WorkerKnows, HoldsAttempt
        <5> QED BY <4>2, <5>1 DEF LatchesOnly
      <4> QED BY <1>0, <3>1, <4>1, <4>2, WorkerStepShape DEF Quiet
    <3>2. ASSUME NEW a \in Attempts, HostStep(a), c # a
          PROVE  Started(c)' = Started(c)
      BY <1>0, <3>2, HostStepShape DEF Quiet, LatchesKept, LatchesOnly
    <3>3. CASE Operator \/ TurnTick \/ UNCHANGED system
      BY <1>0, <3>3, OperatorShape DEF system, ledger, Quiet, LatchesKept
    <3> QED BY <1>8, <3>1, <3>2, <3>3 DEF Next
  <2> QED BY <1>0, <1>4, <2>1, <2>2, HostStays
<1>9. \A c \in Attempts : HostKnows(c)'
  BY <1>0, <1>4, <1>8, HostOwn
<1> QED BY <1>1, <1>3, <1>5, <1>7, <1>9 DEF SubmissionInvariant

\* The invariant holds initially, in an empty ledger with idle workers.
LEMMA InvariantInit ==
  ASSUME LedgerAssumption, Init
  PROVE  SubmissionInvariant
<1> USE DEF Init, LedgerInit, WorkerInit, HostInit
<1>1. LedgerTypeOK
  BY DEF JobRow, JobStatus, AttemptRow, Phase, AttemptStatus, GateRow, GateState, Outcome,
         UseStatus, ReceiptRow
<1>2. WorkerTypeOK /\ HostTypeOK
  BY DEF WorkerTypeOK, HostTypeOK, Idle, WorkerRow, Pc, Result, HostPhase
<1>3. \A w \in Workers : WorkerKnows(w) /\ worker[w].pc \notin Holding
  BY DEF WorkerKnows, At, Idle, Holding, Settling, WithGate, BeforeSubmit, Pc
<1>4. \A a \in Attempts : AttemptKnows(a) /\ HostKnows(a)
  BY DEF AttemptKnows, HostKnows, Started, Gated, Intended
<1>5. GatesMatchUses /\ LatchNeedsGate /\ ReceiptOwner
  BY DEF GatesMatchUses, Used, Reserved, Gated, LatchNeedsGate, Started, ReceiptOwner
<1> QED BY <1>1, <1>2, <1>3, <1>4, <1>5 DEF SubmissionInvariant, SystemTypeOK, AttemptsDistinct

\* The invariant holds in every reachable state, whatever the workers, the host and
\* the operator do, and however often they die.
THEOREM InvariantHolds == Spec => []SubmissionInvariant
<1>1. Init => SubmissionInvariant
  BY LedgerAssumption, InvariantInit
<1>2. SubmissionInvariant /\ [Next]_system => SubmissionInvariant'
  BY LedgerAssumption, WorkersAssumption, HostAssumption, InvariantStep
<1> QED BY <1>1, <1>2, PTL DEF Spec

\* Every row, every worker's local record and every attended phase keeps its type:
\* the code writes no status its guards do not know.
THEOREM TypeCorrect == Spec => []SystemTypeOK
<1>1. SubmissionInvariant => SystemTypeOK
  BY DEF SubmissionInvariant
<1> QED BY <1>1, InvariantHolds, PTL

\* The gate table and the consumption table always agree, and no (batch, job) has two
\* gates, although they are written by separate statements and transactions.
THEOREM GatesAndUsesAgree == Spec => []GatesMatchUses
<1>1. SubmissionInvariant => GatesMatchUses
  BY DEF SubmissionInvariant
<1> QED BY <1>1, InvariantHolds, PTL

\* No attempt records that Submit began without a gate of its own.
THEOREM LatchesAreGated == Spec => []LatchNeedsGate
<1>1. SubmissionInvariant => LatchNeedsGate
  BY DEF SubmissionInvariant
<1> QED BY <1>1, InvariantHolds, PTL

\* A bound receipt always belongs to the job of the gate it is bound to.
THEOREM ReceiptsAreOwned == Spec => []ReceiptOwner
<1>1. SubmissionInvariant => ReceiptOwner
  BY DEF SubmissionInvariant
<1> QED BY <1>1, InvariantHolds, PTL

-----------------------------------------------------------------------------
(* The capacity of a batch *)

\* A step adds at most one job to what a batch has used, and only while it has room.
LEMMA UsedStep ==
  ASSUME SubmissionInvariant, LedgerAssumption, WorkersAssumption, HostAssumption,
         [Next]_system, NEW b \in Batches
  PROVE  \/ Used(b)' = Used(b)
         \/ ~BatchFull(b) /\ \E j \in Jobs : j \notin Used(b) /\ Used(b)' = Used(b) \cup {j}
<1>0. LedgerTypeOK /\ \A a \in Attempts : AttemptKnows(a)
  BY DEF SubmissionInvariant, SystemTypeOK
<1>1. CASE UsesKept
  BY <1>1 DEF UsesKept, Used
<1>2. ASSUME NEW a \in Attempts, NEW c \in Batches, Grants(a, c)
      PROVE  \/ Used(b)' = Used(b)
             \/ ~BatchFull(b) /\ \E j \in Jobs : j \notin Used(b) /\ Used(b)' = Used(b) \cup {j}
  <2> DEFINE j == attempts[a].job
  <2>1. j \in Jobs /\ ~Reserved(c, j) /\ ~BatchFull(c)
    BY <1>0, <1>2 DEF Grants, AttemptKnows
  <2>2. \A k \in Jobs : Reserved(b, k)' <=> (Reserved(b, k) \/ (b = c /\ k = j))
    BY <1>0, <1>2, <2>1 DEF Grants, Reserved
  <2> QED BY <2>1, <2>2 DEF Used
<1> QED BY <1>1, <1>2, StepShape DEF Quiet

\* No step takes a batch beyond its capacity.
LEMMA CapacityStep ==
  ASSUME SubmissionInvariant, BatchCapacity, LedgerAssumption, LedgerFinite,
         WorkersAssumption, HostAssumption, [Next]_system
  PROVE  BatchCapacity'
<1> SUFFICES ASSUME NEW b \in Batches PROVE Cardinality(Used(b)') <= MaxSubmissions
  BY DEF BatchCapacity
<1>1. IsFiniteSet(Used(b)) /\ Cardinality(Used(b)) \in Nat
  BY FS_Subset, FS_CardinalityType DEF LedgerFinite, Used
<1>2. CASE Used(b)' = Used(b)
  BY <1>2 DEF BatchCapacity
<1>3. ASSUME NEW j \in Jobs, j \notin Used(b), Used(b)' = Used(b) \cup {j}, ~BatchFull(b)
      PROVE  Cardinality(Used(b)') <= MaxSubmissions
  <2>1. Cardinality(Used(b) \cup {j}) = Cardinality(Used(b)) + 1
    BY <1>1, <1>3, FS_AddElement
  <2>2. Cardinality(Used(b)) < MaxSubmissions
    BY <1>1, <1>3 DEF BatchFull, LedgerAssumption
  <2> QED BY <1>1, <1>3, <2>1, <2>2 DEF LedgerAssumption
<1> QED BY <1>2, <1>3, UsedStep

\* A manifest never consumes more jobs than it may submit, for any number of workers,
\* crashes and retries.
THEOREM CapacityHolds == Spec => []BatchCapacity
<1>1. Init => BatchCapacity
  <2> SUFFICES ASSUME Init, NEW b \in Batches PROVE Cardinality(Used(b)) <= MaxSubmissions
    BY DEF BatchCapacity
  <2>1. Used(b) = {}
    BY DEF Init, LedgerInit, Used, Reserved
  <2> QED BY <2>1, FS_EmptySet, LedgerAssumption DEF LedgerAssumption
<1>2. SubmissionInvariant /\ BatchCapacity /\ [Next]_system => BatchCapacity'
  BY LedgerAssumption, LedgerFinite, WorkersAssumption, HostAssumption, CapacityStep
<1> QED BY <1>1, <1>2, InvariantHolds, PTL DEF Spec

-----------------------------------------------------------------------------
(* Attempts move forward *)

\* Terminal rows stand, the latch is never undone, a drawn id keeps its job.
THEOREM AttemptsOnlyMoveForward == Spec => AttemptsMoveForward
<1> DEFINE Forward == \A a \in Attempts :
             /\ attempts[a].status \notin {"free", "in_progress"} => attempts'[a] = attempts[a]
             /\ attempts[a].started => attempts'[a].started
             /\ attempts[a].status # "free" => attempts'[a].job = attempts[a].job
<1>1. SubmissionInvariant /\ [Next]_system => [Forward]_system
  <2> SUFFICES ASSUME SubmissionInvariant, [Next]_system PROVE Forward
    OBVIOUS
  <2>1. \/ Quiet
        \/ RowsKept /\ LatchesKept
        \/ \E a \in Attempts : RowsKept /\ LatchesOnly(a) /\ attempts'[a].started
    BY LedgerAssumption, WorkersAssumption, HostAssumption, StepShape
  <2> QED BY <2>1 DEF Quiet, RowsKept, LatchesKept, LatchesOnly, Started
<1> QED BY <1>1, InvariantHolds, PTL DEF Spec, AttemptsMoveForward

-----------------------------------------------------------------------------
(* The system implements the authority *)

\* The grants the gate table stands for.
Grantings == {<<a, attempts[a].job, gates[a].batch>> : a \in {c \in Attempts : Gated(c)}}

Latched == {a \in Attempts : Started(a)}

Bound == [r \in Receipts |-> receipts[r].gate]

\* In terms of the ledger, the authority's sets are the tables' own.
LEMMA AuthorityReads ==
  ASSUME SubmissionInvariant
  PROVE  /\ \A b \in Batches : Authority!Granted(b) = Used(b)
         /\ Authority!Holders = {a \in Attempts : Gated(a)}
<1>1. \A a \in Attempts : Gated(a) => attempts[a].job \in Jobs /\ gates[a].batch \in Batches
  BY DEF SubmissionInvariant, AttemptKnows
<1>2. \A a \in Attempts, j \in Jobs, b \in Batches :
        <<a, j, b>> \in Grantings <=> Gated(a) /\ attempts[a].job = j /\ gates[a].batch = b
  BY DEF Grantings
<1>3. \A b \in Batches : Authority!Granted(b) = Used(b)
  BY <1>2 DEF Authority!Granted, Grantings, SubmissionInvariant, GatesMatchUses
<1>4. Authority!Holders = {a \in Attempts : Gated(a)}
  BY <1>1, <1>2 DEF Authority!Holders, Grantings
<1> QED BY <1>3, <1>4

\* The empty ledger maps to the initial authority.
LEMMA AuthorityInit ==
  ASSUME Init
  PROVE  Authority!Init
BY DEF Init, LedgerInit, Authority!Init, Gated, Started

\* Rows and gates that stay keep the grants they stand for.
LEMMA GrantingsKept ==
  ASSUME LedgerTypeOK, \A a \in Attempts : AttemptKnows(a), RowsKept, GatesKept
  PROVE  Grantings' = Grantings
<1>1. \A a \in Attempts : Gated(a) => attempts'[a].job = attempts[a].job
  BY DEF AttemptKnows, RowsKept
<1> QED BY <1>1 DEF Grantings, GatesKept

\* A receipt that moves is bound once, to a gate, or keeps its binding.
LEMMA BoundStep ==
  ASSUME LedgerTypeOK, ReceiptsMove
  PROVE  \/ Bound' = Bound
         \/ \E r \in Receipts, a \in Attempts :
              /\ Gated(a) /\ Bound[r] = None
              /\ Bound' = [Bound EXCEPT ![r] = a]
<1>1. CASE UNCHANGED receipts
  BY <1>1 DEF Bound
<1>2. ASSUME NEW r \in Receipts, NEW a \in Attempts, Admits(r, a)
      PROVE  \/ Bound' = Bound
             \/ Gated(a) /\ Bound[r] = None /\ Bound' = [Bound EXCEPT ![r] = a]
  BY <1>2 DEF Admits, Bindable, Bound
<1>3. ASSUME NEW r \in Receipts, NEW j \in Jobs, Notes(r, j) PROVE Bound' = Bound
  BY <1>3 DEF Notes, Bound
<1> QED BY <1>1, <1>2, <1>3 DEF ReceiptsMove

\* Every step maps to a grant, a latch, a binding or a stutter of the authority.
LEMMA AuthorityStep ==
  ASSUME SubmissionInvariant, LedgerAssumption, LedgerFinite, WorkersAssumption,
         HostAssumption, [Next]_system
  PROVE  [Authority!Next]_(Authority!authority)
<1>0. /\ LedgerTypeOK
      /\ \A a \in Attempts : AttemptKnows(a)
      /\ \A b \in Batches : Authority!Granted(b) = Used(b)
      /\ Authority!Holders = {a \in Attempts : Gated(a)}
  BY AuthorityReads DEF SubmissionInvariant, SystemTypeOK
<1>1. CASE Quiet
  <2>1. Grantings' = Grantings
    BY <1>0, <1>1, GrantingsKept DEF Quiet
  <2>2. Latched' = Latched
    BY <1>1 DEF Quiet, LatchesKept, Latched
  <2>3. CASE Bound' = Bound
    BY <2>1, <2>2, <2>3 DEF Authority!authority, Grantings, Latched, Bound
  <2>4. ASSUME NEW r \in Receipts, NEW a \in Attempts, Gated(a), Bound[r] = None,
               Bound' = [Bound EXCEPT ![r] = a]
        PROVE  Authority!Bind(r, a)
    BY <1>0, <2>1, <2>2, <2>4 DEF Authority!Bind, Grantings, Latched, Bound
  <2> QED BY <1>0, <1>1, <2>3, <2>4, BoundStep DEF Quiet, Authority!Next
<1>2. ASSUME NEW a \in Attempts, NEW b \in Batches, RowsKept, LatchesKept, Grants(a, b)
      PROVE  Authority!Grant(a, attempts[a].job, b) /\ attempts[a].job \in Jobs
  <2> DEFINE j == attempts[a].job
  <2>1. /\ j \in Jobs /\ ~Gated(a) /\ ~Reserved(b, j) /\ ~BatchFull(b)
        /\ attempts[a].status # "free" /\ attempts'[a].job = j
    BY <1>0, <1>2 DEF Grants, AttemptKnows, RowsKept
  <2>2. Grantings' = Grantings \cup {<<a, j, b>>}
    <3>1. \A c \in Attempts : Gated(c)' <=> (c = a \/ Gated(c))
      BY <1>0, <1>2 DEF Grants, Gated
    <3>2. \A c \in Attempts : Gated(c) =>
            /\ attempts'[c].job = attempts[c].job
            /\ gates'[c].batch = gates[c].batch
      BY <1>0, <1>2, <2>1 DEF Grants, AttemptKnows, RowsKept
    <3>3. gates'[a].batch = b
      BY <1>0, <1>2 DEF Grants
    <3> QED BY <2>1, <3>1, <3>2, <3>3 DEF Grantings
  <2>3. Latched' = Latched /\ Bound' = Bound
    BY <1>2 DEF LatchesKept, Latched, Grants, Bound
  <2>4. Cardinality(Used(b)) < MaxSubmissions
    <3>1. Cardinality(Used(b)) \in Nat
      BY FS_Subset, FS_CardinalityType DEF LedgerFinite, Used
    <3> QED BY <2>1, <3>1 DEF BatchFull, LedgerAssumption
  <2>5. a \notin Authority!Holders /\ j \notin Authority!Granted(b)
    BY <1>0, <2>1 DEF Used
  <2>6. Authority!Cardinality(Authority!Granted(b)) < MaxSubmissions
    <3>1. Authority!Cardinality(Used(b)) = Cardinality(Used(b))
      BY DEF Authority!Cardinality, Cardinality
    <3> QED BY <1>0, <2>4, <3>1
  <2> QED BY <2>1, <2>2, <2>3, <2>5, <2>6 DEF Authority!Grant, Grantings, Latched, Bound
<1>3. ASSUME NEW a \in Attempts, Gated(a), RowsKept, GatesKept, UNCHANGED receipts,
             LatchesOnly(a), attempts'[a].started
      PROVE  Authority!Latch(a) \/ UNCHANGED Authority!authority
  <2>1. Grantings' = Grantings /\ Bound' = Bound
    BY <1>0, <1>3, GrantingsKept DEF Bound
  <2>2. Latched' = Latched \cup {a}
    BY <1>3 DEF LatchesOnly, Latched, Started
  <2>3. CASE Started(a)
    <3>1. Latched' = Latched
      BY <2>2, <2>3 DEF Latched
    <3> QED BY <2>1, <3>1 DEF Authority!authority, Grantings, Latched, Bound
  <2>4. CASE ~Started(a)
    BY <1>0, <1>3, <2>1, <2>2, <2>4 DEF Authority!Latch, Grantings, Latched, Bound
  <2> QED BY <2>3, <2>4
<1> QED BY <1>1, <1>2, <1>3, StepShape DEF Authority!Next

\* The whole system - every worker, the attended host, the operator, the clock and
\* every crash - implements the authority: granted once per (batch, job), within the
\* batch's limit, never revoked, latched once, its receipts bound for good.
THEOREM AuthorityImplemented == Spec => ImplementsAuthority
<1>1. Init => Authority!Init
  BY AuthorityInit
<1>2. SubmissionInvariant /\ [Next]_system => [Authority!Next]_(Authority!authority)
  BY LedgerAssumption, LedgerFinite, WorkersAssumption, HostAssumption, AuthorityStep
<1> QED BY <1>1, <1>2, InvariantHolds, PTL DEF Spec, ImplementsAuthority, Authority!Spec
=============================================================================
