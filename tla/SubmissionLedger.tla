-------------------------- MODULE SubmissionLedger --------------------------
(***************************************************************************)
(* The durable application ledger: the SQLite rows that decide who may     *)
(* apply to a job, who may press Submit, and what is known afterwards.     *)
(* One variable per table.  Every operator below that primes a variable is *)
(* one write transaction of storage/application_ledger.py,                 *)
(* storage/submission_receipts.py, apply/job_results.py or                 *)
(* apply/job_acquisition.py; the actors that call them are in              *)
(* SubmissionWorkers and AttendedHost.                                     *)
(*                                                                         *)
(* Not represented: evidence JSON, timing metrics, risk events (written    *)
(* beside an outcome and read by no guard here), apply_attempts (an        *)
(* admission filter: leaving it out only admits more retries).             *)
(*                                                                         *)
(* An operator marked "Mutant of D" is D with a plausible mistake; nothing *)
(* refers to it, and putting it in D's place must break a property.        *)
(***************************************************************************)
EXTENDS Integers, FiniteSets

CONSTANTS
  Jobs,            \* canonical job URLs
  Attempts,        \* attempt ids; each is used once (uuid4)
  Batches,         \* authorization manifests
  Receipts,        \* receipt identities (source, id) with one evidence digest
  Posting,         \* Posting[j]: the employer posting behind j (canonical URL, platform id)
  None,            \* SQL NULL
  MaxSubmissions,  \* manifest["max_submissions"]
  SuccessTarget,   \* the run's success target, or None
  Lease,           \* attempt lease duration
  Hour,            \* the rolling window of the submission cap
  HourlyMax,       \* maximum submissions per rolling window; 0 disables it
  Gap,             \* minimum time between two claims
  MaxTime          \* bound on the modelled clock

ASSUME LedgerAssumption ==
  /\ None \notin Jobs \cup Attempts \cup Batches
  /\ Posting \in [Jobs -> Jobs]
  /\ MaxSubmissions \in Nat \ {0}
  /\ SuccessTarget \in (Nat \ {0}) \cup {None}
  /\ Lease \in Nat \ {0}
  /\ Hour \in Nat \ {0}
  /\ HourlyMax \in Nat
  /\ Gap \in Nat
  /\ MaxTime \in Nat

\* The sets are finite tables.  Stated apart because only cardinality needs it.
ASSUME LedgerFinite ==
  /\ IsFiniteSet(Jobs)
  /\ IsFiniteSet(Attempts)

VARIABLES
  now,       \* the clock, in abstract ticks
  jobs,      \* table jobs: apply_status, apply_task_id, apply_retry_blocked, applied_at
  attempts,  \* table application_attempts
  gates,     \* table application_submission_gates, keyed by its UNIQUE attempt_id
  uses,      \* table application_batch_consumptions, keyed by (batch, job)
  receipts   \* tables application_receipts and application_receipt_gate_bindings

ledger == <<now, jobs, attempts, gates, uses, receipts>>

-----------------------------------------------------------------------------
(* Rows *)

\* "none" is SQL NULL; the statuses that no guard tells apart from "manual"
\* (skipped, manual) are represented by "manual".
JobStatus == {"none", "in_progress", "applying", "applied", "failed",
              "previewed", "submission_uncertain", "already_applied", "manual"}

JobRow == [status: JobStatus, task: Attempts \cup {None}, blocked: BOOLEAN,
           applied: Nat \cup {None}]

\* The phases only the reservation is told apart from stand for the others
\* (human_wait, route_handoff, manual_verification, prepared).
Phase == {"prepare", "reservation", "submit"}

\* "free" is an attempt id not yet drawn.
AttemptStatus == {"free", "in_progress", "applied", "submission_uncertain",
                  "failed", "previewed", "already_applied", "manual",
                  "released", "abandoned_pre_submit"}

AttemptRow == [job: Jobs \cup {None}, batch: Batches \cup {None},
               phase: Phase, started: BOOLEAN,
               status: AttemptStatus, lease: Nat]

Outcome == {"submission_uncertain", "applied", "already_applied", "failed"}

GateState == Outcome \cup {"none", "claimed", "cancelled_before_action"}

GateRow == [state: GateState, batch: Batches \cup {None}, at: Nat]

UseStatus == Outcome \cup {"none", "reserved"}

\* gate is the attempt whose gate the receipt is bound to.
ReceiptRow == [job: Jobs \cup {None}, gate: Attempts \cup {None}]

LedgerTypeOK ==
  /\ now \in Nat
  /\ jobs \in [Jobs -> JobRow]
  /\ attempts \in [Attempts -> AttemptRow]
  /\ gates \in [Attempts -> GateRow]
  /\ uses \in [Batches -> [Jobs -> UseStatus]]
  /\ receipts \in [Receipts -> ReceiptRow]

LedgerInit ==
  /\ now = 0
  /\ jobs = [j \in Jobs |->
       [status |-> "none", task |-> None, blocked |-> FALSE, applied |-> None]]
  /\ attempts = [a \in Attempts |->
       [job |-> None, batch |-> None, phase |-> "prepare", started |-> FALSE,
        status |-> "free", lease |-> 0]]
  /\ gates = [a \in Attempts |-> [state |-> "none", batch |-> None, at |-> 0]]
  /\ uses = [b \in Batches |-> [j \in Jobs |-> "none"]]
  /\ receipts = [r \in Receipts |-> [job |-> None, gate |-> None]]

-----------------------------------------------------------------------------
(* Reads *)

Live(a) == attempts[a].status = "in_progress" /\ attempts[a].lease > now

Expired(a) == attempts[a].status = "in_progress" /\ attempts[a].lease <= now

Gated(a) == gates[a].state # "none"

Reserved(b, j) == uses[b][j] # "none"

Used(b) == {j \in Jobs : Reserved(b, j)}

\* Mutant of BatchFull: off by one.
BatchOverfull(b) == Cardinality(Used(b)) > MaxSubmissions

BatchFull(b) == Cardinality(Used(b)) >= MaxSubmissions

HasReceipt(j) == \E r \in Receipts : receipts[r].job = j

\* has_admitted_submission_receipt: a receipt bound to this exact gate.
BoundReceipt(a) == Gated(a) /\ \E r \in Receipts : receipts[r].gate = a

\* Mutant of Claimable: "applying" is not thought of.
ClaimableWhenApplying(row) ==
  row.status \in {"none", "failed", "previewed", "applying"} /\ ~row.blocked

\* select_candidates with the retry block that admission evaluates.
Claimable(row) == row.status \in {"none", "failed", "previewed"} /\ ~row.blocked

\* revalidate_duplicate_before_submit: no URL of the posting is submitted,
\* uncertain, or has a receipt.  An application in flight is none of these.
DuplicateClear(j) ==
  \A k \in Jobs : Posting[k] = Posting[j] =>
    jobs[k].status \notin {"applied", "submission_uncertain"} /\ ~HasReceipt(k)

\* Distinct jobs of the batch with an admitted, bound receipt and both rows applied.
ConfirmedSuccesses(b) ==
  {j \in Jobs : /\ uses[b][j] = "applied"
                /\ \E a \in Attempts : /\ attempts[a].job = j
                                       /\ gates[a].batch = b
                                       /\ gates[a].state = "applied"
                                       /\ BoundReceipt(a)}

\* Gates and applications recorded elsewhere that count against the rate limits.
RecentGates ==
  {a \in Attempts : /\ gates[a].state \notin {"none", "cancelled_before_action"}
                    /\ gates[a].at >= now - Hour}

RecentElsewhere ==
  {j \in Jobs : /\ jobs[j].applied # None
                /\ jobs[j].applied >= now - Hour
                /\ \A a \in RecentGates : attempts[a].job # j}

\* Mutant of HourlyCapReached: off by one.
HourlyCapPassed ==
  HourlyMax > 0 /\ Cardinality(RecentGates) + Cardinality(RecentElsewhere) > HourlyMax

HourlyCapReached ==
  HourlyMax > 0 /\ Cardinality(RecentGates) + Cardinality(RecentElsewhere) >= HourlyMax

\* Mutant of GapOpen: only applications that were recorded are looked at.
GapOpenElsewhere == \A j \in RecentElsewhere : now - jobs[j].applied >= Gap

GapOpen ==
  /\ \A a \in RecentGates : now - gates[a].at >= Gap
  /\ \A j \in RecentElsewhere : now - jobs[j].applied >= Gap

\* Mutant of WriterBusy: the lease is compared the wrong way round.
WriterBusyExpired(a) ==
  \E c \in Attempts \ {a} : gates[c].state = "claimed" /\ Expired(c)

WriterBusy(a) ==
  \E c \in Attempts \ {a} : gates[c].state = "claimed" /\ Live(c)

-----------------------------------------------------------------------------
(* Attempt rows *)

\* acquire_job's claim and the attended begin: insert the attempt, take the job.
StartAttempt(a, j, b) ==
  /\ attempts[a].status = "free"
  /\ attempts' = [attempts EXCEPT ![a] =
       [job |-> j, batch |-> b, phase |-> "prepare", started |-> FALSE,
        status |-> "in_progress", lease |-> now + Lease]]
  /\ jobs' = [jobs EXCEPT ![j] = [@ EXCEPT !.status = "in_progress", !.task = a]]
  /\ UNCHANGED <<now, gates, uses, receipts>>

\* Mutant of RenewAttempt: an expired lease is renewed.
RenewInProgress(a, phase, started) ==
  /\ attempts[a].status = "in_progress"
  /\ attempts' = [attempts EXCEPT ![a] =
       [@ EXCEPT !.phase = phase, !.started = started, !.lease = now + Lease]]
  /\ UNCHANGED <<now, jobs, gates, uses, receipts>>

\* Mutant of RenewAttempt: any row is renewed.
RenewAnyRow(a, phase, started) ==
  /\ attempts' = [attempts EXCEPT ![a] =
       [@ EXCEPT !.phase = phase, !.started = started, !.lease = now + Lease]]
  /\ UNCHANGED <<now, jobs, gates, uses, receipts>>

\* update_attempt: renew the lease of an attempt that still holds it.
RenewAttempt(a, phase, started) ==
  /\ Live(a)
  /\ attempts' = [attempts EXCEPT ![a] =
       [@ EXCEPT !.phase = phase, !.started = started, !.lease = now + Lease]]
  /\ UNCHANGED <<now, jobs, gates, uses, receipts>>

\* Mutant of Finalized: a terminal row is overwritten.
FinalizedAgain(a, status) == [attempts EXCEPT ![a].status = status]

\* finalize_attempt: a no-op on a row that is not in progress.
Finalized(a, status) ==
  IF attempts[a].status = "in_progress"
    THEN [attempts EXCEPT ![a].status = status]
    ELSE attempts

\* The WHERE clause of mark_result with a task id.
OwnsJob(a) == LET j == attempts[a].job IN Live(a) /\ jobs[j].task = a

\* mark_result for the current attempt of a job.
MarkResult(a, status, permanent) ==
  /\ OwnsJob(a)
  /\ jobs' = [jobs EXCEPT ![attempts[a].job] =
       [status  |-> status,
        task    |-> a,
        blocked |-> CASE status = "submission_uncertain" -> TRUE
                      [] status \in {"applied", "previewed"} -> FALSE
                      [] OTHER -> permanent,
        applied |-> CASE status = "applied" -> now
                      [] status \in {"submission_uncertain", "previewed"} -> None
                      [] OTHER -> @.applied]]
  /\ attempts' = Finalized(a, status)
  /\ UNCHANGED <<now, gates, uses, receipts>>

\* release_lock: give the job back, whatever the lease says.
ReleaseLock(a) ==
  LET j == attempts[a].job
      held == jobs[j].status = "in_progress" /\ jobs[j].task = a
  IN /\ jobs' = IF held THEN [jobs EXCEPT ![j].status = "none"] ELSE jobs
     /\ attempts' = IF held THEN Finalized(a, "released") ELSE attempts
     /\ UNCHANGED <<now, gates, uses, receipts>>

\* Mutant of RestorePreview: whoever holds the job now.
RestoreAnyway(a, row) ==
  LET j == attempts[a].job
  IN /\ jobs' = [jobs EXCEPT ![j] = [row EXCEPT !.applied = jobs[j].applied]]
     /\ attempts' = Finalized(a, "previewed")
     /\ UNCHANGED <<now, gates, uses, receipts>>

\* restore_preview_state: write back the row captured before the dry run.
RestorePreview(a, row) ==
  LET j == attempts[a].job
      held == jobs[j].task = a
  IN /\ jobs' = IF held THEN [jobs EXCEPT ![j] = [row EXCEPT !.applied = jobs[j].applied]]
                         ELSE jobs
     /\ attempts' = IF held THEN Finalized(a, "previewed") ELSE attempts
     /\ UNCHANGED <<now, gates, uses, receipts>>

\* Mutant of Recovered: the latch is not looked at.
RecoveredAsFailed(row, started) == [row EXCEPT !.status = "failed", !.blocked = FALSE]

\* Mutant of Recovered: the attempt's status is written to the job.
RecoveredAsAttempt(row, started) ==
  [row EXCEPT !.status = IF started THEN "submission_uncertain" ELSE "abandoned_pre_submit"]

\* Mutant of Recovered: only the attempt is recovered.
RecoveredAttemptOnly(row, started) == row

\* The job row recovery leaves behind an expired attempt.
Recovered(row, started) ==
  IF started
    THEN [row EXCEPT !.status = "submission_uncertain", !.blocked = TRUE, !.applied = None]
    ELSE [row EXCEPT !.status = "failed", !.blocked = FALSE]

\* recover_stale_attempts, one transaction over every expired attempt.  The job
\* row is found by URL alone; with several expired attempts of one job the first
\* that is scanned decides it, in no particular order.
RecoverStale ==
  /\ \E first \in [Jobs -> Attempts] :
       /\ \A j \in Jobs :
            (\E a \in Attempts : Expired(a) /\ attempts[a].job = j)
              => Expired(first[j]) /\ attempts[first[j]].job = j
       /\ jobs' = [j \in Jobs |->
            IF /\ jobs[j].status = "in_progress"
               /\ \E a \in Attempts : Expired(a) /\ attempts[a].job = j
              THEN Recovered(jobs[j], attempts[first[j]].started)
              ELSE jobs[j]]
  /\ attempts' = [a \in Attempts |->
       IF Expired(a)
         THEN [attempts[a] EXCEPT !.status =
                 IF attempts[a].started THEN "submission_uncertain"
                                        ELSE "abandoned_pre_submit"]
         ELSE attempts[a]]
  /\ UNCHANGED <<now, gates, uses, receipts>>

-----------------------------------------------------------------------------
(* The submission gate *)

\* claim_submission_gate first wants the attempt in its reservation, under lease.
GateReady(a, j) ==
  /\ attempts[a].job = j
  /\ attempts[a].phase = "reservation"
  /\ ~attempts[a].started
  /\ Live(a)

\* ... then decides in this order; "none" means claimed.
Refusal(a, j, b, target) ==
  IF target # None /\ Cardinality(ConfirmedSuccesses(b)) >= target
    THEN "run_success_target_reached"
  ELSE IF Reserved(b, j) THEN "job_already_reserved"
  ELSE IF BatchFull(b)
    THEN "authorization_batch_capacity_exhausted"
  ELSE IF HourlyCapReached THEN "rolling_hour_submission_cap"
  ELSE IF ~GapOpen THEN "minimum_submission_gap"
  ELSE IF WriterBusy(a) THEN "submit_writer_busy"
  ELSE "none"

\* One transaction: the duplicate recheck and the gate, both or neither.
ClaimGate(a, j, b, target) ==
  /\ ~Gated(a)
  /\ DuplicateClear(j)
  /\ GateReady(a, j)
  /\ Refusal(a, j, b, target) = "none"
  /\ uses' = [uses EXCEPT ![b][j] = "reserved"]
  /\ gates' = [gates EXCEPT ![a] = [state |-> "claimed", batch |-> b, at |-> now]]
  /\ UNCHANGED <<now, jobs, attempts, receipts>>

\* Mutant of UpdateUse: a failed submission gives its slot back.
FreeUse(b, j, status) ==
  /\ Reserved(b, j)
  /\ uses' = [uses EXCEPT ![b][j] = IF status = "failed" THEN "none" ELSE status]
  /\ UNCHANGED <<now, jobs, attempts, gates, receipts>>

\* update_batch_submission_status.
UpdateUse(b, j, status) ==
  /\ Reserved(b, j)
  /\ uses' = [uses EXCEPT ![b][j] = status]
  /\ UNCHANGED <<now, jobs, attempts, gates, receipts>>

\* update_submission_gate_state: whatever the gate's state was.
UpdateGate(a, state) ==
  /\ Gated(a)
  /\ gates' = [gates EXCEPT ![a].state = state]
  /\ UNCHANGED <<now, jobs, attempts, uses, receipts>>

-----------------------------------------------------------------------------
(* Receipts *)

\* Mutant of Bindable: a receipt bound to another gate is bound again.
Rebindable(r, a) == Gated(a) /\ receipts[r].job \in {None, attempts[a].job}

\* bind_admitted_receipt_to_gate: a receipt of this job, bound here or nowhere.
Bindable(r, a) ==
  /\ Gated(a)
  /\ receipts[r].job \in {None, attempts[a].job}
  /\ receipts[r].gate \in {None, a}

\* admit_direct_email_sent_receipt with a gate binding.
AdmitEmail(r, a) ==
  /\ Bindable(r, a)
  /\ receipts' = [receipts EXCEPT ![r] = [job |-> attempts[a].job, gate |-> a]]
  /\ UNCHANGED <<now, jobs, attempts, gates, uses>>

\* The job statuses reconcile_submission_receipt admits; "applying" needs a gate.
\* The status read before the transaction only narrows what the locked row admits.
Reconcilable(status, a) ==
  \/ status \in {"applied", "submission_uncertain", "none", "failed", "previewed"}
  \/ status = "applying" /\ a # None

\* mark_bound_submission_receipt_applied: both rows uncertain, or both applied.
Closable(G, U, a, j) ==
  LET use == U[G[a].batch][j]
  IN G[a].state = use /\ use \in {"submission_uncertain", "applied"}

\* reconcile_submission_receipt on tables J, G and U of the enclosing transaction;
\* a is the attempt whose gate the evidence names, or None.
ReconcileOn(J, G, U, r, j, a) ==
  /\ Reconcilable(J[j].status, a)
  /\ receipts[r].job \in {None, j}
  /\ a # None => attempts[a].job = j /\ Bindable(r, a) /\ Closable(G, U, a, j)
  /\ receipts' = [receipts EXCEPT ![r] =
       [job |-> j, gate |-> IF a = None THEN @.gate ELSE a]]
  /\ gates' = IF a = None THEN G ELSE [G EXCEPT ![a].state = "applied"]
  /\ uses' = IF a = None THEN U ELSE [U EXCEPT ![G[a].batch][j] = "applied"]
  /\ jobs' = IF J[j].status = "applied" THEN J
             ELSE [J EXCEPT ![j] =
               [@ EXCEPT !.status = "applied", !.blocked = FALSE,
                         !.applied = IF J[j].applied = None THEN now ELSE J[j].applied]]

Reconcile(r, j, a) ==
  /\ ReconcileOn(jobs, gates, uses, r, j, a)
  /\ UNCHANGED <<now, attempts>>

-----------------------------------------------------------------------------
(* The operator's commands *)

\* mark_job: --mark-applied, --mark-failed.
MarkJob(j, status) ==
  /\ jobs' = [jobs EXCEPT ![j] =
       [@ EXCEPT !.status = status, !.blocked = (status = "failed"),
                 !.applied = IF status = "applied" THEN now ELSE jobs[j].applied]]
  /\ UNCHANGED <<now, attempts, gates, uses, receipts>>

\* reset_failed over the selected jobs.
ResetFailed(scope) ==
  /\ jobs' = [j \in Jobs |->
       IF /\ j \in scope
          /\ jobs[j].status \notin {"none", "applied", "in_progress", "submission_uncertain"}
         THEN [jobs[j] EXCEPT !.status = "none", !.blocked = FALSE]
         ELSE jobs[j]]
  /\ UNCHANGED <<now, attempts, gates, uses, receipts>>

\* _record_candidate_block of a portal that must be handled by hand.
BlockCandidate(j) ==
  /\ jobs' = [jobs EXCEPT ![j].status = "manual"]
  /\ UNCHANGED <<now, attempts, gates, uses, receipts>>

Tick ==
  /\ now < MaxTime
  /\ now' = now + 1
  /\ UNCHANGED <<jobs, attempts, gates, uses, receipts>>
=============================================================================
