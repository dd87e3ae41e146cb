-------------------------- MODULE ApplicationSystem --------------------------
(***************************************************************************)
(* Everything that acts on the durable ledger: the worker threads, the     *)
(* attended host, and the operator's commands (mark_job, reset_failed and  *)
(* the reconciliation of a receipt, by the CLI or a receipt observer).     *)
(***************************************************************************)
EXTENDS SubmissionWorkers, AttendedHost

CONSTANT
  Commands   \* the operator commands a run allows

ASSUME SystemAssumption ==
  Commands \subseteq {"mark_applied", "mark_failed", "reset", "reconcile"}

system == <<now, jobs, attempts, gates, uses, receipts, worker, host>>

SystemTypeOK == LedgerTypeOK /\ WorkerTypeOK /\ HostTypeOK

Init == LedgerInit /\ WorkerInit /\ HostInit

Mark ==
  \E j \in Jobs :
    \/ "mark_applied" \in Commands /\ MarkJob(j, "applied")
    \/ "mark_failed" \in Commands /\ MarkJob(j, "failed")

Reset ==
  /\ "reset" \in Commands
  /\ \E scope \in {Jobs} \cup {{j} : j \in Jobs} : ResetFailed(scope)

ReconcileReceipt ==
  /\ "reconcile" \in Commands
  /\ \E r \in Receipts, j \in Jobs, a \in Attempts \cup {None} : Reconcile(r, j, a)

Operator == Mark \/ Reset \/ ReconcileReceipt

Next ==
  \/ \E w \in Workers : WorkerStep(w) /\ UNCHANGED host
  \/ \E a \in Attempts : HostStep(a) /\ UNCHANGED worker
  \/ Operator /\ UNCHANGED <<worker, host>>
  \/ TurnTick /\ UNCHANGED host

Spec == Init /\ [][Next]_system

\* A worker that can step does: its loop runs until it is interrupted, and a process
\* that dies is started again.  A crash is one of its steps, so fairness does not
\* promise that an application succeeds.  Neither the host nor the operator is fair.
FairSpec == Spec /\ \A w \in Workers : WF_system(WorkerStep(w) /\ UNCHANGED host)

-----------------------------------------------------------------------------
(* Properties *)

Started(a) == attempts[a].started

\* The gate table and the consumption table agree: a batch has consumed exactly
\* the jobs it holds a gate for, and holds one gate for each of them, although the
\* two rows are written by separate statements and updated in separate
\* transactions (claim_submission_gate, update_submission_ledger).
GatesMatchUses ==
  /\ \A b \in Batches : Used(b) =
       {j \in Jobs : \E a \in Attempts :
          Gated(a) /\ gates[a].batch = b /\ attempts[a].job = j}
  /\ \A a, c \in Attempts :
       /\ Gated(a) /\ Gated(c)
       /\ gates[a].batch = gates[c].batch
       /\ attempts[a].job = attempts[c].job
       => a = c

\* A manifest never consumes more jobs than it may submit, whatever crashes, retries
\* and cancellations happen: slots are never given back (reserve is permanent).
BatchCapacity == \A b \in Batches : Cardinality(Used(b)) <= MaxSubmissions

\* The durable latch follows the gate: no attempt records that Submit began without
\* holding a gate of its own for its job, not even after leases expired in between.
LatchNeedsGate == \A a \in Attempts : Started(a) => Gated(a)

\* At most one attempt may be writing: two claimed gates never both have a live
\* lease, because a lease that expired cannot be renewed (update_attempt).
SingleWriter ==
  \A a, c \in Attempts :
    /\ gates[a].state = "claimed" /\ Live(a)
    /\ gates[c].state = "claimed" /\ Live(c)
    => a = c

\* ... so no two workers are ever inside a Submit turn together, in one process or
\* in several, given that a turn ends before the lease it runs under.
OneSubmitter == \A v, w \in Workers : At(v, "submitting") /\ At(w, "submitting") => v = w

\* A gate is applied only on the strength of a receipt bound to that very gate; the
\* receipt check and the update are separate steps (has_admitted_submission_receipt).
AppliedIsReceipted ==
  \A a \in Attempts : gates[a].state = "applied" => BoundReceipt(a)

\* A receipt is bound to a gate of its own job, and stays with that job and gate.
ReceiptOwner ==
  \A r \in Receipts : receipts[r].gate # None =>
    Gated(receipts[r].gate) /\ attempts[receipts[r].gate].job = receipts[r].job

\* The rolling cap: within any Hour at most HourlyMax claims that were not cancelled
\* before acting, although gates change state after they were counted.
RollingCap == HourlyMax > 0 => Cardinality(RecentGates) <= HourlyMax

\* Claims that count are Gap apart, although only the last Hour is looked at and a
\* cancelled claim stops counting after others were refused because of it.
ClaimsSpaced ==
  Gap <= Hour =>
    \A a, c \in Attempts :
      /\ a # c
      /\ gates[a].state \notin {"none", "cancelled_before_action"}
      /\ gates[c].state \notin {"none", "cancelled_before_action"}
      => gates[a].at - gates[c].at >= Gap \/ gates[c].at - gates[a].at >= Gap

\* Jobs of the batch that count as successes through an attempt that kept its lease
\* until the outcome was recorded.
TimelySuccesses(b) ==
  {j \in ConfirmedSuccesses(b) :
     \E a \in Attempts : /\ attempts[a].job = j
                         /\ gates[a].batch = b
                         /\ attempts[a].status = "applied" \/ Live(a)}

\* A run does not overshoot its success target: the target is tested in the gate's
\* transaction and one writer holds the gate, so two applications that are both one
\* success away are not both let through.  Only an attempt that outlived its lease,
\* or a late receipt for an uncertain one, can add to it.  The host gives no target.
TargetNotExceeded ==
  SuccessTarget # None =>
    \A b \in Batches \ {HostBatch} : Cardinality(TimelySuccesses(b)) <= SuccessTarget

\* A job has one attempt in progress at a time: the one its row points at, and the
\* row is not offered to anyone else meanwhile.
OneAttemptPerJob ==
  \A a \in Attempts : attempts[a].status = "in_progress" =>
    LET row == jobs[attempts[a].job]
    IN row.task = a /\ ~Claimable(row)

\* After Submit began a job is not offered for another attempt, unless the site
\* refused the submission: not by recovery, a release, an error path or a restart.
NoRetryAfterSubmit ==
  \A a \in Attempts : Started(a) /\ attempts[a].status # "failed" =>
    ~Claimable(jobs[attempts[a].job])

\* Two attempts never both press Submit for one posting, unless the site refused
\* the first.
NoSecondSubmission ==
  \A a, c \in Attempts :
    /\ a # c
    /\ Started(a) /\ attempts[a].status # "failed"
    /\ Started(c) /\ attempts[c].status # "failed"
    => Posting[attempts[a].job] # Posting[attempts[c].job]

\* Recovery never frees a job whose current attempt has begun to submit
\* (recover_stale_attempts: "preserving uncertainty after submit began").
RecoveryKeepsSubmit ==
  [][ \A j \in Jobs, a \in Attempts :
        /\ jobs[j].status = "in_progress"
        /\ jobs[j].task = a
        /\ Started(a) /\ Live(a) /\ Live(a)'
        => ~Claimable(jobs'[j]) ]_system

\* An attempt's story only moves forward: a terminal row stays as it was, the latch
\* is not undone, and a drawn id is never drawn again.
AttemptsMoveForward ==
  [][ \A a \in Attempts :
        /\ attempts[a].status \notin {"free", "in_progress"} => attempts'[a] = attempts[a]
        /\ attempts[a].started => attempts'[a].started
        /\ attempts[a].status # "free" => attempts'[a].job = attempts[a].job ]_system

\* A submission that a crash left uncertain can be closed by a receipt that names
\* its gate (reconcile_submission_receipt: "upgrade an uncertain submission").
UncertainIsClosable ==
  \A a \in Attempts :
    LET j == attempts[a].job
    IN /\ attempts[a].status = "submission_uncertain"
       /\ Started(a)
       /\ jobs[j].status = "submission_uncertain"
       /\ jobs[j].task = a
       => Closable(gates, uses, a, j)

\* A job whose attempt lost its lease does not stay in progress: a later acquire
\* recovers it, even when every worker may crash at every step.
JobsNeverStuck ==
  \A j \in Jobs :
    (jobs[j].status = "in_progress" /\ \E a \in Attempts : jobs[j].task = a /\ Expired(a))
      ~> jobs[j].status # "in_progress"

\* A receipt's verdict stands: a job that a receipt proved applied is not turned back
\* by a worker that lost it (restore_preview_state, mark_result).
AppliedIsSticky ==
  [][ \A j \in Jobs : jobs[j].status = "applied" /\ HasReceipt(j)
        => jobs'[j].status = "applied" ]_system

Authority == INSTANCE SubmissionAuthority WITH
  grants <- {<<a, attempts[a].job, gates[a].batch>> : a \in {c \in Attempts : Gated(c)}},
  latched <- {a \in Attempts : Started(a)},
  bound <- [r \in Receipts |-> receipts[r].gate]

\* The whole system, with every actor and command, implements the authority.
ImplementsAuthority == Authority!Spec
=============================================================================
