-------------------------- MODULE SubmissionWorkers --------------------------
(***************************************************************************)
(* Worker threads applying to jobs through the durable ledger: acquire,    *)
(* prepare, reserve the submission gate, run the one Submit-capable turn,  *)
(* write the outcome back (apply/worker_orchestration.py with              *)
(* apply/job_acquisition.py and apply/submission_authority.py).            *)
(*                                                                         *)
(* A worker's local variables are a record; each action is one ledger      *)
(* transaction or one browser turn, so every other actor may run between   *)
(* two of them, and the process may die between any two.  An idle worker   *)
(* stands for its next loop or for a later run: the set of URLs a run has  *)
(* attempted, which only narrows what it selects, is not kept.             *)
(***************************************************************************)
EXTENDS SubmissionLedger

CONSTANTS
  Workers,
  Run,        \* Run[w]: the process of w; its threads share one submit lane
  BatchOf,    \* BatchOf[w]: the authorization manifest w runs under
  DryRun      \* the workers that only preview

ASSUME WorkersAssumption ==
  /\ Run \in [Workers -> Workers]
  /\ BatchOf \in [Workers -> Batches]
  /\ DryRun \subseteq Workers

VARIABLE worker

Pc == {"idle", "scan", "candidate", "prepare", "waiting", "reserve", "reserve_again",
       "reserved", "submitting", "observing", "confirm", "decide", "observed_use",
       "observed_gate", "use", "gate", "mark", "error_use", "error_gate", "error_mark", "release",
       "restore"}

\* The pcs at which the worker holds its run's submit lane; a worker that is
\* denied keeps the lane until its loop ends, here it frees it at once.
InLane == {"reserve", "reserve_again", "reserved", "submitting"}

\* The pcs of the launcher's try block that hold an attempt.
InTry == {"waiting", "reserve", "reserve_again", "reserved", "submitting", "observing",
          "confirm", "decide", "observed_use", "observed_gate", "use", "gate", "mark"}

Result == Outcome \cup {"none"}

WorkerRow == [pc: Pc, att: Attempts \cup {None}, job: Jobs \cup {None},
              row: JobRow \cup {None}, result: Result, started: BOOLEAN]

WorkerTypeOK == worker \in [Workers -> WorkerRow]

Idle == [pc |-> "idle", att |-> None, job |-> None, row |-> None,
         result |-> "none", started |-> FALSE]

WorkerInit == worker = [w \in Workers |-> Idle]

-----------------------------------------------------------------------------

At(w, pc) == worker[w].pc = pc

Goto(w, pc) == worker' = [worker EXCEPT ![w].pc = pc]

GotoWith(w, pc, result) ==
  worker' = [worker EXCEPT ![w] = [@ EXCEPT !.pc = pc, !.result = result]]

Finish(w) == worker' = [worker EXCEPT ![w] = Idle]

LaneFree(w) == \A v \in Workers : Run[v] = Run[w] => worker[v].pc \notin InLane

Unconsumed(w, j) == w \in DryRun \/ ~Reserved(BatchOf[w], j)

-----------------------------------------------------------------------------
(* acquire_job *)

BeginAcquire(w) ==
  /\ At(w, "idle")
  /\ RecoverStale
  /\ Goto(w, "scan")

\* select_candidates: an advisory snapshot, outside any write transaction.
Select(w, j) ==
  /\ At(w, "scan")
  /\ Claimable(jobs[j])
  /\ Unconsumed(w, j)
  /\ worker' = [worker EXCEPT ![w] =
       [Idle EXCEPT !.pc = "candidate", !.job = j, !.row = jobs[j]]]
  /\ UNCHANGED ledger

SelectNothing(w) ==
  /\ At(w, "scan")
  /\ \A j \in Jobs : ~(Claimable(jobs[j]) /\ Unconsumed(w, j))
  /\ Finish(w)
  /\ UNCHANGED ledger

\* Mutant of StillCurrent: the row is not read again.
StillUnconsumed(w) == Unconsumed(w, worker[w].job)

\* The snapshot must still be the row, and the batch must not have used the job.
StillCurrent(w) ==
  /\ jobs[worker[w].job] = worker[w].row
  /\ Unconsumed(w, worker[w].job)

Claim(w, a) ==
  /\ At(w, "candidate")
  /\ StillCurrent(w)
  /\ StartAttempt(a, worker[w].job, BatchOf[w])
  /\ worker' = [worker EXCEPT ![w] =
       [@ EXCEPT !.pc = "prepare", !.att = a,
                 !.row = IF w \in DryRun THEN worker[w].row ELSE None]]

BlockPortal(w) ==
  /\ At(w, "candidate")
  /\ jobs[worker[w].job] = worker[w].row
  /\ BlockCandidate(worker[w].job)
  /\ Finish(w)

SkipCandidate(w) ==
  /\ At(w, "candidate")
  /\ ~StillCurrent(w)
  /\ Finish(w)
  /\ UNCHANGED ledger

-----------------------------------------------------------------------------
(* Preparation and the reservation *)

\* A bounded wait for the applicant (operator handoff, manual verification, a new
\* route) renews the lease: before Submit, or while its outcome is observed.
AwaitApplicant(w) ==
  /\ \/ At(w, "prepare") /\ RenewAttempt(worker[w].att, "prepare", FALSE)
     \/ At(w, "observing") /\ RenewAttempt(worker[w].att, "submit", TRUE)
  /\ UNCHANGED worker

\* The prepare turn ends without a reservation: deferred, skipped or interrupted,
\* or with an outcome; a turn that claims to have submitted is uncertain.
EndPrepare(w) ==
  /\ At(w, "prepare")
  /\ w \notin DryRun
  /\ \/ Goto(w, "release")
     \/ \E result \in Outcome \ {"applied"} : GotoWith(w, "mark", result)
  /\ UNCHANGED ledger

\* A dry run that previewed the form, or that ended in any other way.
EndPreview(w) ==
  /\ At(w, "prepare")
  /\ w \in DryRun
  /\ \/ OwnsJob(worker[w].att) /\ MarkResult(worker[w].att, "previewed", FALSE) /\ Finish(w)
     \/ Goto(w, "restore") /\ UNCHANGED ledger

Restore(w) ==
  /\ At(w, "restore")
  /\ RestorePreview(worker[w].att, worker[w].row)
  /\ Finish(w)

\* Take the lane and renew the lease for the reservation, once more after a wait.
EnterReservation(w) ==
  /\ w \notin DryRun
  /\ LaneFree(w)
  /\ \/ At(w, "prepare") /\ Live(worker[w].att) /\ Goto(w, "reserve")
     \/ At(w, "waiting") /\ Live(worker[w].att) /\ Goto(w, "reserve_again")
  /\ RenewAttempt(worker[w].att, "reservation", FALSE)

ReservationLeaseLost(w) ==
  /\ worker[w].pc \in {"prepare", "waiting"}
  /\ w \notin DryRun
  /\ ~Live(worker[w].att)
  /\ GotoWith(w, "mark", "failed")
  /\ UNCHANGED ledger

\* reserve_manifest_submission.
Reserve(w) ==
  /\ worker[w].pc \in {"reserve", "reserve_again"}
  /\ ClaimGate(worker[w].att, worker[w].job, BatchOf[w], SuccessTarget)
  /\ Goto(w, "reserved")

Deferrable == {"minimum_submission_gap", "rolling_hour_submission_cap",
               "submit_writer_busy"} \cup
              (IF SuccessTarget = None THEN {}
               ELSE {"run_success_target_reached", "authorization_batch_capacity_exhausted",
                     "job_already_reserved"})

\* A short refusal is waited out once; the others end this application.
Denied(w) ==
  LET a == worker[w].att
      j == worker[w].job
      reason == Refusal(a, j, BatchOf[w], SuccessTarget)
      held == DuplicateClear(j) /\ GateReady(a, j)
  IN /\ worker[w].pc \in {"reserve", "reserve_again"}
     /\ \/ ~held /\ GotoWith(w, "mark", "failed")
        \/ /\ held
           /\ reason # "none"
           /\ IF At(w, "reserve") /\ reason \in {"minimum_submission_gap", "submit_writer_busy"}
                THEN Goto(w, "waiting")
              ELSE IF reason \in Deferrable THEN Goto(w, "release")
              ELSE GotoWith(w, "mark", "failed")
     /\ UNCHANGED ledger

-----------------------------------------------------------------------------
(* The Submit turn *)

\* The durable latch, then the only turn that may press Submit.
StartSubmit(w) ==
  /\ At(w, "reserved")
  /\ RenewAttempt(worker[w].att, "submit", TRUE)
  /\ worker' = [worker EXCEPT ![w] = [@ EXCEPT !.pc = "submitting", !.started = TRUE]]

SubmitLeaseLost(w) ==
  /\ At(w, "reserved")
  /\ ~Live(worker[w].att)
  /\ GotoWith(w, "use", "submission_uncertain")
  /\ UNCHANGED ledger

\* The turn ends and the lane is free.
EndSubmit(w) ==
  /\ At(w, "submitting")
  /\ Goto(w, "observing")
  /\ UNCHANGED ledger

\* The turn and the observer agree on an outcome.  A web turn that ended
\* uncertain is written to the ledger once more, for the receipt observers.
Observe(w) ==
  /\ At(w, "observing")
  /\ \/ GotoWith(w, "confirm", "applied")
     \/ \E result \in {"submission_uncertain", "already_applied", "failed"} :
          GotoWith(w, "use", result)
     \/ GotoWith(w, "observed_use", "submission_uncertain")
  /\ UNCHANGED ledger

\* A mailbox turn admits its Sent message as the receipt; a web turn has none.
Confirm(w) ==
  /\ At(w, "confirm")
  /\ \/ \E r \in Receipts : AdmitEmail(r, worker[w].att) /\ Goto(w, "decide")
     \/ Goto(w, "decide") /\ UNCHANGED ledger

\* Mutant of Decide: the turn's own claim is believed.
DecideUnchecked(w) ==
  /\ At(w, "decide")
  /\ GotoWith(w, "use", "applied")
  /\ UNCHANGED ledger

\* Applied only with a receipt bound to this gate.
Decide(w) ==
  /\ At(w, "decide")
  /\ GotoWith(w, "use", IF BoundReceipt(worker[w].att) THEN "applied"
                                                       ELSE "submission_uncertain")
  /\ UNCHANGED ledger

-----------------------------------------------------------------------------
(* update_submission_ledger: two transactions, then mark_result *)

WriteUse(w) ==
  /\ \/ At(w, "observed_use") /\ Goto(w, "observed_gate")
     \/ At(w, "use") /\ Goto(w, "gate")
     \/ At(w, "error_use") /\ Goto(w, "error_gate")
  /\ UpdateUse(BatchOf[w], worker[w].job, worker[w].result)

WriteGate(w) ==
  /\ \/ At(w, "observed_gate") /\ Goto(w, "use")
     \/ At(w, "gate") /\ Goto(w, "mark")
     \/ At(w, "error_gate") /\ Goto(w, "error_mark")
  /\ UpdateGate(worker[w].att, worker[w].result)

\* A write that fails is swallowed; only the confirmed path looks at it.
LedgerWriteFails(w) ==
  /\ \/ worker[w].pc \in {"observed_use", "observed_gate"} /\ Goto(w, "use")
     \/ /\ worker[w].pc \in {"use", "gate"}
        /\ GotoWith(w, "mark", IF worker[w].result = "applied"
                                 THEN "submission_uncertain" ELSE worker[w].result)
     \/ worker[w].pc \in {"error_use", "error_gate"} /\ Goto(w, "error_mark")
  /\ UNCHANGED ledger

\* mark_result; already_applied is permanent, a failure as it is classified.
Record(w) ==
  /\ worker[w].pc \in {"mark", "error_mark"}
  /\ \E permanent \in BOOLEAN :
       /\ worker[w].result = "already_applied" => permanent
       /\ worker[w].result # "failed" => permanent
       /\ MarkResult(worker[w].att, worker[w].result, permanent)
  /\ Finish(w)

\* mark_result raised in the exception handler: the thread dies.
ThreadDies(w) ==
  /\ At(w, "error_mark")
  /\ ~OwnsJob(worker[w].att)
  /\ Finish(w)
  /\ UNCHANGED ledger

Release(w) ==
  /\ At(w, "release")
  /\ ReleaseLock(worker[w].att)
  /\ Finish(w)

\* Any exception, or an interrupt, inside the launcher's try block: among them
\* the one mark_result raises when the attempt no longer owns the job.
LauncherError(w) ==
  /\ worker[w].pc \in InTry
  /\ IF worker[w].started THEN GotoWith(w, "error_use", "submission_uncertain")
                          ELSE Goto(w, "release")
  /\ UNCHANGED ledger

\* The process dies: the ledger keeps what was committed.
Crash(w) ==
  /\ ~At(w, "idle")
  /\ Finish(w)
  /\ UNCHANGED ledger

WorkerStep(w) ==
  \/ BeginAcquire(w) \/ SelectNothing(w) \/ BlockPortal(w) \/ SkipCandidate(w)
  \/ \E j \in Jobs : Select(w, j)
  \/ \E a \in Attempts : Claim(w, a)
  \/ AwaitApplicant(w) \/ EndPrepare(w) \/ EndPreview(w) \/ Restore(w)
  \/ EnterReservation(w) \/ ReservationLeaseLost(w) \/ Reserve(w) \/ Denied(w)
  \/ StartSubmit(w) \/ SubmitLeaseLost(w) \/ EndSubmit(w) \/ Observe(w)
  \/ Confirm(w) \/ Decide(w)
  \/ WriteUse(w) \/ WriteGate(w) \/ LedgerWriteFails(w)
  \/ Record(w) \/ ThreadDies(w) \/ Release(w) \/ LauncherError(w) \/ Crash(w)

\* The clock.  A Submit turn is stopped by its timeout, which the lease outlasts by
\* two minutes at least (application_lease_minutes), so it ends before its lease.
TurnTick ==
  /\ \A w \in Workers : At(w, "submitting") => attempts[worker[w].att].lease > now + 1
  /\ Tick
  /\ UNCHANGED worker
=============================================================================
