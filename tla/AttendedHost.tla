---------------------------- MODULE AttendedHost ----------------------------
(***************************************************************************)
(* The attended application: an external host drives one browser itself    *)
(* and calls apply/attended_application.py, each command one transaction.  *)
(* host[a].phase is the phase of the attended_applications payload of      *)
(* attempt a; "none" where a is not attended.  The payload's               *)
(* submit_started and gate_id are functions of it and of the gate row.     *)
(*                                                                         *)
(* Not represented: the request's own checks (observation age, snapshot    *)
(* fields, host and tab binding), which only reject.                       *)
(***************************************************************************)
EXTENDS SubmissionLedger

CONSTANT HostBatch  \* the batch of the manifest the host loads, or None: no host

ASSUME HostAssumption == HostBatch \in Batches \cup {None}

VARIABLE host

HostPhase == {"none", "prepare", "prepared", "material_changed", "claimed", "submit",
              "failed", "submission_uncertain", "applied"}

HostTypeOK == host \in [Attempts -> HostPhase]

HostInit == host = [a \in Attempts |-> "none"]

\* state["submit_started"]
Intended(a) == host[a] \in {"submit", "submission_uncertain", "applied"}

\* The checks every command but begin and receipt makes first.
Current(a) ==
  LET j == attempts[a].job
  IN /\ host[a] # "none"
     /\ jobs[j].status # "applied"
     /\ jobs[j].task = a
     /\ attempts[a].status = "in_progress"

\* ... and those of the commands that prepare or submit.
Preparing(a) == Current(a) /\ ~Intended(a) /\ Live(a) /\ host[a] # "material_changed"

-----------------------------------------------------------------------------

Begin(a, j) ==
  /\ HostBatch # None
  /\ jobs[j].status \notin {"applied", "submission_uncertain", "in_progress", "applying"}
  /\ \A c \in Attempts : attempts[c].job = j =>
       attempts[c].status # "in_progress" /\ ~attempts[c].started
  /\ DuplicateClear(j)
  /\ StartAttempt(a, j, HostBatch)
  /\ host' = [host EXCEPT ![a] = "prepare"]

Resume(a) ==
  /\ Preparing(a)
  /\ RenewAttempt(a, attempts[a].phase, FALSE)
  /\ UNCHANGED host

MaterialChanged(a) ==
  /\ Preparing(a)
  /\ host' = [host EXCEPT ![a] = "material_changed"]
  /\ UNCHANGED ledger

\* upload-checkpoint and checkpoint; neither is possible once the gate is claimed.
Checkpoint(a) ==
  /\ Preparing(a)
  /\ ~Gated(a)
  /\ RenewAttempt(a, "prepare", FALSE)
  /\ \E phase \in {"prepare", "prepared"} : host' = [host EXCEPT ![a] = phase]

\* claim: renew and reserve in one transaction; the host gives no success target.
HostClaim(a) ==
  LET j == attempts[a].job
  IN /\ Preparing(a)
     /\ host[a] = "prepared"
     /\ DuplicateClear(j)
     /\ ~Gated(a)
     /\ Refusal(a, j, HostBatch, None) = "none"
     /\ attempts' = [attempts EXCEPT ![a] =
          [@ EXCEPT !.phase = "reservation", !.lease = now + Lease]]
     /\ uses' = [uses EXCEPT ![HostBatch][j] = "reserved"]
     /\ gates' = [gates EXCEPT ![a] = [state |-> "claimed", batch |-> HostBatch, at |-> now]]
     /\ host' = [host EXCEPT ![a] = "claimed"]
     /\ UNCHANGED <<now, jobs, receipts>>

\* claim again: the gate replays, the lease is renewed.
ReplayClaim(a) ==
  /\ Preparing(a)
  /\ host[a] = "claimed"
  /\ DuplicateClear(attempts[a].job)
  /\ gates[a].state = "claimed"
  /\ RenewAttempt(a, "reservation", FALSE)
  /\ UNCHANGED host

\* Mutant of SubmitIntent: the claimed phase is not asked for.
SubmitUnclaimed(a) ==
  LET j == attempts[a].job
  IN /\ Preparing(a)
     /\ DuplicateClear(j)
     /\ attempts' = [attempts EXCEPT ![a] =
          [@ EXCEPT !.phase = "submit", !.started = TRUE, !.lease = now + Lease]]
     /\ jobs' = [jobs EXCEPT ![j].status = "applying"]
     /\ host' = [host EXCEPT ![a] = "submit"]
     /\ UNCHANGED <<now, gates, uses, receipts>>

SubmitIntent(a) ==
  LET j == attempts[a].job
  IN /\ Preparing(a)
     /\ host[a] = "claimed"
     /\ DuplicateClear(j)
     /\ attempts' = [attempts EXCEPT ![a] =
          [@ EXCEPT !.phase = "submit", !.started = TRUE, !.lease = now + Lease]]
     /\ jobs' = [jobs EXCEPT ![j].status = "applying"]
     /\ host' = [host EXCEPT ![a] = "submit"]
     /\ UNCHANGED <<now, gates, uses, receipts>>

\* fail: whether or not the lease has expired.
Fail(a) ==
  LET j == attempts[a].job
      phase == IF Intended(a) THEN "submission_uncertain" ELSE "failed"
      b == gates[a].batch
  IN /\ Current(a)
     /\ attempts' = Finalized(a, phase)
     /\ jobs' = [jobs EXCEPT ![j].status = phase]
     /\ gates' = IF ~Gated(a) THEN gates
                 ELSE [gates EXCEPT ![a].state =
                         IF Intended(a) THEN "submission_uncertain"
                                        ELSE "cancelled_before_action"]
     /\ uses' = IF Gated(a) THEN [uses EXCEPT ![b][j] = phase] ELSE uses
     /\ host' = [host EXCEPT ![a] = phase]
     /\ UNCHANGED <<now, receipts>>

\* receipt: enter the uncertain state and reconcile, or roll both back.
Receipt(a, r) ==
  LET j == attempts[a].job
      b == gates[a].batch
  IN /\ Intended(a)
     /\ IF host[a] = "applied"
          THEN ReconcileOn(jobs, gates, uses, r, j, a)
          ELSE ReconcileOn([jobs EXCEPT ![j].status = "submission_uncertain"],
                           [gates EXCEPT ![a].state = "submission_uncertain"],
                           [uses EXCEPT ![b][j] = "submission_uncertain"], r, j, a)
     /\ attempts' = Finalized(a, "applied")
     /\ host' = [host EXCEPT ![a] = "applied"]
     /\ UNCHANGED now

HostStep(a) ==
  \/ \E j \in Jobs : Begin(a, j)
  \/ Resume(a) \/ MaterialChanged(a) \/ Checkpoint(a)
  \/ HostClaim(a) \/ ReplayClaim(a) \/ SubmitIntent(a) \/ Fail(a)
  \/ \E r \in Receipts : Receipt(a, r)
=============================================================================
