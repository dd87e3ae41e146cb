----------------------------- MODULE TaskJournal -----------------------------
(***************************************************************************)
(* The durable journal of background tasks and the workers that execute    *)
(* them: claims fenced by an epoch, leases that expire, cancellation and   *)
(* retries.  The rows and their transactions are those of                  *)
(* storage/task_journal.py, the workers those of                           *)
(* apply/background_runtime.py.  A pool of one thread runs in each process *)
(* and every pool has the same worker id, so only the epoch of a claim     *)
(* tells its holder from an earlier one; attempt_count and lease_epoch     *)
(* always count alike and are one number here.  Time is what it has made   *)
(* true of a row: its lease has run out, its retry is due, its deadline is *)
(* over.                                                                   *)
(***************************************************************************)
EXTENDS RuntimeBase, FiniteSets

CONSTANTS
  Tasks,         \* task ids; each has one immutable specification
  Reads,         \* the tasks whose effect class is read
  Runnable,      \* the reads whose authority is admitted and whose kind has a runner
  RetryBudget,   \* retry_budget of every specification
  MaxFaults      \* bound: workers that die and leases that run out under a live one

ASSUME JournalAssumption ==
  /\ Runnable \subseteq Reads /\ Reads \subseteq Tasks
  /\ RetryBudget \in Nat /\ MaxFaults \in Nat
  /\ None \notin Tasks

VARIABLES
  task,     \* task[t]: its row
  pool,     \* pool[w]: what the worker of pool w executes, under which claim
  faults    \* how many of the faults above have happened

journalVars == <<task, pool, faults>>

Results == {"completed", "failed", "timed_out"}
Terminal == Results \cup {"cancelled", "dead_letter"}

AtRest == [pc |-> "idle", task |-> None, epoch |-> 0, outcome |-> "none"]

JournalTypeOK ==
  /\ task \in [Tasks -> [status : {"free", "pending", "running"} \cup Terminal, epoch : Nat,
                         cancel : BOOLEAN, expired : BOOLEAN, due : BOOLEAN, late : BOOLEAN]]
  /\ pool \in [Processes ->
       [pc : {"idle", "claimed", "running", "finishing", "retrying", "acking"},
        task : Tasks \cup {None}, epoch : Nat, outcome : Results \cup {"none"}]]
  /\ faults \in 0..MaxFaults

JournalInit ==
  /\ task = [t \in Tasks |-> [status |-> "free", epoch |-> 0, cancel |-> FALSE,
                              expired |-> FALSE, due |-> TRUE, late |-> FALSE]]
  /\ pool = [w \in Processes |-> AtRest]
  /\ faults = 0

-----------------------------------------------------------------------------
(* Time and clients *)

RegisterTask(t) ==
  /\ task[t].status = "free"
  /\ task' = [task EXCEPT ![t].status = "pending"]
  /\ UNCHANGED <<pool, faults>>

RequestCancel(t) ==
  /\ task[t].status \in {"pending", "running"}
  /\ task' = [task EXCEPT
       ![t].cancel = TRUE, ![t].status = IF @ = "pending" THEN "cancelled" ELSE @]
  /\ UNCHANGED <<pool, faults>>

HeldBy(w, t) == pool[w].task = t /\ pool[w].epoch = task[t].epoch

\* The lease runs out: nobody is left to renew it, or its worker is slow.
LeaseRunsOut(t) ==
  /\ task[t].status = "running" /\ ~task[t].expired
  /\ task' = [task EXCEPT ![t].expired = TRUE]
  /\ IF \E w \in Processes : HeldBy(w, t) THEN faults < MaxFaults /\ faults' = faults + 1
                                      ELSE UNCHANGED faults
  /\ UNCHANGED pool

RetryFallsDue(t) ==
  /\ task[t].status = "pending" /\ ~task[t].due
  /\ task' = [task EXCEPT ![t].due = TRUE]
  /\ UNCHANGED <<pool, faults>>

DeadlinePasses(t) ==
  /\ task[t].status \in {"pending", "running"} /\ ~task[t].late
  /\ task' = [task EXCEPT ![t].late = TRUE]
  /\ UNCHANGED <<pool, faults>>

-----------------------------------------------------------------------------
(* The statements on a row *)

\* Whether the claim of w is still the one in force.
Fenced(w) == LET t == pool[w].task IN task[t].status = "running" /\ HeldBy(w, t)

Ended(t, status) == [task[t] EXCEPT !.status = status, !.expired = FALSE]

\* Mutant of Reaped: an effect that was interrupted is tried again.
ReapedAll ==
  [t \in Tasks |->
     IF task[t].status = "running" /\ task[t].expired
     THEN [Ended(t, "pending") EXCEPT !.due = TRUE] ELSE task[t]]

\* reap_expired: a read goes back, anything else is left to a person.
Reaped ==
  [t \in Tasks |->
     IF task[t].status = "running" /\ task[t].expired
     THEN IF t \in Reads THEN [Ended(t, "pending") EXCEPT !.due = TRUE]
                         ELSE Ended(t, "dead_letter")
     ELSE task[t]]

Claimable(t) ==
  \/ task[t].status = "pending" /\ task[t].due
  \/ task[t].status = "running" /\ t \in Reads /\ task[t].expired

-----------------------------------------------------------------------------
(* A worker *)

Frees(w) == pool' = [pool EXCEPT ![w] = AtRest]

\* run_once or run_task.
ClaimTask(w, t) ==
  /\ pool[w].pc = "idle"
  /\ Claimable(t)
  /\ task' = [task EXCEPT
       ![t].status = "running", ![t].epoch = @ + 1, ![t].expired = FALSE, ![t].due = TRUE]
  /\ pool' = [pool EXCEPT ![w] =
       [pc |-> "claimed", task |-> t, epoch |-> task[t].epoch + 1, outcome |-> "none"]]
  /\ UNCHANGED faults

\* Whoever waits for a task whose lease has run out reaps them all.
ReapExpired(w) ==
  /\ pool[w].pc = "idle"
  /\ \E t \in Reads : task[t].status = "running" /\ task[t].expired
  /\ task' = Reaped
  /\ UNCHANGED <<pool, faults>>

\* dead_letter, of what may not run in the background.
Refuse(w) ==
  LET t == pool[w].task IN
  /\ pool[w].pc = "claimed"
  /\ t \notin Runnable
  /\ task' = IF Fenced(w) THEN [task EXCEPT ![t] = Ended(t, "dead_letter")] ELSE task
  /\ Frees(w)
  /\ UNCHANGED faults

\* Mutant of Start: a deadline that is over leaves no outcome to persist.
StartUndecided(w) ==
  /\ pool[w].pc = "claimed"
  /\ Fenced(w) /\ pool[w].task \in Runnable
  /\ pool' = [pool EXCEPT ![w].pc = IF task[pool[w].task].late THEN "finishing" ELSE "running"]
  /\ UNCHANGED <<task, faults>>

\* Cancellation, the deadline and the first heartbeat, in this order.
Start(w) ==
  LET t == pool[w].task IN
  /\ pool[w].pc = "claimed"
  /\ t \in Runnable
  /\ IF ~Fenced(w) THEN Frees(w) /\ UNCHANGED task
     ELSE IF task[t].cancel THEN pool' = [pool EXCEPT ![w].pc = "acking"] /\ UNCHANGED task
     ELSE IF task[t].late
     THEN /\ pool' = [pool EXCEPT ![w] = [@ EXCEPT !.pc = "finishing", !.outcome = "timed_out"]]
          /\ UNCHANGED task
     ELSE /\ pool' = [pool EXCEPT ![w].pc = "running"]
          /\ task' = [task EXCEPT ![t].expired = FALSE]
  /\ UNCHANGED faults

\* A heartbeat does not ask whether the lease has run out, only whether it was lost.
BeatTask(w) ==
  /\ pool[w].pc = "running"
  /\ Fenced(w)
  /\ task' = [task EXCEPT ![pool[w].task].expired = FALSE]
  /\ UNCHANGED <<pool, faults>>

\* The runner returns; cancellation and the deadline are looked at before its result.
Produce(w) ==
  LET t == pool[w].task IN
  /\ pool[w].pc = "running"
  /\ IF ~Fenced(w) THEN Frees(w)
     ELSE IF task[t].cancel THEN pool' = [pool EXCEPT ![w].pc = "acking"]
     ELSE \E outcome \in IF task[t].late THEN {"timed_out"} ELSE Results :
            pool' = [pool EXCEPT ![w] = [@ EXCEPT !.pc = "finishing", !.outcome = outcome]]
  /\ UNCHANGED <<task, faults>>

\* Mutant of RetryAdmitted: the first attempt is not counted.
RetryAdmittedOnceMore(w) == pool[w].epoch <= RetryBudget + 1

RetryAdmitted(w) == pool[w].epoch <= RetryBudget

\* The runner raises: retryable within the budget, or for good.
Raise(w) ==
  /\ pool[w].pc = "running"
  /\ \/ RetryAdmitted(w) /\ pool' = [pool EXCEPT ![w].pc = "retrying"]
     \/ pool' = [pool EXCEPT ![w] = [@ EXCEPT !.pc = "finishing", !.outcome = "failed"]]
  /\ UNCHANGED <<task, faults>>

\* Mutant of Persist: a cancellation that came after the last look is not minded.
PersistAnyway(w) ==
  LET t == pool[w].task IN
  /\ pool[w].pc = "finishing"
  /\ task' = IF Fenced(w) THEN [task EXCEPT ![t] = Ended(t, pool[w].outcome)] ELSE task
  /\ Frees(w)
  /\ UNCHANGED faults

\* complete or fail; if a cancellation came in between, that is acknowledged instead.
Persist(w) ==
  LET t == pool[w].task IN
  /\ pool[w].pc = "finishing"
  /\ IF Fenced(w) /\ task[t].cancel
     THEN pool' = [pool EXCEPT ![w].pc = "acking"] /\ UNCHANGED task
     ELSE /\ task' = IF Fenced(w) THEN [task EXCEPT ![t] = Ended(t, pool[w].outcome)] ELSE task
          /\ Frees(w)
  /\ UNCHANGED faults

\* schedule_retry; a retry that the deadline would overtake times out instead.
ScheduleRetry(w) ==
  LET t == pool[w].task IN
  /\ pool[w].pc = "retrying"
  /\ IF Fenced(w) /\ task[t].cancel
     THEN pool' = [pool EXCEPT ![w].pc = "acking"] /\ UNCHANGED task
     ELSE /\ task' = IF ~Fenced(w) THEN task
                     ELSE IF task[t].late THEN [task EXCEPT ![t] = Ended(t, "timed_out")]
                     ELSE [task EXCEPT ![t] = [Ended(t, "pending") EXCEPT !.due = FALSE]]
          /\ Frees(w)
  /\ UNCHANGED faults

AcknowledgeCancel(w) ==
  LET t == pool[w].task IN
  /\ pool[w].pc = "acking"
  /\ task' = IF Fenced(w) THEN [task EXCEPT ![t] = Ended(t, "cancelled")] ELSE task
  /\ Frees(w)
  /\ UNCHANGED faults

\* The process dies, or an error of the database ends the call: the row stays.
Drop(w) ==
  /\ pool[w].pc # "idle"
  /\ faults < MaxFaults
  /\ faults' = faults + 1
  /\ Frees(w)
  /\ UNCHANGED task

PoolStep(w) ==
  \/ \E t \in Tasks : ClaimTask(w, t)
  \/ ReapExpired(w)
  \/ Refuse(w) \/ Start(w) \/ BeatTask(w)
  \/ Produce(w) \/ Raise(w)
  \/ Persist(w) \/ ScheduleRetry(w) \/ AcknowledgeCancel(w)
  \/ Drop(w)

TaskStep(t) ==
  \/ RegisterTask(t) \/ RequestCancel(t)
  \/ LeaseRunsOut(t) \/ RetryFallsDue(t) \/ DeadlinePasses(t)

JournalNext ==
  /\ (\E w \in Processes : PoolStep(w)) \/ \E t \in Tasks : TaskStep(t)
  /\ UNCHANGED now

JournalSpec == now = 0 /\ JournalInit /\ [][JournalNext]_<<now, journalVars>>

-----------------------------------------------------------------------------
(* Properties *)

\* A cancellation that was accepted while a task was open is never overruled by a result
\* of that task, wherever its worker stood when it came.
CancelHolds ==
  \A t \in Tasks : task[t].cancel =>
    task[t].status \in {"pending", "running", "cancelled", "dead_letter"}

\* An effect that is not a read is claimed at most once, although leases run out, are
\* reaped and claimed again: "every other effect class is fail-closed".
EffectsOnce == \A t \in Tasks \ Reads : task[t].epoch <= 1

\* What a task costs: one claim, its retries, and one for every worker lost or late.
\* Without faults the budget alone bounds it; the budget does not bound the faults.
ClaimsBounded == \A t \in Tasks : task[t].epoch <= 1 + RetryBudget + faults

=============================================================================
