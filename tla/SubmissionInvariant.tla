------------------------ MODULE SubmissionInvariant ------------------------
(***************************************************************************)
(* The inductive invariant behind the theorems of SubmissionProofs: what   *)
(* ties an actor's local state to the rows it holds, and the rows to each  *)
(* other.  The properties of ApplicationSystem are not inductive alone: a  *)
(* worker that reads the outcome of its gate must know that the gate is    *)
(* its own, and that no reconciliation or recovery has taken it.           *)
(***************************************************************************)
EXTENDS ApplicationSystem

\* The pcs at which a worker holds an attempt, is settling its outcome, or
\* has been given a gate.
Holding == Pc \ {"idle", "scan", "candidate"}

BeforeSubmit == {"prepare", "waiting", "reserve", "reserve_again", "restore"}

Settling == {"observed_use", "observed_gate", "use", "gate", "mark",
             "error_use", "error_gate", "error_mark"}

WithGate == {"reserved", "submitting", "observing", "confirm", "decide",
             "observed_use", "observed_gate", "use", "gate", "error_use", "error_gate"}

\* The gate of a, if it has one, is in the batch b.
GateIn(a, b) == Gated(a) /\ gates[a].batch = b

\* A worker's attempt is its own row for its own job under its own manifest.
HoldsAttempt(w) ==
  LET a == worker[w].att
  IN /\ a \in Attempts
     /\ worker[w].job \in Jobs
     /\ attempts[a].status # "free"
     /\ attempts[a].job = worker[w].job
     /\ host[a] = "none"

WorkerKnows(w) ==
  /\ At(w, "candidate") => worker[w].job \in Jobs /\ worker[w].row \in JobRow
  /\ worker[w].pc \in Holding => HoldsAttempt(w)
  /\ At(w, "restore") \/ (At(w, "prepare") /\ w \in DryRun) => worker[w].row \in JobRow
  /\ worker[w].pc \in Settling => worker[w].result \in Outcome
  /\ worker[w].started => worker[w].pc \in Holding
  /\ worker[w].pc \in WithGate \/ worker[w].started => GateIn(worker[w].att, BatchOf[w])
  /\ worker[w].pc \in BeforeSubmit =>
       ~worker[w].started /\ ~attempts[worker[w].att].started

\* No attempt is held by two workers.
AttemptsDistinct ==
  \A v, w \in Workers :
    /\ worker[v].pc \in Holding
    /\ worker[w].pc \in Holding
    /\ worker[v].att = worker[w].att
    => v = w

AttemptKnows(a) ==
  /\ IF attempts[a].status = "free"
       THEN ~Started(a) /\ ~Gated(a) /\ host[a] = "none"
       ELSE attempts[a].job \in Jobs
  /\ Gated(a) => gates[a].batch \in Batches /\ Reserved(gates[a].batch, attempts[a].job)

HostKnows(a) ==
  /\ host[a] # "none" => HostBatch # None
  /\ host[a] \in {"prepare", "prepared", "material_changed", "claimed"} => ~Started(a)
  /\ host[a] = "failed" => attempts[a].status # "in_progress"
  /\ host[a] = "claimed" \/ Intended(a) => Gated(a)

SubmissionInvariant ==
  /\ SystemTypeOK
  /\ \A w \in Workers : WorkerKnows(w)
  /\ AttemptsDistinct
  /\ \A a \in Attempts : AttemptKnows(a) /\ HostKnows(a)
  /\ GatesMatchUses
  /\ LatchNeedsGate
  /\ ReceiptOwner

-----------------------------------------------------------------------------
(* What AppliedIsReceipted rests on *)

\* The pcs at which a worker still has to write its outcome to the gate.
Writing == {"observed_use", "observed_gate", "use", "gate", "error_use", "error_gate"}

\* A worker about to write "applied" has seen the receipt of its gate.
ReceiptSeen(w) ==
  worker[w].pc \in Writing /\ worker[w].result = "applied" => BoundReceipt(worker[w].att)

ReceiptInvariant ==
  /\ AppliedIsReceipted
  /\ \A w \in Workers : ReceiptSeen(w)

-----------------------------------------------------------------------------
(* What SingleWriter and OneSubmitter rest on *)

\* From its reservation to the end of its Submit turn a worker's gate stays claimed,
\* and the turn ends before the lease that it began under.
HoldsWrite(w) ==
  /\ worker[w].pc \in {"reserved", "submitting"} => gates[worker[w].att].state = "claimed"
  /\ At(w, "submitting") => Live(worker[w].att)

WriterInvariant ==
  /\ SingleWriter
  /\ \A w \in Workers : HoldsWrite(w)

-----------------------------------------------------------------------------
(* What OneAttemptPerJob, NoRetryAfterSubmit and NoSecondSubmission rest on *)

\* The attempt began to submit, and the site did not refuse it.
Pressed(a) == Started(a) /\ attempts[a].status # "failed"

\* No attempt of the job is in progress, and none may have submitted.
JobFree(j) ==
  \A a \in Attempts : attempts[a].job = j => attempts[a].status # "in_progress" /\ ~Pressed(a)

\* While an attempt is in progress no other of its job may have submitted.
PressesAlone(a) ==
  attempts[a].status = "in_progress" =>
    \A c \in Attempts \ {a} : attempts[c].job = attempts[a].job => ~Pressed(c)

\* No two attempts of one job may have submitted.
OnePress ==
  \A a, c \in Attempts : Pressed(a) /\ Pressed(c) /\ attempts[a].job = attempts[c].job => a = c

\* A job in progress is the job of an attempt in progress.
JobHeld(j) ==
  jobs[j].status = "in_progress" =>
    \E a \in Attempts : jobs[j].task = a /\ attempts[a].job = j /\ attempts[a].status = "in_progress"

\* A worker knows whether its attempt was latched, and gives back only one that was not.
\* A dry run goes from its preparation to its end, with a row to write back that was
\* claimable; while the job still points at its attempt, nobody may have submitted it.
WorkerJob(w) ==
  /\ At(w, "candidate") => Claimable(worker[w].row)
  /\ worker[w].pc \in Holding /\ ~worker[w].started => ~Started(worker[w].att)
  /\ At(w, "release") => ~worker[w].started
  /\ worker[w].pc \in {"submitting", "observing"} => worker[w].started
  /\ At(w, "restore") => w \in DryRun
  /\ w \in DryRun /\ worker[w].pc \in Holding =>
       /\ worker[w].pc \in {"prepare", "restore"}
       /\ Claimable(worker[w].row)
       /\ jobs[worker[w].job].task = worker[w].att =>
            \A a \in Attempts : attempts[a].job = worker[w].job => ~Pressed(a)

JobInvariant ==
  /\ OneAttemptPerJob
  /\ NoRetryAfterSubmit
  /\ \A a \in Attempts : PressesAlone(a)
  /\ OnePress
  /\ \A j \in Jobs : JobHeld(j)
  /\ \A w \in Workers : WorkerJob(w)

-----------------------------------------------------------------------------
(* What TargetNotExceeded rests on *)

\* A worker's gate stays claimed until the worker writes what it saw, an outcome of
\* "applied" is marked on a gate that says so, and the attempt of a worker that has not
\* finished is not recorded as applied.
WritesOnce(w) ==
  /\ worker[w].pc \in {"observing", "confirm", "decide"} =>
       gates[worker[w].att].state = "claimed"
  /\ worker[w].pc \in Writing /\ worker[w].result = "applied" =>
       worker[w].pc \in {"use", "gate"} /\ gates[worker[w].att].state = "claimed"
  /\ worker[w].pc \in {"mark", "error_mark"} /\ worker[w].result = "applied" =>
       gates[worker[w].att].state = "applied"
  /\ worker[w].pc \in Holding => attempts[worker[w].att].status # "applied"

\* A gate has its batch from the claim on, the host's gates the host's; an attempt
\* recorded as applied has an applied gate.
GateKnows(a) ==
  /\ ~Gated(a) => gates[a].batch = None
  /\ Gated(a) /\ host[a] # "none" => gates[a].batch = HostBatch
  /\ attempts[a].status = "applied" => gates[a].state = "applied"

\* A batch with a live claim is short of its target by one success at least.
ClaimFits(a) ==
  gates[a].state = "claimed" /\ Live(a) /\ gates[a].batch # HostBatch =>
    Cardinality(TimelySuccesses(gates[a].batch)) < SuccessTarget

TargetInvariant ==
  /\ TargetNotExceeded
  /\ \A w \in Workers : WritesOnce(w)
  /\ \A a \in Attempts : GateKnows(a)
  /\ SuccessTarget # None => \A a \in Attempts : ClaimFits(a)

\* A worker's attempt in progress keeps its job in progress, so that no receipt is
\* reconciled with it meanwhile; a host that declared its intent may have submitted.
KeptInvariant ==
  \A a \in Attempts :
    /\ attempts[a].status = "in_progress" /\ host[a] = "none" =>
         jobs[attempts[a].job].status = "in_progress"
    /\ Intended(a) => Pressed(a)

=============================================================================
