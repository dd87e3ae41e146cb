----------------------------- MODULE LedgerProofs -----------------------------
(***************************************************************************)
(* What stands on the invariant of SubmissionProofs.  An applied gate      *)
(* always has its own receipt: the one a worker looked up is still bound   *)
(* when it writes the outcome, some transactions later.  One writer at a   *)
(* time: two attempts never both hold a claimed gate and a live lease, and *)
(* two workers are never both inside a Submit turn.  The rates at which    *)
(* gates are claimed: the gap between two claims and the cap of the        *)
(* rolling window.  The jobs: one attempt in progress, none after one that *)
(* may have submitted, no posting submitted twice.  And the target that a  *)
(* run's successes stay within.                                            *)
(***************************************************************************)
EXTENDS SubmissionProofs

USE DEF LedgerTypeOK

-----------------------------------------------------------------------------
(* Receipts *)

\* A receipt bound to a gate stays bound to it, and the gate stays.
BindingsStay == \A a \in Attempts : BoundReceipt(a) => BoundReceipt(a)'

\* Every step leaves the bindings that are there: a receipt moves to another gate
\* only if it had none (bind_admitted_receipt_to_gate).
LEMMA BindingsStayStep ==
  ASSUME SubmissionInvariant, LedgerAssumption, WorkersAssumption, HostAssumption,
         [Next]_system
  PROVE  BindingsStay
<1>0. LedgerTypeOK
  BY DEF SubmissionInvariant, SystemTypeOK
<1>1. \A a \in Attempts : Gated(a) => Gated(a)'
  BY <1>0, StepShape DEF Quiet, GatesKept, Grants, Gated
<1>2. ReceiptsMove
  <2>1. ASSUME NEW a \in Attempts, NEW b \in Batches, Grants(a, b) PROVE UNCHANGED receipts
    BY <2>1 DEF Grants
  <2> QED BY <2>1, StepShape DEF Quiet, ReceiptsMove
<1>3. \A r \in Receipts, a \in Attempts : receipts[r].gate = a => receipts'[r].gate = a
  <2>1. ASSUME NEW q \in Receipts, NEW c \in Attempts, Admits(q, c)
        PROVE  \A r \in Receipts, a \in Attempts : receipts[r].gate = a => receipts'[r].gate = a
    BY <1>0, <2>1, LedgerAssumption DEF Admits, Bindable, LedgerAssumption
  <2>2. ASSUME NEW q \in Receipts, NEW j \in Jobs, Notes(q, j)
        PROVE  \A r \in Receipts, a \in Attempts : receipts[r].gate = a => receipts'[r].gate = a
    BY <1>0, <2>2 DEF Notes
  <2> QED BY <1>2, <2>1, <2>2 DEF ReceiptsMove
<1> QED BY <1>1, <1>3 DEF BindingsStay, BoundReceipt

-----------------------------------------------------------------------------
(* Who writes "applied" to a gate *)

\* No gate becomes applied but one that has its receipt.
NewlyApplied ==
  \A a \in Attempts :
    gates'[a].state = "applied" => gates[a].state = "applied" \/ BoundReceipt(a)'

\* Reconciling a receipt applies the gate that it binds (reconcile_submission_receipt).
LEMMA ReconcileApplies ==
  ASSUME LedgerTypeOK, LedgerAssumption, NEW J, NEW G \in [Attempts -> GateRow], NEW U,
         \A c \in Attempts : G[c].state = gates[c].state \/ G[c].state = "submission_uncertain",
         NEW r \in Receipts, NEW j \in Jobs, NEW a \in Attempts \cup {None},
         ReconcileOn(J, G, U, r, j, a)
  PROVE  NewlyApplied
<1>1. CASE a = None
  BY <1>1 DEF ReconcileOn, NewlyApplied
<1>2. CASE a \in Attempts
  <2>1. a # None
    BY <1>2 DEF LedgerAssumption
  <2>2. /\ gates' = [G EXCEPT ![a].state = "applied"]
        /\ receipts'[r].gate = a
    BY <1>2, <2>1 DEF ReconcileOn
  <2>3. gates'[a].state = "applied"
    BY <1>2, <2>2 DEF GateRow
  <2>4. BoundReceipt(a)'
    BY <2>2, <2>3 DEF BoundReceipt, Gated
  <2> QED BY <1>2, <2>2, <2>4 DEF NewlyApplied
<1> QED BY <1>1, <1>2

\* A worker applies its gate only at the update of a gate whose receipt it has seen.
LEMMA WorkerApplies ==
  ASSUME SubmissionInvariant, SubmissionInvariant', BindingsStay, NEW w \in Workers,
         ReceiptSeen(w), WorkerStep(w)
  PROVE  NewlyApplied
<1>0. LedgerTypeOK /\ WorkerKnows(w)
  BY DEF SubmissionInvariant, SystemTypeOK
<1>1. CASE UNCHANGED gates
  BY <1>1 DEF NewlyApplied
<1>2. CASE Reserve(w)
  BY <1>0, <1>2 DEF Reserve, ClaimGate, NewlyApplied
<1>3. CASE WriteGate(w)
  <2>1. worker[w].pc \in Writing /\ worker[w].pc \in Holding
    BY <1>3 DEF WriteGate, At, Writing, Holding, Pc
  <2>2. PICK a \in Attempts : a = worker[w].att
    BY <1>0, <2>1 DEF WorkerKnows, HoldsAttempt
  <2>3. gates' = [gates EXCEPT ![a].state = worker[w].result]
    BY <1>3, <2>2 DEF WriteGate, UpdateGate
  <2>4. worker[w].result = "applied" => BoundReceipt(a)'
    BY <2>1, <2>2 DEF ReceiptSeen, BindingsStay
  <2> QED BY <1>0, <2>3, <2>4 DEF NewlyApplied, GateRow
<1>4. UNCHANGED gates \/ Reserve(w) \/ WriteGate(w)
  BY DEF WorkerStep, BeginAcquire, RecoverStale, SelectNothing, BlockPortal, BlockCandidate,
         SkipCandidate, Select, Claim, StartAttempt, AwaitApplicant, RenewAttempt, EndPrepare,
         EndPreview, MarkResult, Restore, RestorePreview, EnterReservation,
         ReservationLeaseLost, Denied, StartSubmit, SubmitLeaseLost, EndSubmit, Observe,
         Confirm, AdmitEmail, Decide, WriteUse, UpdateUse, LedgerWriteFails, Record,
         ThreadDies, Release, ReleaseLock, LauncherError, Crash, ledger
<1> QED BY <1>1, <1>2, <1>3, <1>4

\* An attended command applies a gate only together with its receipt.
LEMMA HostApplies ==
  ASSUME LedgerTypeOK, LedgerAssumption, NEW a \in Attempts, AttemptKnows(a), HostKnows(a),
         HostStep(a)
  PROVE  NewlyApplied
<1>1. CASE UNCHANGED gates
  BY <1>1 DEF NewlyApplied
<1>2. CASE HostClaim(a)
  BY <1>2 DEF HostClaim, NewlyApplied
<1>3. CASE Fail(a)
  BY <1>3 DEF Fail, NewlyApplied, GateRow
<1>4. ASSUME NEW r \in Receipts, Receipt(a, r) PROVE NewlyApplied
  <2> DEFINE j == attempts[a].job
             G == [gates EXCEPT ![a].state = "submission_uncertain"]
  <2>1. j \in Jobs
    <3>1. Gated(a)
      BY <1>4 DEF Receipt, HostKnows
    <3> QED BY <3>1 DEF AttemptKnows
  <2>2. /\ G \in [Attempts -> GateRow]
        /\ \A c \in Attempts : G[c].state = gates[c].state \/ G[c].state = "submission_uncertain"
    BY DEF GateRow, GateState, Outcome
  <2>3. ASSUME NEW J, NEW H \in {gates, G}, NEW U, ReconcileOn(J, H, U, r, j, a)
        PROVE  NewlyApplied
    BY <2>1, <2>2, <2>3, ReconcileApplies
  <2> QED BY <1>4, <2>3 DEF Receipt
<1>5. UNCHANGED gates \/ HostClaim(a) \/ Fail(a) \/ \E r \in Receipts : Receipt(a, r)
  BY DEF HostStep, Begin, StartAttempt, Resume, RenewAttempt, MaterialChanged, Checkpoint,
         ReplayClaim, SubmitIntent, ledger
<1> QED BY <1>1, <1>2, <1>3, <1>4, <1>5

\* Whoever acts, a gate becomes applied only with its receipt.
LEMMA NewlyAppliedStep ==
  ASSUME SubmissionInvariant, SubmissionInvariant', BindingsStay, LedgerAssumption,
         \A w \in Workers : ReceiptSeen(w), [Next]_system
  PROVE  NewlyApplied
<1>0. LedgerTypeOK /\ \A a \in Attempts : AttemptKnows(a) /\ HostKnows(a)
  BY DEF SubmissionInvariant, SystemTypeOK
<1>1. ASSUME NEW r \in Receipts, NEW j \in Jobs, NEW a \in Attempts \cup {None},
             Reconcile(r, j, a)
      PROVE  NewlyApplied
  BY <1>0, <1>1, ReconcileApplies DEF Reconcile
<1>2. CASE Operator
  <2>1. UNCHANGED gates \/ \E r \in Receipts, j \in Jobs, a \in Attempts \cup {None} :
                             Reconcile(r, j, a)
    BY <1>2 DEF Operator, Mark, MarkJob, Reset, ResetFailed, ReconcileReceipt
  <2> QED BY <1>1, <2>1 DEF NewlyApplied
<1>3. CASE TurnTick \/ UNCHANGED system
  BY <1>3 DEF TurnTick, Tick, system, NewlyApplied
<1> QED BY <1>0, <1>2, <1>3, WorkerApplies, HostApplies DEF Next

-----------------------------------------------------------------------------
(* A worker that is about to write "applied" has seen the receipt *)

\* A worker that moves on has seen the receipt its new result claims.
LEMMA MovesSeen ==
  ASSUME WorkerTypeOK, BindingsStay, NEW w \in Workers, ReceiptSeen(w),
         worker[w].att \in Attempts, NEW pc, NEW result,
         GotoWith(w, pc, result) \/ (Goto(w, pc) /\ result = worker[w].result),
         \/ pc \notin Writing
         \/ result # "applied"
         \/ worker[w].pc \in Writing /\ result = worker[w].result
         \/ BoundReceipt(worker[w].att)
  PROVE  ReceiptSeen(w)'
<1>1. MovesTo(w, pc, result)
  BY GotoMoves
<1> QED BY <1>1 DEF MovesTo, ReceiptSeen, BindingsStay, BoundReceipt

\* So it is after each of the worker's own steps.
LEMMA WorkerSees ==
  ASSUME SubmissionInvariant, BindingsStay, NEW w \in Workers, ReceiptSeen(w), WorkerStep(w)
  PROVE  ReceiptSeen(w)'
<1>0. WorkerTypeOK /\ WorkerKnows(w)
  BY DEF SubmissionInvariant, SystemTypeOK
<1>1. CASE Finish(w)
  BY <1>0, <1>1 DEF Finish, Idle, WorkerTypeOK, ReceiptSeen, Writing
<1>2. ASSUME NEW pc \in Pc \ Writing, NEW result, Goto(w, pc) \/ GotoWith(w, pc, result)
      PROVE  ReceiptSeen(w)'
  <2>1. worker'[w].pc = pc
    BY <1>0, <1>2, GotoMoves DEF MovesTo
  <2> QED BY <2>1 DEF ReceiptSeen
<1>3. CASE \/ BeginAcquire(w) \/ EndPrepare(w) \/ EnterReservation(w) \/ Reserve(w)
           \/ ReservationLeaseLost(w) \/ Denied(w) \/ EndSubmit(w) \/ Confirm(w)
  <2>1. {"scan", "release", "mark", "reserve", "reserve_again", "reserved", "waiting",
         "observing", "decide"} \subseteq Pc \ Writing
    BY DEF Pc, Writing
  <2> QED BY <1>2, <1>3, <2>1
          DEF BeginAcquire, EndPrepare, EnterReservation, Reserve, ReservationLeaseLost,
              Denied, EndSubmit, Confirm
<1>4. CASE EndPreview(w)
  BY <1>1, <1>2, <1>4 DEF EndPreview, Pc, Writing
<1>5. CASE (\E j \in Jobs : Select(w, j)) \/ (\E a \in Attempts : Claim(w, a)) \/ StartSubmit(w)
  <2>1. worker'[w].pc \in {"candidate", "prepare", "submitting"}
    BY <1>0, <1>5 DEF Select, Claim, StartSubmit, WorkerTypeOK, WorkerRow, Idle
  <2> QED BY <2>1 DEF ReceiptSeen, Writing
<1>6. CASE SubmitLeaseLost(w) \/ Observe(w) \/ Decide(w) \/ WriteUse(w) \/ WriteGate(w)
           \/ LedgerWriteFails(w) \/ LauncherError(w)
  <2>1. worker[w].att \in Attempts
    <3>1. worker[w].pc \in Holding
      BY <1>6 DEF SubmitLeaseLost, Observe, Decide, WriteUse, WriteGate, LedgerWriteFails,
                  LauncherError, At, InTry, Holding, Pc
    <3> QED BY <1>0, <3>1 DEF WorkerKnows, HoldsAttempt
  <2>2. CASE SubmitLeaseLost(w)
    BY <1>0, <2>1, <2>2, MovesSeen DEF SubmitLeaseLost
  <2>3. CASE Observe(w)
    BY <1>0, <2>1, <2>3, MovesSeen DEF Observe, Writing
  <2>4. CASE Decide(w)
    BY <1>0, <2>1, <2>4, MovesSeen DEF Decide
  <2>5. CASE WriteUse(w)
    BY <1>0, <2>1, <2>5, MovesSeen DEF WriteUse, At, Writing
  <2>6. CASE WriteGate(w)
    BY <1>0, <2>1, <2>6, MovesSeen DEF WriteGate, At, Writing
  <2>7. CASE LedgerWriteFails(w)
    BY <1>0, <2>1, <2>7, MovesSeen DEF LedgerWriteFails, Writing
  <2>8. CASE LauncherError(w)
    BY <1>0, <2>1, <2>8, MovesSeen DEF LauncherError, Writing
  <2> QED BY <1>6, <2>2, <2>3, <2>4, <2>5, <2>6, <2>7, <2>8
<1>7. CASE AwaitApplicant(w)
  <2>1. worker[w].pc \notin Writing
    BY <1>7 DEF AwaitApplicant, At, Writing
  <2> QED BY <1>7, <2>1 DEF AwaitApplicant, ReceiptSeen
<1>8. \/ Finish(w) \/ BeginAcquire(w) \/ EndPrepare(w) \/ EnterReservation(w) \/ Reserve(w)
      \/ ReservationLeaseLost(w) \/ Denied(w) \/ EndSubmit(w) \/ Confirm(w) \/ EndPreview(w)
      \/ (\E j \in Jobs : Select(w, j)) \/ (\E a \in Attempts : Claim(w, a)) \/ StartSubmit(w)
      \/ SubmitLeaseLost(w) \/ Observe(w) \/ Decide(w) \/ WriteUse(w) \/ WriteGate(w)
      \/ LedgerWriteFails(w) \/ LauncherError(w) \/ AwaitApplicant(w)
  BY DEF WorkerStep, SelectNothing, BlockPortal, SkipCandidate, Restore, Record, ThreadDies,
         Release, Crash
<1> QED BY <1>1, <1>3, <1>4, <1>5, <1>6, <1>7, <1>8

-----------------------------------------------------------------------------
(* The theorem *)

\* The receipt invariant is inductive, given the invariant of the whole system.
LEMMA ReceiptStep ==
  ASSUME SubmissionInvariant, SubmissionInvariant', ReceiptInvariant, LedgerAssumption,
         WorkersAssumption, HostAssumption, [Next]_system
  PROVE  ReceiptInvariant'
<1>0. BindingsStay /\ NewlyApplied
  BY BindingsStayStep, NewlyAppliedStep DEF ReceiptInvariant
<1>1. AppliedIsReceipted'
  BY <1>0 DEF ReceiptInvariant, AppliedIsReceipted, BindingsStay, NewlyApplied
<1>2. ASSUME NEW w \in Workers PROVE ReceiptSeen(w)'
  <2>1. CASE WorkerStep(w)
    BY <1>0, <2>1, WorkerSees DEF ReceiptInvariant
  <2>2. CASE worker'[w] = worker[w]
    <3>1. worker[w].pc \in Writing => worker[w].att \in Attempts
      BY DEF SubmissionInvariant, WorkerKnows, HoldsAttempt, Writing, Holding, Pc
    <3>2. ReceiptSeen(w)
      BY DEF ReceiptInvariant
    <3> QED BY <1>0, <2>2, <3>1, <3>2 DEF ReceiptSeen, BindingsStay, BoundReceipt
  <2>3. WorkerStep(w) \/ worker'[w] = worker[w]
    <3>1. ASSUME NEW v \in Workers, WorkerStep(v), v # w, UNCHANGED host
          PROVE  worker'[w] = worker[w]
      <4>1. RowsKept /\ GatesGrow
        BY ShapeGrows, StepShape DEF Quiet, SubmissionInvariant, SystemTypeOK
      <4> QED BY <3>1, <4>1, WorkerOwn DEF OwnStep, SubmissionInvariant, SystemTypeOK
    <3> QED BY <3>1 DEF Next, TurnTick, system
  <2> QED BY <2>1, <2>2, <2>3
<1> QED BY <1>1, <1>2 DEF ReceiptInvariant

\* The receipt invariant holds in every reachable state.
LEMMA ReceiptsHold == Spec => []ReceiptInvariant
<1>1. Init => ReceiptInvariant
  <2> SUFFICES ASSUME Init PROVE ReceiptInvariant
    OBVIOUS
  <2>1. AppliedIsReceipted
    BY DEF Init, LedgerInit, AppliedIsReceipted
  <2>2. \A w \in Workers : ReceiptSeen(w)
    BY DEF Init, WorkerInit, Idle, ReceiptSeen, Writing
  <2> QED BY <2>1, <2>2 DEF ReceiptInvariant
<1>2. SubmissionInvariant /\ SubmissionInvariant' /\ ReceiptInvariant /\ [Next]_system
        => ReceiptInvariant'
  BY LedgerAssumption, WorkersAssumption, HostAssumption, ReceiptStep
<1> QED BY <1>1, <1>2, InvariantHolds, PTL DEF Spec

\* A gate is applied only on the strength of a receipt bound to that very gate, for any
\* number of workers, hosts and late receipts, and however long a worker takes between
\* its look at the receipt and its write (has_admitted_submission_receipt).
THEOREM AppliedAreReceipted == Spec => []AppliedIsReceipted
<1>1. ReceiptInvariant => AppliedIsReceipted
  BY DEF ReceiptInvariant
<1> QED BY <1>1, ReceiptsHold, PTL

-----------------------------------------------------------------------------
(* Leases and claims *)

\* The clock does not go back, and the lease of a drawn attempt moves only while live.
LeasesKept ==
  /\ now \in Nat /\ now' \in Nat /\ now' >= now
  /\ \A a \in Attempts : attempts[a].status # "free" =>
       attempts'[a].lease = attempts[a].lease \/ Live(a)

\* A gate is claimed anew, alone, only while no other attempt is writing.
ClaimsChecked ==
  \A a \in Attempts : gates'[a].state = "claimed" =>
    \/ gates[a].state = "claimed"
    \/ ~WriterBusy(a) /\ \A c \in Attempts \ {a} : gates'[c] = gates[c]

\* Ending, recovering or not touching attempts moves no lease.
LEMMA EndingLeases ==
  ASSUME LedgerTypeOK, UNCHANGED now,
         \/ UNCHANGED attempts
         \/ \E a \in Attempts : \E status : attempts' = Finalized(a, status)
         \/ RecoverStale
  PROVE  LeasesKept
<1>1. ASSUME NEW a \in Attempts, NEW status, attempts' = Finalized(a, status)
      PROVE  LeasesKept
  BY <1>1 DEF Finalized, LeasesKept, AttemptRow
<1>2. CASE RecoverStale
  BY <1>2 DEF RecoverStale, LeasesKept, AttemptRow
<1> QED BY <1>1, <1>2 DEF LeasesKept

\* Renewing asks for a live lease, drawing for a free id.
LEMMA RenewLeases ==
  ASSUME LedgerTypeOK, UNCHANGED now, NEW a \in Attempts, NEW row,
         attempts' = [attempts EXCEPT ![a] = row],
         Live(a) \/ attempts[a].status = "free"
  PROVE  LeasesKept
BY DEF LeasesKept

\* A worker's step moves no lease but a live one, and claims no gate beside a writer.
LEMMA WorkerLeases ==
  ASSUME SubmissionInvariant, NEW w \in Workers, WorkerStep(w)
  PROVE  LeasesKept /\ ClaimsChecked
<1> DEFINE a == worker[w].att
<1>0. /\ LedgerTypeOK
      /\ worker[w].pc \in Holding => a \in Attempts
      /\ worker[w].pc \in Settling => worker[w].result \in Outcome
  BY DEF SubmissionInvariant, SystemTypeOK, WorkerKnows, HoldsAttempt
<1>1. LeasesKept
  <2>1. CASE UNCHANGED <<now, attempts>>
    BY <1>0, <2>1, EndingLeases
  <2>2. CASE BeginAcquire(w)
    BY <1>0, <2>2, EndingLeases DEF BeginAcquire, RecoverStale
  <2>3. ASSUME NEW c \in Attempts, Claim(w, c) PROVE LeasesKept
    BY <1>0, <2>3, RenewLeases DEF Claim, StartAttempt
  <2>4. CASE EnterReservation(w) \/ StartSubmit(w) \/ AwaitApplicant(w)
    <3>1. a \in Attempts
      BY <1>0, <2>4 DEF EnterReservation, StartSubmit, AwaitApplicant, At, Holding, Pc
    <3>2. \E phase, started : RenewAttempt(a, phase, started)
      BY <2>4 DEF EnterReservation, StartSubmit, AwaitApplicant
    <3> QED BY <1>0, <3>1, <3>2, RenewLeases DEF RenewAttempt
  <2>5. CASE EndPreview(w) \/ Restore(w) \/ Record(w) \/ Release(w)
    <3>1. a \in Attempts
      BY <1>0, <2>5 DEF EndPreview, Restore, Record, Release, At, Holding, Pc
    <3>2. UNCHANGED now
      BY <2>5 DEF EndPreview, Restore, RestorePreview, Record, MarkResult, Release,
                  ReleaseLock, ledger
    <3>3. UNCHANGED attempts \/ \E status : attempts' = Finalized(a, status)
      BY <2>5 DEF EndPreview, Restore, RestorePreview, Record, MarkResult, Release,
                  ReleaseLock, ledger
    <3> QED BY <1>0, <3>1, <3>2, <3>3, EndingLeases
  <2>6. \/ UNCHANGED <<now, attempts>> \/ BeginAcquire(w) \/ \E c \in Attempts : Claim(w, c)
        \/ EnterReservation(w) \/ StartSubmit(w) \/ AwaitApplicant(w)
        \/ EndPreview(w) \/ Restore(w) \/ Record(w) \/ Release(w)
    BY DEF WorkerStep, SelectNothing, BlockPortal, BlockCandidate, SkipCandidate, Select,
           EndPrepare, ReservationLeaseLost, Reserve, ClaimGate, Denied, SubmitLeaseLost,
           EndSubmit, Observe, Confirm, AdmitEmail, Decide, WriteUse, UpdateUse, WriteGate,
           UpdateGate, LedgerWriteFails, ThreadDies, LauncherError, Crash, ledger
  <2> QED BY <2>1, <2>2, <2>3, <2>4, <2>5, <2>6
<1>2. ClaimsChecked
  <2>1. CASE UNCHANGED gates
    BY <2>1 DEF ClaimsChecked
  <2>2. CASE Reserve(w)
    <3>1. a \in Attempts /\ ~WriterBusy(a)
      BY <1>0, <2>2 DEF Reserve, ClaimGate, Refusal, Holding, Pc
    <3> QED BY <1>0, <2>2, <3>1 DEF Reserve, ClaimGate, ClaimsChecked
  <2>3. CASE WriteGate(w)
    BY <1>0, <2>3 DEF WriteGate, UpdateGate, At, Settling, Outcome, ClaimsChecked, GateRow
  <2>4. UNCHANGED gates \/ Reserve(w) \/ WriteGate(w)
    BY DEF WorkerStep, BeginAcquire, RecoverStale, SelectNothing, BlockPortal, BlockCandidate,
           SkipCandidate, Select, Claim, StartAttempt, AwaitApplicant, RenewAttempt,
           EndPrepare, EndPreview, MarkResult, Restore, RestorePreview, EnterReservation,
           ReservationLeaseLost, Denied, StartSubmit, SubmitLeaseLost, EndSubmit, Observe,
           Confirm, AdmitEmail, Decide, WriteUse, UpdateUse, LedgerWriteFails, Record,
           ThreadDies, Release, ReleaseLock, LauncherError, Crash, ledger
  <2> QED BY <2>1, <2>2, <2>3, <2>4
<1> QED BY <1>1, <1>2

\* An attended command moves no lease but a live one, and claims no gate beside a writer.
LEMMA HostLeases ==
  ASSUME SubmissionInvariant, NEW a \in Attempts, HostStep(a)
  PROVE  LeasesKept /\ ClaimsChecked
<1>0. LedgerTypeOK
  BY DEF SubmissionInvariant, SystemTypeOK
<1>1. CASE (\E j \in Jobs : Begin(a, j)) \/ Resume(a) \/ MaterialChanged(a) \/ Checkpoint(a)
           \/ ReplayClaim(a) \/ SubmitIntent(a)
  <2>1. UNCHANGED gates /\ UNCHANGED now
    BY <1>1 DEF Begin, StartAttempt, Resume, RenewAttempt, MaterialChanged, Checkpoint,
                ReplayClaim, SubmitIntent, ledger
  <2>2. \/ UNCHANGED attempts
        \/ /\ Live(a) \/ attempts[a].status = "free"
           /\ \E row : attempts' = [attempts EXCEPT ![a] = row]
    BY <1>1 DEF Begin, StartAttempt, Resume, RenewAttempt, MaterialChanged, Checkpoint,
                ReplayClaim, SubmitIntent, Preparing, ledger
  <2> QED BY <1>0, <2>1, <2>2, RenewLeases, EndingLeases DEF ClaimsChecked
<1>2. CASE HostClaim(a)
  <2>1. LeasesKept
    BY <1>0, <1>2, RenewLeases DEF HostClaim, Preparing
  <2>2. ~WriterBusy(a)
    BY <1>2 DEF HostClaim, Refusal
  <2> QED BY <1>2, <2>1, <2>2 DEF HostClaim, ClaimsChecked
<1>3. CASE Fail(a)
  BY <1>0, <1>3, EndingLeases DEF Fail, ClaimsChecked, GateRow
<1>4. ASSUME NEW r \in Receipts, Receipt(a, r) PROVE LeasesKept /\ ClaimsChecked
  <2>1. LeasesKept
    BY <1>0, <1>4, EndingLeases DEF Receipt
  <2>2. ClaimsChecked
    BY <1>0, <1>4 DEF Receipt, ReconcileOn, ClaimsChecked, GateRow
  <2> QED BY <2>1, <2>2
<1> QED BY <1>1, <1>2, <1>3, <1>4 DEF HostStep

\* Neither the operator nor the clock claims a gate or moves a lease.
LEMMA OthersLeases ==
  ASSUME SubmissionInvariant, Operator \/ TurnTick \/ UNCHANGED system
  PROVE  LeasesKept /\ ClaimsChecked
<1>0. LedgerTypeOK
  BY DEF SubmissionInvariant, SystemTypeOK
<1>1. ASSUME NEW r \in Receipts, NEW j \in Jobs, NEW a \in Attempts \cup {None},
             Reconcile(r, j, a)
      PROVE  LeasesKept /\ ClaimsChecked
  BY <1>0, <1>1 DEF Reconcile, ReconcileOn, LeasesKept, ClaimsChecked, GateRow
<1>2. CASE Operator
  <2>1. \/ UNCHANGED <<now, attempts, gates>>
        \/ \E r \in Receipts, j \in Jobs, a \in Attempts \cup {None} : Reconcile(r, j, a)
    BY <1>2 DEF Operator, Mark, MarkJob, Reset, ResetFailed, ReconcileReceipt
  <2> QED BY <1>0, <1>1, <2>1 DEF LeasesKept, ClaimsChecked
<1>3. CASE TurnTick \/ UNCHANGED system
  BY <1>0, <1>3 DEF TurnTick, Tick, system, LeasesKept, ClaimsChecked
<1> QED BY <1>2, <1>3

\* The gates claimed and live stay at most one: a claim looks for other writers, and an
\* attempt whose lease expired does not become live again.
LEMMA SingleWriterStep ==
  ASSUME SubmissionInvariant, SingleWriter, RowsKept, LeasesKept, ClaimsChecked,
         SubmissionInvariant'
  PROVE  SingleWriter'
<1>1. ASSUME NEW a \in Attempts, attempts[a].status # "free", Live(a)' PROVE Live(a)
  <2>1. attempts[a].status = "in_progress" /\ attempts'[a].lease > now'
    BY <1>1 DEF RowsKept, Live
  <2>2. attempts'[a].lease \in Nat
    BY DEF SubmissionInvariant, SystemTypeOK, AttemptRow
  <2> QED BY <1>1, <2>1, <2>2 DEF LeasesKept, Live
<1>2. ASSUME NEW a \in Attempts, gates[a].state = "claimed" PROVE attempts[a].status # "free"
  BY <1>2 DEF SubmissionInvariant, AttemptKnows, Gated
<1>3. ASSUME NEW a \in Attempts, NEW c \in Attempts, a # c,
             gates'[a].state = "claimed", Live(a)', gates'[c].state = "claimed", Live(c)'
      PROVE  FALSE
  <2>1. gates[a].state = "claimed" => Live(a)
    BY <1>1, <1>2, <1>3
  <2>2. gates[c].state = "claimed" => Live(c)
    BY <1>1, <1>2, <1>3
  <2>3. gates[a].state = "claimed" \/ gates[c].state = "claimed"
    BY <1>3 DEF ClaimsChecked
  <2> QED BY <1>3, <2>1, <2>2, <2>3 DEF ClaimsChecked, WriterBusy, SingleWriter
<1> QED BY <1>3 DEF SingleWriter

-----------------------------------------------------------------------------
(* What others may do to the attempt of a worker that is writing *)

\* The attempt a, unless its lease expired, and its gate until an outcome is there are
\* left alone.
LeftAlone(a) ==
  /\ gates[a].state \in {"claimed", "applied"} => gates'[a].state = gates[a].state
  /\ \/ attempts'[a] = attempts[a]
     \/ Expired(a) /\ attempts'[a].status \in {"submission_uncertain", "abandoned_pre_submit"}

\* A worker's step concerns its own attempt, a free one, or those that expired.
LEMMA WorkerLeavesAlone ==
  ASSUME SubmissionInvariant, NEW v \in Workers, WorkerStep(v),
         NEW a \in Attempts, attempts[a].status # "free",
         worker[v].pc \in Holding => worker[v].att # a
  PROVE  LeftAlone(a)
<1>0. LedgerTypeOK
  BY DEF SubmissionInvariant, SystemTypeOK
<1>1. CASE UNCHANGED ledger
  BY <1>1 DEF ledger, LeftAlone
<1>2. CASE BeginAcquire(v)
  BY <1>0, <1>2 DEF BeginAcquire, RecoverStale, LeftAlone
<1>3. CASE BlockPortal(v) \/ Confirm(v) \/ WriteUse(v)
  BY <1>3 DEF BlockPortal, BlockCandidate, Confirm, AdmitEmail, WriteUse, UpdateUse, ledger,
              LeftAlone
<1>4. ASSUME NEW c \in Attempts, Claim(v, c) PROVE LeftAlone(a)
  BY <1>0, <1>4 DEF Claim, StartAttempt, LeftAlone
<1>5. CASE EnterReservation(v) \/ StartSubmit(v) \/ AwaitApplicant(v) \/ Reserve(v) \/ WriteGate(v)
  <2>1. worker[v].att # a
    BY <1>5 DEF EnterReservation, StartSubmit, AwaitApplicant, Reserve, WriteGate, At, Holding, Pc
  <2> QED BY <1>0, <1>5, <2>1
          DEF EnterReservation, StartSubmit, AwaitApplicant, RenewAttempt, Reserve, ClaimGate,
              WriteGate, UpdateGate, LeftAlone
<1>6. CASE EndPreview(v) \/ Restore(v) \/ Record(v) \/ Release(v)
  <2>1. worker[v].att # a
    BY <1>6 DEF EndPreview, Restore, Record, Release, At, Holding, Pc
  <2> QED BY <1>0, <1>6, <2>1
          DEF EndPreview, Restore, RestorePreview, Record, MarkResult, Release, ReleaseLock,
              Finalized, ledger, LeftAlone
<1>7. UNCHANGED ledger \/ BeginAcquire(v) \/ BlockPortal(v) \/ Confirm(v) \/ WriteUse(v)
      \/ (\E c \in Attempts : Claim(v, c))
      \/ EnterReservation(v) \/ StartSubmit(v) \/ AwaitApplicant(v) \/ Reserve(v) \/ WriteGate(v)
      \/ EndPreview(v) \/ Restore(v) \/ Record(v) \/ Release(v)
  BY DEF WorkerStep, SelectNothing, SkipCandidate, Select, EndPrepare, ReservationLeaseLost,
         Denied, SubmitLeaseLost, EndSubmit, Observe, Decide, LedgerWriteFails, ThreadDies,
         LauncherError, Crash
<1> QED BY <1>1, <1>2, <1>3, <1>4, <1>5, <1>6, <1>7

\* An attended command concerns its own attempt only.
LEMMA HostLeavesAlone ==
  ASSUME SubmissionInvariant, NEW c \in Attempts, HostStep(c), NEW a \in Attempts, a # c
  PROVE  LeftAlone(a)
<1>0. LedgerTypeOK
  BY DEF SubmissionInvariant, SystemTypeOK
<1>1. CASE (\E j \in Jobs : Begin(c, j)) \/ Resume(c) \/ MaterialChanged(c) \/ Checkpoint(c)
           \/ ReplayClaim(c) \/ SubmitIntent(c)
  BY <1>0, <1>1 DEF Begin, StartAttempt, Resume, RenewAttempt, MaterialChanged, Checkpoint,
                    ReplayClaim, SubmitIntent, ledger, LeftAlone
<1>2. CASE HostClaim(c)
  BY <1>0, <1>2 DEF HostClaim, LeftAlone
<1>3. CASE Fail(c)
  BY <1>0, <1>3 DEF Fail, Finalized, LeftAlone
<1>4. ASSUME NEW r \in Receipts, Receipt(c, r) PROVE LeftAlone(a)
  BY <1>0, <1>4 DEF Receipt, ReconcileOn, Finalized, LeftAlone
<1> QED BY <1>1, <1>2, <1>3, <1>4 DEF HostStep

\* A receipt closes no gate that is still claimed; the other commands see no attempt.
LEMMA OthersLeaveAlone ==
  ASSUME SubmissionInvariant, LedgerAssumption, Operator \/ TurnTick \/ UNCHANGED system,
         NEW a \in Attempts
  PROVE  LeftAlone(a)
<1>0. LedgerTypeOK
  BY DEF SubmissionInvariant, SystemTypeOK
<1>1. ASSUME NEW r \in Receipts, NEW j \in Jobs, NEW c \in Attempts \cup {None},
             Reconcile(r, j, c)
      PROVE  LeftAlone(a)
  <2>1. c # None => gates[c].state # "claimed"
    BY <1>1 DEF Reconcile, ReconcileOn, Closable
  <2> QED BY <1>0, <1>1, <2>1, LedgerAssumption
          DEF Reconcile, ReconcileOn, LeftAlone, LedgerAssumption
<1>2. CASE Operator
  <2>1. \/ UNCHANGED <<attempts, gates>>
        \/ \E r \in Receipts, j \in Jobs, c \in Attempts \cup {None} : Reconcile(r, j, c)
    BY <1>2 DEF Operator, Mark, MarkJob, Reset, ResetFailed, ReconcileReceipt
  <2> QED BY <1>1, <2>1 DEF LeftAlone
<1>3. CASE TurnTick \/ UNCHANGED system
  BY <1>3 DEF TurnTick, Tick, system, LeftAlone
<1> QED BY <1>2, <1>3

-----------------------------------------------------------------------------
(* A worker that writes keeps its claim and its lease *)

\* A worker enters its reservation's outcome with a claim, its Submit turn with a lease.
LEMMA EntersWriting ==
  ASSUME SubmissionInvariant, LedgerAssumption, NEW w \in Workers, HoldsWrite(w), WorkerStep(w)
  PROVE  HoldsWrite(w)'
<1>0. /\ LedgerTypeOK /\ WorkerTypeOK
      /\ worker[w].pc \in Holding => worker[w].att \in Attempts
  BY DEF SubmissionInvariant, SystemTypeOK, WorkerKnows, HoldsAttempt
<1>1. CASE Reserve(w)
  <2>1. PICK a \in Attempts : a = worker[w].att
    BY <1>0, <1>1 DEF Reserve, Holding, Pc
  <2>2. worker'[w].pc = "reserved" /\ worker'[w].att = a
    BY <1>0, <1>1, <2>1, GotoMoves DEF Reserve, MovesTo
  <2>3. gates'[a].state = "claimed"
    BY <1>0, <1>1, <2>1 DEF Reserve, ClaimGate
  <2> QED BY <2>2, <2>3 DEF HoldsWrite, At
<1>2. CASE StartSubmit(w)
  <2>1. PICK a \in Attempts : a = worker[w].att
    BY <1>0, <1>2 DEF StartSubmit, At, Holding, Pc
  <2>2. worker'[w].pc = "submitting" /\ worker'[w].att = a
    BY <1>0, <1>2, <2>1 DEF StartSubmit, WorkerTypeOK, WorkerRow
  <2>3. gates'[a].state = "claimed"
    BY <1>2, <2>1 DEF StartSubmit, At, HoldsWrite, RenewAttempt
  <2>4. RenewAttempt(a, "submit", TRUE)
    BY <1>2, <2>1 DEF StartSubmit
  <2>5. Live(a)'
    <3>1. attempts'[a].status = "in_progress" /\ attempts'[a].lease = now + Lease
      BY <1>0, <2>4 DEF RenewAttempt, Live, AttemptRow
    <3>2. now' = now /\ now + Lease > now
      BY <1>0, <2>4 DEF RenewAttempt, LedgerAssumption
    <3> QED BY <3>1, <3>2 DEF Live
  <2> QED BY <2>2, <2>3, <2>5 DEF HoldsWrite, At, Live
<1>3. CASE worker'[w].pc \notin {"reserved", "submitting"}
  BY <1>3 DEF HoldsWrite, At
<1>4. Reserve(w) \/ StartSubmit(w) \/ worker'[w].pc \notin {"reserved", "submitting"}
  <2>1. ASSUME NEW pc \in Pc \ {"reserved", "submitting"}, NEW result,
               Goto(w, pc) \/ GotoWith(w, pc, result)
        PROVE  worker'[w].pc \notin {"reserved", "submitting"}
    BY <1>0, <2>1, GotoMoves DEF MovesTo
  <2>2. CASE Finish(w)
    BY <1>0, <2>2 DEF Finish, Idle, WorkerTypeOK
  <2>3. CASE (\E j \in Jobs : Select(w, j)) \/ (\E a \in Attempts : Claim(w, a))
    <3>1. ASSUME NEW j \in Jobs, Select(w, j) PROVE worker'[w].pc = "candidate"
      BY <1>0, <3>1 DEF Select, WorkerTypeOK, Idle
    <3>2. ASSUME NEW a \in Attempts, Claim(w, a) PROVE worker'[w].pc = "prepare"
      BY <1>0, <3>2 DEF Claim, WorkerTypeOK, WorkerRow
    <3> QED BY <2>3, <3>1, <3>2
  <2>4. CASE BeginAcquire(w) \/ EndPrepare(w) \/ EndPreview(w) \/ EnterReservation(w)
             \/ ReservationLeaseLost(w) \/ Denied(w)
    <3>1. {"scan", "release", "mark", "restore", "reserve", "reserve_again", "waiting"}
            \subseteq Pc \ {"reserved", "submitting"}
      BY DEF Pc
    <3> QED BY <2>1, <2>2, <2>4, <3>1
            DEF BeginAcquire, EndPrepare, EndPreview, EnterReservation, ReservationLeaseLost,
                Denied
  <2>5. CASE SubmitLeaseLost(w) \/ EndSubmit(w) \/ Observe(w) \/ Confirm(w) \/ Decide(w)
    <3>1. {"use", "observing", "confirm", "observed_use", "decide"}
            \subseteq Pc \ {"reserved", "submitting"}
      BY DEF Pc
    <3> QED BY <2>1, <2>5, <3>1 DEF SubmitLeaseLost, EndSubmit, Observe, Confirm, Decide
  <2>6. CASE WriteUse(w) \/ WriteGate(w) \/ LedgerWriteFails(w) \/ LauncherError(w)
    <3>1. {"observed_gate", "gate", "error_gate", "use", "mark", "error_mark", "error_use",
           "release"} \subseteq Pc \ {"reserved", "submitting"}
      BY DEF Pc
    <3> QED BY <2>1, <2>6, <3>1 DEF WriteUse, WriteGate, LedgerWriteFails, LauncherError
  <2>7. CASE AwaitApplicant(w)
    BY <2>7 DEF AwaitApplicant, At
  <2>8. Finish(w) \/ Reserve(w) \/ StartSubmit(w)
        \/ (\E j \in Jobs : Select(w, j)) \/ (\E a \in Attempts : Claim(w, a))
        \/ BeginAcquire(w) \/ EndPrepare(w) \/ EndPreview(w) \/ EnterReservation(w)
        \/ ReservationLeaseLost(w) \/ Denied(w)
        \/ SubmitLeaseLost(w) \/ EndSubmit(w) \/ Observe(w) \/ Confirm(w) \/ Decide(w)
        \/ WriteUse(w) \/ WriteGate(w) \/ LedgerWriteFails(w) \/ LauncherError(w)
        \/ AwaitApplicant(w)
    BY DEF WorkerStep, SelectNothing, BlockPortal, SkipCandidate, Restore, Record, ThreadDies,
           Release, Crash
  <2> QED BY <2>2, <2>3, <2>4, <2>5, <2>6, <2>7, <2>8
<1> QED BY <1>1, <1>2, <1>3, <1>4

\* The claim and lease of a writing worker survive every step that is not its own: the
\* clock waits for the end of its Submit turn.
LEMMA KeepsWriting ==
  ASSUME SubmissionInvariant, NEW w \in Workers, HoldsWrite(w), worker'[w] = worker[w],
         worker[w].pc \in {"reserved", "submitting"} => LeftAlone(worker[w].att),
         UNCHANGED now \/ TurnTick
  PROVE  HoldsWrite(w)'
<1>1. CASE worker[w].pc \notin {"reserved", "submitting"}
  BY <1>1 DEF HoldsWrite, At
<1>2. CASE worker[w].pc \in {"reserved", "submitting"}
  <2>1. PICK a \in Attempts : a = worker[w].att
    BY <1>2 DEF SubmissionInvariant, WorkerKnows, HoldsAttempt, Holding, Pc
  <2>2. gates'[a].state = "claimed"
    BY <1>2, <2>1 DEF HoldsWrite, LeftAlone
  <2>3. ASSUME At(w, "submitting") PROVE Live(a)'
    <3>0. LedgerTypeOK /\ now \in Nat /\ attempts[a].lease \in Nat
      BY DEF SubmissionInvariant, SystemTypeOK, AttemptRow
    <3>1. attempts[a].status = "in_progress" /\ attempts[a].lease > now
      BY <2>1, <2>3 DEF HoldsWrite, Live
    <3>2. attempts'[a] = attempts[a]
      BY <1>2, <2>1, <3>0, <3>1 DEF LeftAlone, Expired
    <3>3. attempts[a].lease > now'
      <4>1. CASE UNCHANGED now
        BY <3>1, <4>1
      <4>2. CASE TurnTick
        BY <2>1, <2>3, <4>2 DEF TurnTick, Tick
      <4> QED BY <4>1, <4>2
    <3> QED BY <3>1, <3>2, <3>3 DEF Live
  <2> QED BY <2>1, <2>2, <2>3 DEF HoldsWrite, At, Live
<1> QED BY <1>1, <1>2

\* The writer invariant survives every step.
LEMMA WriterStep ==
  ASSUME SubmissionInvariant, SubmissionInvariant', WriterInvariant, LedgerAssumption,
         WorkersAssumption, HostAssumption, [Next]_system
  PROVE  WriterInvariant'
<1>0. SystemTypeOK /\ LedgerTypeOK /\ RowsKept
  BY StepShape DEF SubmissionInvariant, SystemTypeOK, Quiet
<1>1. LeasesKept /\ ClaimsChecked
  BY WorkerLeases, HostLeases, OthersLeases DEF Next
<1>2. SingleWriter'
  BY <1>0, <1>1, SingleWriterStep DEF WriterInvariant
<1>3. ASSUME NEW w \in Workers PROVE HoldsWrite(w)'
  <2>0. HoldsWrite(w)
    BY DEF WriterInvariant
  <2>1. CASE WorkerStep(w)
    BY <2>0, <2>1, EntersWriting
  <2>2. worker[w].pc \in {"reserved", "submitting"} =>
          /\ worker[w].pc \in Holding /\ worker[w].att \in Attempts
          /\ attempts[worker[w].att].status # "free"
          /\ host[worker[w].att] = "none"
    BY DEF SubmissionInvariant, WorkerKnows, HoldsAttempt, Holding, Pc
  <2>3. ASSUME NEW v \in Workers, v # w, WorkerStep(v), UNCHANGED host
        PROVE  HoldsWrite(w)'
    <3>1. worker'[w] = worker[w]
      <4>1. GatesGrow
        BY <1>0, ShapeGrows, StepShape DEF Quiet
      <4> QED BY <1>0, <2>3, <4>1, WorkerOwn DEF OwnStep, SubmissionInvariant
    <3>2. worker[w].pc \in {"reserved", "submitting"} => LeftAlone(worker[w].att)
      BY <2>2, <2>3, WorkerLeavesAlone DEF SubmissionInvariant, AttemptsDistinct
    <3>3. UNCHANGED now
      BY <2>3 DEF WorkerStep, BeginAcquire, RecoverStale, SelectNothing, BlockPortal,
         BlockCandidate, SkipCandidate, Select, Claim, StartAttempt, AwaitApplicant,
         RenewAttempt, EndPrepare, EndPreview, MarkResult, Restore, RestorePreview,
         EnterReservation, ReservationLeaseLost, Reserve, ClaimGate, Denied, StartSubmit,
         SubmitLeaseLost, EndSubmit, Observe, Confirm, AdmitEmail, Decide, WriteUse,
         UpdateUse, WriteGate, UpdateGate, LedgerWriteFails, Record, ThreadDies, Release,
         ReleaseLock, LauncherError, Crash, ledger
    <3> QED BY <2>0, <3>1, <3>2, <3>3, KeepsWriting
  <2>4. ASSUME NEW c \in Attempts, HostStep(c), UNCHANGED worker
        PROVE  HoldsWrite(w)'
    <3>1. worker[w].pc \in {"reserved", "submitting"} => worker[w].att # c
      <4>1. GatesGrow
        BY <1>0, ShapeGrows, StepShape DEF Quiet
      <4>2. host[c] # "none" \/ attempts[c].status = "free"
        BY <1>0, <2>4, <4>1, HostOwn DEF SubmissionInvariant, SystemTypeOK
      <4> QED BY <2>2, <4>2
    <3>2. UNCHANGED now
      BY <2>4 DEF HostStep, Begin, StartAttempt, Resume, RenewAttempt, MaterialChanged,
         Checkpoint, HostClaim, ReplayClaim, SubmitIntent, Fail, Receipt, ledger
    <3>3. worker[w].pc \in {"reserved", "submitting"} => LeftAlone(worker[w].att)
      BY <2>2, <2>4, <3>1, HostLeavesAlone
    <3> QED BY <2>0, <2>4, <3>2, <3>3, KeepsWriting
  <2>5. CASE (Operator \/ TurnTick \/ UNCHANGED system) /\ UNCHANGED <<worker, host>>
    <3>1. worker[w].pc \in {"reserved", "submitting"} => LeftAlone(worker[w].att)
      BY <2>2, <2>5, OthersLeaveAlone
    <3>2. UNCHANGED now \/ TurnTick
      BY <2>5 DEF Operator, Mark, MarkJob, Reset, ResetFailed, ReconcileReceipt, Reconcile, system
    <3> QED BY <2>0, <2>5, <3>1, <3>2, KeepsWriting
  <2> QED BY <2>1, <2>3, <2>4, <2>5 DEF Next, TurnTick, system
<1> QED BY <1>2, <1>3 DEF WriterInvariant

-----------------------------------------------------------------------------
(* The theorems *)

\* The writer invariant holds in every reachable state.
LEMMA WriterHolds == Spec => []WriterInvariant
<1>1. Init => WriterInvariant
  BY DEF Init, LedgerInit, WorkerInit, Idle, WriterInvariant, SingleWriter, HoldsWrite, At
<1>2. SubmissionInvariant /\ SubmissionInvariant' /\ WriterInvariant /\ [Next]_system
        => WriterInvariant'
  BY LedgerAssumption, WorkersAssumption, HostAssumption, WriterStep
<1> QED BY <1>1, <1>2, InvariantHolds, PTL DEF Spec

\* Two claimed gates never both have a live lease, for any number of processes, threads
\* and attended hosts: a claim looks for other writers in its own transaction, and a
\* lease that ended is never renewed (claim_submission_gate, update_attempt).
THEOREM OneWriterHoldsTheGate == Spec => []SingleWriter
<1>1. WriterInvariant => SingleWriter
  BY DEF WriterInvariant
<1> QED BY <1>1, WriterHolds, PTL

\* No two workers, of one process or of several, are ever inside a Submit turn together.
THEOREM OneSubmitTurn == Spec => []OneSubmitter
<1>1. SubmissionInvariant /\ WriterInvariant => OneSubmitter
  <2> SUFFICES ASSUME SubmissionInvariant, WriterInvariant, NEW v \in Workers, NEW w \in Workers,
                      At(v, "submitting"), At(w, "submitting")
               PROVE  v = w
    BY DEF OneSubmitter
  <2>1. /\ worker[v].pc \in Holding /\ worker[v].att \in Attempts
        /\ worker[w].pc \in Holding /\ worker[w].att \in Attempts
    BY DEF SubmissionInvariant, WorkerKnows, HoldsAttempt, At, Holding, Pc
  <2>2. worker[v].att = worker[w].att
    BY <2>1 DEF WriterInvariant, HoldsWrite, SingleWriter, At
  <2> QED BY <2>1, <2>2 DEF SubmissionInvariant, AttemptsDistinct
<1> QED BY <1>1, InvariantHolds, WriterHolds, PTL

-----------------------------------------------------------------------------
(* The submission gate is a lock *)

\* Who may be writing: the attempts whose gate is claimed and whose lease is live.
Writers == {a \in Attempts : gates[a].state = "claimed" /\ Live(a)}

Gate == INSTANCE Exclusion WITH
  Resources <- {"gate"}, Users <- Attempts, users <- [r \in {"gate"} |-> Writers]

GateIsALock == Gate!Spec

\* An attempt that is writing was so before, or is claimed while nobody writes.
LEMMA WritersMove ==
  ASSUME SubmissionInvariant, SubmissionInvariant', RowsKept, LeasesKept, ClaimsChecked,
         NEW a \in Writers'
  PROVE  a \in Writers \/ (Writers \subseteq {a} /\ gates[a].state # "claimed")
<1>1. CASE gates[a].state = "claimed"
  <2>1. attempts[a].status # "free"
    BY <1>1 DEF Writers, SubmissionInvariant, AttemptKnows, Gated
  <2>2. attempts[a].status = "in_progress" /\ attempts'[a].lease > now'
    BY <2>1 DEF Writers, RowsKept, Live
  <2>3. attempts'[a].lease \in Nat
    BY DEF Writers, SubmissionInvariant, SystemTypeOK, LedgerTypeOK, AttemptRow
  <2>4. Live(a)
    BY <2>1, <2>2, <2>3 DEF Writers, LeasesKept, Live
  <2> QED BY <1>1, <2>4 DEF Writers
<1>2. CASE gates[a].state # "claimed"
  BY <1>2 DEF Writers, ClaimsChecked, WriterBusy
<1> QED BY <1>1, <1>2

\* A step of the system takes the gate for one attempt while nobody holds it, or ends the
\* claim of the one that did, or leaves it alone.
LEMMA GateLockStep ==
  ASSUME SubmissionInvariant, SubmissionInvariant', SingleWriter, SingleWriter',
         LedgerAssumption, WorkersAssumption, HostAssumption, [Next]_system
  PROVE  [Gate!Next]_[r \in {"gate"} |-> Writers]
<1>0. RowsKept /\ LeasesKept /\ ClaimsChecked
  BY StepShape, WorkerLeases, HostLeases, OthersLeases DEF Quiet, Next
<1>1. /\ \A a, c \in Writers : a = c
      /\ \A a, c \in Writers' : a = c
  BY DEF SingleWriter, Writers
<1>2. CASE Writers' = Writers
  BY <1>2
<1>3. ASSUME NEW a \in Writers', a \notin Writers PROVE Gate!Next
  <2>1. a \in Attempts /\ Writers = {} /\ Writers' = {a}
    BY <1>0, <1>1, <1>3, WritersMove DEF Writers
  <2>2. Gate!Enter(a, {"gate"})
    BY <2>1 DEF Gate!Enter
  <2> QED BY <2>1, <2>2 DEF Gate!Next
<1>4. ASSUME NEW a \in Writers, a \notin Writers', Writers' \subseteq Writers PROVE Gate!Next
  <2>1. a \in Attempts /\ Writers' = Writers \ {a}
    BY <1>1, <1>4 DEF Writers
  <2>2. Gate!Leave(a)
    BY <2>1 DEF Gate!Leave
  <2> QED BY <2>1, <2>2 DEF Gate!Next
<1> QED BY <1>2, <1>3, <1>4

\* The submission gate implements the lock that Exclusion promises, across processes,
\* threads and attended hosts: the right to write is taken only while nobody has it, by one
\* attempt, and nobody takes it from its holder; it ends with a verdict, with the attempt
\* or with the lease, and an expired holder never has it back (claim_submission_gate).
THEOREM GateIsExclusive == Spec => GateIsALock
<1>1. Init => Gate!Init
  BY DEF Init, LedgerInit, Gate!Init, Writers
<1>2. /\ SubmissionInvariant /\ SubmissionInvariant' /\ WriterInvariant /\ WriterInvariant'
      /\ [Next]_system
      => [Gate!Next]_[r \in {"gate"} |-> Writers]
  BY GateLockStep, LedgerAssumption, WorkersAssumption, HostAssumption DEF WriterInvariant
<1> QED BY <1>1, <1>2, InvariantHolds, WriterHolds, PTL DEF Spec, GateIsALock, Gate!Spec

-----------------------------------------------------------------------------
(* The rate limits *)

\* The gates that count against the limits.
Counts(a) == gates[a].state \notin {"none", "cancelled_before_action"}

\* Only the host gives a claim back, and then it is done with the attempt.
CancelledIsFailed ==
  \A a \in Attempts : gates[a].state = "cancelled_before_action" => host[a] = "failed"

ClaimsArePast == \A a \in Attempts : Counts(a) => gates[a].at <= now

RateInvariant == CancelledIsFailed /\ ClaimsArePast /\ ClaimsSpaced /\ RollingCap

\* A gate that counts did so before, with the same time, or is claimed alone, now, and
\* within the limits.
CountsMove ==
  /\ now \in Nat /\ now' \in Nat /\ now' >= now
  /\ \/ \A a \in Attempts : Counts(a)' => Counts(a) /\ gates'[a].at = gates[a].at
     \/ \E a \in Attempts :
          /\ ~HourlyCapReached /\ GapOpen /\ now' = now
          /\ ~Counts(a) /\ gates'[a].at = now
          /\ \A c \in Attempts \ {a} : gates'[c] = gates[c]

\* The claim that both actors make.
LEMMA ClaimCounts ==
  ASSUME LedgerTypeOK, NEW a \in Attempts, NEW b, NEW j, NEW target, UNCHANGED now,
         ~Gated(a), Refusal(a, j, b, target) = "none",
         gates' = [gates EXCEPT ![a] = [state |-> "claimed", batch |-> b, at |-> now]]
  PROVE  CountsMove
<1>1. ~HourlyCapReached /\ GapOpen
  BY DEF Refusal
<1>2. ~Counts(a) /\ gates'[a].at = now /\ \A c \in Attempts \ {a} : gates'[c] = gates[c]
  BY DEF Gated, Counts
<1> QED BY <1>1, <1>2 DEF CountsMove

\* A worker writes only to its own gate, which nobody cancelled.
LEMMA WorkerCounts ==
  ASSUME SubmissionInvariant, CancelledIsFailed, NEW w \in Workers, WorkerStep(w), UNCHANGED host
  PROVE  CountsMove /\ CancelledIsFailed'
<1> DEFINE a == worker[w].att
<1>0. /\ LedgerTypeOK /\ now \in Nat
      /\ worker[w].pc \in Holding => a \in Attempts /\ host[a] = "none"
      /\ worker[w].pc \in Settling => worker[w].result \in Outcome
  BY DEF SubmissionInvariant, SystemTypeOK, WorkerKnows, HoldsAttempt
<1>1. UNCHANGED now
  BY DEF WorkerStep, BeginAcquire, RecoverStale, SelectNothing, BlockPortal,
     BlockCandidate, SkipCandidate, Select, Claim, StartAttempt, AwaitApplicant,
     RenewAttempt, EndPrepare, EndPreview, MarkResult, Restore, RestorePreview,
     EnterReservation, ReservationLeaseLost, Reserve, ClaimGate, Denied, StartSubmit,
     SubmitLeaseLost, EndSubmit, Observe, Confirm, AdmitEmail, Decide, WriteUse,
     UpdateUse, WriteGate, UpdateGate, LedgerWriteFails, Record, ThreadDies, Release,
     ReleaseLock, LauncherError, Crash, ledger
<1>2. CASE UNCHANGED gates
  BY <1>0, <1>1, <1>2 DEF CountsMove, Counts, CancelledIsFailed
<1>3. CASE Reserve(w)
  <2>1. a \in Attempts /\ ClaimGate(a, worker[w].job, BatchOf[w], SuccessTarget)
    BY <1>0, <1>3 DEF Reserve, Holding, Pc
  <2>2. CountsMove
    BY <1>0, <1>1, <2>1, ClaimCounts DEF ClaimGate
  <2>3. CancelledIsFailed'
    BY <1>0, <2>1 DEF ClaimGate, CancelledIsFailed
  <2> QED BY <2>2, <2>3
<1>4. CASE WriteGate(w)
  <2>1. a \in Attempts /\ host[a] = "none" /\ UpdateGate(a, worker[w].result) /\ worker[w].result \in Outcome
    BY <1>0, <1>4 DEF WriteGate, At, Settling, Holding, Pc
  <2>2. Counts(a)
    BY <2>1 DEF UpdateGate, Gated, Counts, CancelledIsFailed
  <2>3. /\ gates'[a].at = gates[a].at /\ gates'[a].state \in Outcome
        /\ \A c \in Attempts \ {a} : gates'[c] = gates[c]
    BY <1>0, <2>1 DEF UpdateGate, GateRow
  <2>4. CountsMove
    BY <1>0, <1>1, <2>2, <2>3 DEF CountsMove, Counts
  <2>5. CancelledIsFailed'
    BY <2>1, <2>3 DEF CancelledIsFailed, Outcome
  <2> QED BY <2>4, <2>5
<1>5. UNCHANGED gates \/ Reserve(w) \/ WriteGate(w)
  BY DEF WorkerStep, BeginAcquire, RecoverStale, SelectNothing, BlockPortal, BlockCandidate,
         SkipCandidate, Select, Claim, StartAttempt, AwaitApplicant, RenewAttempt,
         EndPrepare, EndPreview, MarkResult, Restore, RestorePreview, EnterReservation,
         ReservationLeaseLost, Denied, StartSubmit, SubmitLeaseLost, EndSubmit, Observe,
         Confirm, AdmitEmail, Decide, WriteUse, UpdateUse, LedgerWriteFails, Record,
         ThreadDies, Release, ReleaseLock, LauncherError, Crash, ledger
<1> QED BY <1>2, <1>3, <1>4, <1>5

\* The host claims as a worker does, and cancels only what it ends.
LEMMA HostCounts ==
  ASSUME SubmissionInvariant, CancelledIsFailed, NEW a \in Attempts, HostStep(a)
  PROVE  CountsMove /\ CancelledIsFailed'
<1>0. /\ LedgerTypeOK /\ HostTypeOK /\ now \in Nat /\ AttemptKnows(a) /\ HostKnows(a)
  BY DEF SubmissionInvariant, SystemTypeOK
<1>1. UNCHANGED now /\ \A c \in Attempts \ {a} : host'[c] = host[c]
  BY <1>0 DEF HostStep, Begin, StartAttempt, Resume, RenewAttempt, MaterialChanged,
     Checkpoint, HostClaim, ReplayClaim, SubmitIntent, Fail, Receipt, ledger, HostTypeOK
<1>2. host[a] # "failed"
  BY <1>0 DEF HostStep, Begin, StartAttempt, Resume, MaterialChanged, Checkpoint, HostClaim,
     ReplayClaim, SubmitIntent, Fail, Receipt, Preparing, Current, Intended, AttemptKnows, HostKnows
<1>3. gates[a].state # "cancelled_before_action"
  BY <1>2 DEF CancelledIsFailed
<1>4. CASE (\E j \in Jobs : Begin(a, j)) \/ Resume(a) \/ MaterialChanged(a) \/ Checkpoint(a)
           \/ ReplayClaim(a) \/ SubmitIntent(a)
  <2>1. UNCHANGED gates
    BY <1>4 DEF Begin, StartAttempt, Resume, RenewAttempt, MaterialChanged, Checkpoint,
                ReplayClaim, SubmitIntent, ledger
  <2> QED BY <1>0, <1>1, <1>3, <2>1 DEF CountsMove, Counts, CancelledIsFailed
<1>5. CASE HostClaim(a)
  <2>1. CountsMove
    BY <1>0, <1>1, <1>5, ClaimCounts DEF HostClaim
  <2>2. CancelledIsFailed'
    BY <1>0, <1>1, <1>5 DEF HostClaim, CancelledIsFailed
  <2> QED BY <2>1, <2>2
<1>6. CASE Fail(a)
  <2>1. \/ UNCHANGED gates
        \/ /\ Gated(a) /\ gates'[a].at = gates[a].at
           /\ gates'[a].state = IF Intended(a) THEN "submission_uncertain" ELSE "cancelled_before_action"
           /\ \A c \in Attempts \ {a} : gates'[c] = gates[c]
    BY <1>0, <1>6 DEF Fail, GateRow
  <2>2. ~Intended(a) => host'[a] = "failed"
    BY <1>0, <1>6 DEF Fail, HostTypeOK
  <2>3. CountsMove
    BY <1>0, <1>1, <1>3, <2>1 DEF CountsMove, Counts, Gated
  <2>4. CancelledIsFailed'
    BY <1>1, <1>3, <2>1, <2>2 DEF CancelledIsFailed
  <2> QED BY <2>3, <2>4
<1>7. ASSUME NEW r \in Receipts, Receipt(a, r) PROVE CountsMove /\ CancelledIsFailed'
  <2>1. /\ gates'[a].at = gates[a].at /\ gates'[a].state = "applied" /\ Gated(a)
        /\ \A c \in Attempts \ {a} : gates'[c] = gates[c]
    <3>1. Gated(a) /\ a # None
      BY <1>0, <1>7, LedgerAssumption DEF Receipt, HostKnows, LedgerAssumption
    <3>2. CASE host[a] = "applied"
      BY <1>0, <1>7, <3>1, <3>2 DEF Receipt, ReconcileOn, GateRow
    <3>3. CASE host[a] # "applied"
      <4> DEFINE G == [gates EXCEPT ![a].state = "submission_uncertain"]
      <4>1. gates' = [G EXCEPT ![a].state = "applied"]
        BY <1>7, <3>1, <3>3 DEF Receipt, ReconcileOn
      <4> QED BY <1>0, <3>1, <4>1 DEF GateRow
    <3> QED BY <3>1, <3>2, <3>3
  <2>2. CountsMove
    BY <1>0, <1>1, <1>3, <2>1 DEF CountsMove, Counts, Gated
  <2>3. CancelledIsFailed'
    BY <1>1, <2>1 DEF CancelledIsFailed
  <2> QED BY <2>2, <2>3
<1> QED BY <1>4, <1>5, <1>6, <1>7 DEF HostStep

\* The operator closes only gates that count, and the clock only moves on.
LEMMA OthersCounts ==
  ASSUME SubmissionInvariant, CancelledIsFailed, Operator \/ TurnTick \/ UNCHANGED system, UNCHANGED host
  PROVE  CountsMove /\ CancelledIsFailed'
<1>0. LedgerTypeOK /\ now \in Nat
  BY DEF SubmissionInvariant, SystemTypeOK
<1>1. CASE UNCHANGED gates /\ now' \in {now, now + 1}
  BY <1>0, <1>1 DEF CountsMove, Counts, CancelledIsFailed
<1>2. ASSUME NEW r \in Receipts, NEW j \in Jobs, NEW a \in Attempts, Reconcile(r, j, a), a # None
      PROVE  CountsMove /\ CancelledIsFailed'
  <2>1. /\ UNCHANGED now /\ gates[a].state \in {"submission_uncertain", "applied"}
        /\ gates'[a].state = "applied" /\ gates'[a].at = gates[a].at
        /\ \A c \in Attempts \ {a} : gates'[c] = gates[c]
    BY <1>0, <1>2 DEF Reconcile, ReconcileOn, Closable, GateRow
  <2> QED BY <1>0, <2>1 DEF CountsMove, Counts, CancelledIsFailed
<1>3. CASE Operator
  <2>1. \/ UNCHANGED <<now, gates>>
        \/ \E r \in Receipts, j \in Jobs, a \in Attempts : Reconcile(r, j, a) /\ a # None
    BY ZenonT(60), <1>3 DEF Operator, Mark, MarkJob, Reset, ResetFailed, ReconcileReceipt, Reconcile, ReconcileOn
  <2> QED BY <1>1, <1>2, <2>1
<1>4. CASE TurnTick \/ UNCHANGED system
  BY <1>1, <1>4 DEF TurnTick, Tick, system
<1> QED BY <1>3, <1>4

\* Claims stay in the past and apart: whatever a claim does not look at is older than the
\* window, and so older than the gap.
LEMMA SpacedStep ==
  ASSUME LedgerTypeOK, LedgerTypeOK', LedgerAssumption, ClaimsArePast, ClaimsSpaced, CountsMove
  PROVE  ClaimsArePast' /\ ClaimsSpaced'
<1> USE DEF LedgerAssumption
<1>1. \A a \in Attempts : gates[a].at \in Nat /\ gates'[a].at \in Nat
  BY DEF GateRow
<1>2. CASE \A a \in Attempts : Counts(a)' => Counts(a) /\ gates'[a].at = gates[a].at
  <2>1. ClaimsArePast'
    BY <1>1, <1>2 DEF CountsMove, ClaimsArePast
  <2>2. ClaimsSpaced'
    BY <1>1, <1>2 DEF ClaimsSpaced, Counts
  <2> QED BY <2>1, <2>2
<1>3. ASSUME NEW a \in Attempts, GapOpen, now' = now, gates'[a].at = now,
             \A c \in Attempts \ {a} : gates'[c] = gates[c]
      PROVE  ClaimsArePast' /\ ClaimsSpaced'
  <2>0. now \in Nat
    BY DEF CountsMove
  <2>1. ClaimsArePast'
    BY <1>1, <1>3, <2>0 DEF ClaimsArePast, Counts
  <2>2. ASSUME NEW c \in Attempts \ {a}, Counts(c), Gap <= Hour PROVE now - gates[c].at >= Gap
    <3>1. CASE gates[c].at >= now - Hour
      BY <1>3, <2>2, <3>1 DEF GapOpen, RecentGates, Counts
    <3>2. CASE ~(gates[c].at >= now - Hour)
      BY <1>1, <2>0, <2>2, <3>2
    <3> QED BY <3>1, <3>2
  <2>3. ClaimsSpaced'
    <3> SUFFICES ASSUME Gap <= Hour, NEW c \in Attempts, NEW d \in Attempts, c # d,
                        Counts(c)', Counts(d)'
                 PROVE  gates'[c].at - gates'[d].at >= Gap \/ gates'[d].at - gates'[c].at >= Gap
      BY DEF ClaimsSpaced, Counts
    <3>1. CASE c = a
      BY <1>3, <2>2, <3>1 DEF Counts
    <3>2. CASE d = a
      BY <1>3, <2>2, <3>2 DEF Counts
    <3>3. CASE c # a /\ d # a
      BY <1>3, <3>3 DEF ClaimsSpaced, Counts
    <3> QED BY <3>1, <3>2, <3>3
  <2> QED BY <2>1, <2>3
<1> QED BY <1>2, <1>3 DEF CountsMove

\* The window only moves on, and whoever enters it found room.
LEMMA CapStep ==
  ASSUME LedgerTypeOK, LedgerTypeOK', LedgerAssumption, LedgerFinite, RollingCap, CountsMove
  PROVE  RollingCap'
<1> USE DEF LedgerAssumption
<1> SUFFICES ASSUME HourlyMax > 0 PROVE Cardinality(RecentGates') <= HourlyMax
  BY DEF RollingCap
<1>0. /\ IsFiniteSet(RecentGates) /\ Cardinality(RecentGates) \in Nat
      /\ Cardinality(RecentElsewhere) \in Nat
      /\ IsFiniteSet(RecentGates') /\ Cardinality(RecentGates') \in Nat
  BY FS_Subset, FS_CardinalityType DEF LedgerFinite, RecentGates, RecentElsewhere
<1>1. Cardinality(RecentGates) <= HourlyMax
  BY DEF RollingCap
<1>2. \A a \in Attempts : gates[a].at \in Nat /\ gates'[a].at \in Nat
  BY DEF GateRow
<1>3. CASE \A a \in Attempts : Counts(a)' => Counts(a) /\ gates'[a].at = gates[a].at
  <2>1. RecentGates' \subseteq RecentGates
    BY <1>2, <1>3 DEF CountsMove, RecentGates, Counts
  <2>2. Cardinality(RecentGates') <= Cardinality(RecentGates)
    BY <1>0, <2>1, FS_Subset
  <2> QED BY <1>0, <1>1, <2>2
<1>4. ASSUME NEW a \in Attempts, ~HourlyCapReached, now' = now,
             \A c \in Attempts \ {a} : gates'[c] = gates[c]
      PROVE  Cardinality(RecentGates') <= HourlyMax
  <2>1. RecentGates' \subseteq RecentGates \cup {a}
    BY <1>4 DEF RecentGates
  <2>2. /\ IsFiniteSet(RecentGates \cup {a})
        /\ Cardinality(RecentGates \cup {a}) \in {Cardinality(RecentGates), Cardinality(RecentGates) + 1}
    BY <1>0, FS_AddElement
  <2>3. Cardinality(RecentGates') <= Cardinality(RecentGates \cup {a})
    BY <2>1, <2>2, FS_Subset
  <2>4. Cardinality(RecentGates) + 1 <= HourlyMax
    BY <1>0, <1>4 DEF HourlyCapReached
  <2> QED BY <1>0, <2>2, <2>3, <2>4
<1> QED BY <1>3, <1>4 DEF CountsMove

\* Both limits hold together with what they rest on.
LEMMA RatesHold == Spec => []RateInvariant
<1>1. Init => RateInvariant
  <2> SUFFICES ASSUME Init PROVE RateInvariant
    OBVIOUS
  <2>1. \A a \in Attempts : gates[a].state = "none"
    BY DEF Init, LedgerInit
  <2>2. RecentGates = {}
    BY <2>1 DEF RecentGates
  <2>3. RollingCap
    BY <2>2, FS_EmptySet, LedgerAssumption DEF RollingCap, LedgerAssumption
  <2> QED BY <2>1, <2>3 DEF RateInvariant, CancelledIsFailed, ClaimsArePast, ClaimsSpaced, Counts
<1>2. SubmissionInvariant /\ SubmissionInvariant' /\ RateInvariant /\ [Next]_system => RateInvariant'
  <2> SUFFICES ASSUME SubmissionInvariant, SubmissionInvariant', RateInvariant, [Next]_system
               PROVE  RateInvariant'
    OBVIOUS
  <2>1. LedgerTypeOK /\ LedgerTypeOK'
    BY DEF SubmissionInvariant, SystemTypeOK
  <2>2. CountsMove /\ CancelledIsFailed'
    BY WorkerCounts, HostCounts, OthersCounts DEF RateInvariant, Next, system
  <2>3. ClaimsArePast' /\ ClaimsSpaced'
    BY <2>1, <2>2, LedgerAssumption, SpacedStep DEF RateInvariant
  <2>4. RollingCap'
    BY <2>1, <2>2, LedgerAssumption, LedgerFinite, CapStep DEF RateInvariant
  <2> QED BY <2>2, <2>3, <2>4 DEF RateInvariant
<1> QED BY <1>1, <1>2, InvariantHolds, PTL DEF Spec

\* Two claims that count are the minimum gap apart, although a claim looks back no further
\* than the rolling window and others may be cancelled in between (claim_submission_gate).
THEOREM ClaimsKeepTheGap == Spec => []ClaimsSpaced
<1>1. RateInvariant => ClaimsSpaced
  BY DEF RateInvariant
<1> QED BY <1>1, RatesHold, PTL

\* No rolling window holds more counted claims than the cap, though gates change their state
\* after they were counted.
THEOREM CapOfTheWindow == Spec => []RollingCap
<1>1. RateInvariant => RollingCap
  BY DEF RateInvariant
<1> QED BY <1>1, RatesHold, PTL

-----------------------------------------------------------------------------
(* What a step may do to a job and the attempts at it *)

\* The attempts at j stay what they are, and only one in progress may be latched.
RowsStay(j) ==
  \A a \in Attempts : attempts'[a].job = j =>
    /\ attempts[a].job = j
    /\ attempts'[a].status = attempts[a].status
    /\ Started(a)' => Started(a) \/ attempts[a].status = "in_progress"

JobStays(j) == RowsStay(j) /\ jobs'[j] = jobs[j]

\* The job is set to a status that offers it to nobody.
JobSet(j) ==
  /\ RowsStay(j)
  /\ jobs'[j].task = jobs[j].task
  /\ jobs'[j].status # "in_progress"
  /\ ~Claimable(jobs'[j])

\* A new attempt takes a job that no attempt works on or may have submitted.
JobDrawn(j) ==
  /\ JobFree(j)
  /\ jobs'[j].status = "in_progress"
  /\ \E a \in Attempts :
       /\ attempts[a].status = "free"
       /\ jobs'[j].task = a
       /\ attempts'[a].job = j /\ attempts'[a].status = "in_progress" /\ ~Started(a)'
       /\ \A c \in Attempts \ {a} : attempts'[c] = attempts[c]

\* No attempt at the job goes on; it is offered again only if none may have submitted it.
JobEnds(j) ==
  /\ \A a \in Attempts : attempts'[a].job = j =>
       attempts[a].job = j /\ attempts'[a].status # "in_progress" /\ Started(a)' = Started(a)
  /\ jobs'[j].status # "in_progress"
  /\ Claimable(jobs'[j]) => \A a \in Attempts : attempts'[a].job = j => ~Pressed(a)'
  /\ \/ jobs'[j].task = jobs[j].task
     \/ \A a \in Attempts : attempts[a].job = j => ~Pressed(a)

JobMoves == \A j \in Jobs : JobStays(j) \/ JobSet(j) \/ JobDrawn(j) \/ JobEnds(j)

\* A step that touches no attempt sets jobs, or leaves them.
LEMMA SettingMoves ==
  ASSUME UNCHANGED attempts,
         \A j \in Jobs : \/ jobs'[j] = jobs[j]
                         \/ /\ jobs'[j].task = jobs[j].task
                            /\ jobs'[j].status # "in_progress"
                            /\ ~Claimable(jobs'[j])
  PROVE  JobMoves
<1>1. \A j \in Jobs : RowsStay(j)
  BY DEF RowsStay, Started
<1> QED BY <1>1 DEF JobMoves, JobStays, JobSet

\* A row in progress that keeps its job and its status may be latched.
LEMMA RenewMoves ==
  ASSUME LedgerTypeOK, NEW a \in Attempts, attempts[a].status = "in_progress", NEW row,
         attempts' = [attempts EXCEPT ![a] = row],
         row.job = attempts[a].job, row.status = "in_progress"
  PROVE  \A j \in Jobs : RowsStay(j)
<1>1. \A c \in Attempts : /\ attempts'[c].job = attempts[c].job
                          /\ attempts'[c].status = attempts[c].status
                          /\ c # a => attempts'[c] = attempts[c]
  OBVIOUS
<1> QED BY <1>1 DEF RowsStay, Started

\* Drawing an attempt takes a job that is free.
LEMMA DrawMoves ==
  ASSUME LedgerTypeOK, NEW a \in Attempts, NEW k \in Jobs, NEW b, JobFree(k),
         StartAttempt(a, k, b)
  PROVE  JobMoves
<1> DEFINE row == [job |-> k, batch |-> b, phase |-> "prepare", started |-> FALSE,
                   status |-> "in_progress", lease |-> now + Lease]
<1>1. /\ attempts[a].status = "free"
      /\ attempts' = [attempts EXCEPT ![a] = row]
      /\ jobs' = [jobs EXCEPT ![k] = [jobs[k] EXCEPT !.status = "in_progress", !.task = a]]
  BY DEF StartAttempt
<1>2. /\ attempts'[a].job = k /\ attempts'[a].status = "in_progress" /\ ~Started(a)'
      /\ \A c \in Attempts \ {a} : attempts'[c] = attempts[c]
  BY <1>1 DEF Started
<1>3. /\ jobs'[k].status = "in_progress" /\ jobs'[k].task = a
      /\ \A j \in Jobs \ {k} : jobs'[j] = jobs[j]
  <2>1. jobs[k] \in JobRow
    OBVIOUS
  <2> QED BY <1>1, <2>1 DEF JobRow
<1>4. JobDrawn(k)
  BY <1>1, <1>2, <1>3 DEF JobDrawn
<1>5. ASSUME NEW j \in Jobs \ {k} PROVE JobStays(j)
  <2>1. \A c \in Attempts : attempts'[c].job = j => attempts'[c] = attempts[c]
    BY <1>2
  <2> QED BY <1>3, <2>1 DEF JobStays, RowsStay, Started
<1> QED BY <1>4, <1>5 DEF JobMoves

\* Ending the attempt that the job points at ends every attempt at the job.
LEMMA EndMoves ==
  ASSUME LedgerTypeOK, OneAttemptPerJob, NEW a \in Attempts, NEW k \in Jobs,
         attempts[a].job = k, jobs[k].task = a,
         NEW status \in AttemptStatus \ {"free", "in_progress"},
         attempts' = Finalized(a, status),
         \A j \in Jobs \ {k} : jobs'[j] = jobs[j],
         jobs'[k].status # "in_progress",
         Claimable(jobs'[k]) =>
           /\ ~Pressed(a)'
           /\ \A c \in Attempts \ {a} : attempts[c].job = k => ~Pressed(c),
         \/ jobs'[k].task = a
         \/ \A c \in Attempts : attempts[c].job = k => ~Pressed(c)
  PROVE  JobMoves
<1>1. \A c \in Attempts :
        /\ attempts'[c].job = attempts[c].job
        /\ attempts'[c].started = attempts[c].started
        /\ c # a => attempts'[c] = attempts[c]
  BY DEF Finalized, AttemptRow
<1>2. attempts'[a].status # "in_progress"
  BY DEF Finalized, AttemptRow
<1>3. \A c \in Attempts \ {a} : attempts[c].job = k => attempts[c].status # "in_progress"
  BY DEF OneAttemptPerJob
<1>4. JobEnds(k)
  <2>1. \A c \in Attempts : attempts'[c].job = k =>
          attempts[c].job = k /\ attempts'[c].status # "in_progress" /\ Started(c)' = Started(c)
    BY <1>1, <1>2, <1>3 DEF Started
  <2>2. \A c \in Attempts \ {a} : Pressed(c)' <=> Pressed(c)
    BY <1>1 DEF Pressed, Started
  <2>3. Claimable(jobs'[k]) => \A c \in Attempts : attempts'[c].job = k => ~Pressed(c)'
    BY <1>1, <2>2
  <2> QED BY <2>1, <2>3 DEF JobEnds
<1>5. ASSUME NEW j \in Jobs \ {k} PROVE JobStays(j)
  <2>1. \A c \in Attempts : attempts'[c].job = j => attempts'[c] = attempts[c]
    BY <1>1
  <2> QED BY <2>1 DEF JobStays, RowsStay, Started
<1> QED BY <1>4, <1>5 DEF JobMoves

\* Recovery ends the expired attempt of a job, and hides the job if it was latched.
LEMMA RecoverMoves ==
  ASSUME LedgerTypeOK, JobInvariant, RecoverStale
  PROVE  JobMoves
<1>0. OneAttemptPerJob /\ \A a \in Attempts : PressesAlone(a)
  BY DEF JobInvariant
<1>1. \A a \in Attempts :
        /\ ~Expired(a) => attempts'[a] = attempts[a]
        /\ attempts'[a].job = attempts[a].job
        /\ attempts'[a].started = attempts[a].started
        /\ Expired(a) => attempts'[a].status =
             IF attempts[a].started THEN "submission_uncertain" ELSE "abandoned_pre_submit"
  BY DEF RecoverStale, AttemptRow
<1>2. ASSUME NEW j \in Jobs, ~\E a \in Attempts : Expired(a) /\ attempts[a].job = j
      PROVE  JobStays(j)
  <2>1. jobs'[j] = jobs[j]
    BY <1>2 DEF RecoverStale
  <2> QED BY <1>1, <1>2, <2>1 DEF JobStays, RowsStay, Started
<1>3. ASSUME NEW j \in Jobs, NEW a \in Attempts, Expired(a), attempts[a].job = j
      PROVE  JobEnds(j)
  <2>1. attempts[a].status = "in_progress" /\ jobs[j].task = a /\ ~Claimable(jobs[j])
    BY <1>0, <1>3 DEF Expired, OneAttemptPerJob
  <2>2. \A c \in Attempts \ {a} : attempts[c].job = j =>
          attempts[c].status # "in_progress" /\ ~Pressed(c)
    BY <1>0, <1>3, <2>1 DEF OneAttemptPerJob, PressesAlone
  <2>3. jobs'[j] = IF jobs[j].status = "in_progress" THEN Recovered(jobs[j], attempts[a].started)
                                                    ELSE jobs[j]
    <3>1. PICK first \in [Jobs -> Attempts] :
            /\ \A i \in Jobs : (\E c \in Attempts : Expired(c) /\ attempts[c].job = i)
                 => Expired(first[i]) /\ attempts[first[i]].job = i
            /\ jobs' = [i \in Jobs |->
                 IF /\ jobs[i].status = "in_progress"
                    /\ \E c \in Attempts : Expired(c) /\ attempts[c].job = i
                   THEN Recovered(jobs[i], attempts[first[i]].started)
                   ELSE jobs[i]]
      BY DEF RecoverStale
    <3>2. first[j] = a
      BY <1>3, <2>2, <3>1 DEF Expired
    <3> QED BY <1>3, <3>1, <3>2
  <2>4. jobs[j] \in JobRow
    OBVIOUS
  <2>5. /\ jobs'[j].task = jobs[j].task
        /\ jobs'[j].status # "in_progress"
        /\ Claimable(jobs'[j]) => ~attempts[a].started
    BY <2>1, <2>3, <2>4 DEF Recovered, Claimable, JobRow
  <2>6. \A c \in Attempts : attempts'[c].job = j =>
          attempts[c].job = j /\ attempts'[c].status # "in_progress" /\ Started(c)' = Started(c)
    BY <1>1, <1>3, <2>2 DEF Started
  <2>7. \A c \in Attempts \ {a} : attempts[c].job = j => ~Pressed(c)'
    <3>1. \A c \in Attempts \ {a} : attempts[c].job = j => attempts'[c] = attempts[c]
      BY <1>1, <2>2 DEF Expired
    <3> QED BY <2>2, <3>1 DEF Pressed, Started
  <2>8. ~attempts[a].started => ~Pressed(a)'
    BY <1>1 DEF Pressed, Started
  <2>9. Claimable(jobs'[j]) => \A c \in Attempts : attempts'[c].job = j => ~Pressed(c)'
    BY <1>1, <2>5, <2>7, <2>8
  <2> QED BY <2>5, <2>6, <2>9 DEF JobEnds
<1> QED BY <1>2, <1>3 DEF JobMoves

-----------------------------------------------------------------------------
(* The rows of a job keep together *)

\* An attempt in progress, and one that may have submitted, is drawn and has its job.
LEMMA KnownJobs ==
  ASSUME SubmissionInvariant
  PROVE  \A a \in Attempts :
           attempts[a].status = "in_progress" \/ Pressed(a) =>
             attempts[a].status # "free" /\ attempts[a].job \in Jobs
BY DEF SubmissionInvariant, AttemptKnows, Pressed

\* Each of these moves leaves one attempt in progress at a job, which it holds.
LEMMA AttemptsStep ==
  ASSUME SubmissionInvariant, SubmissionInvariant', JobInvariant, RowsKept, JobMoves
  PROVE  OneAttemptPerJob' /\ \A j \in Jobs : JobHeld(j)'
<1>0. OneAttemptPerJob /\ \A j \in Jobs : JobHeld(j)
  BY DEF JobInvariant
<1>1. ASSUME NEW a \in Attempts, NEW j \in Jobs, attempts'[a].job = j,
             attempts'[a].status = "in_progress"
      PROVE  jobs'[j].task = a /\ ~Claimable(jobs'[j])
  <2>1. CASE JobStays(j) \/ JobSet(j)
    BY <1>0, <1>1, <2>1 DEF JobStays, JobSet, RowsStay, OneAttemptPerJob
  <2>2. CASE JobDrawn(j)
    <3>1. PICK c \in Attempts :
            /\ attempts[c].status = "free"
            /\ jobs'[j].task = c
            /\ \A d \in Attempts \ {c} : attempts'[d] = attempts[d]
      BY <2>2 DEF JobDrawn
    <3>2. a = c
      BY <1>1, <2>2, <3>1 DEF JobDrawn, JobFree
    <3> QED BY <2>2, <3>1, <3>2 DEF JobDrawn, Claimable
  <2>3. CASE JobEnds(j)
    BY <1>1, <2>3 DEF JobEnds
  <2> QED BY <2>1, <2>2, <2>3 DEF JobMoves
<1>2. OneAttemptPerJob'
  <2>1. \A a \in Attempts : attempts'[a].status = "in_progress" => attempts'[a].job \in Jobs
    BY KnownJobs DEF SubmissionInvariant, AttemptKnows
  <2> QED BY <1>1, <2>1 DEF OneAttemptPerJob, Claimable
<1>3. ASSUME NEW j \in Jobs, jobs'[j].status = "in_progress"
      PROVE  \E a \in Attempts : /\ jobs'[j].task = a /\ attempts'[a].job = j
                                 /\ attempts'[a].status = "in_progress"
  <2>1. CASE JobStays(j)
    <3>1. PICK a \in Attempts : /\ jobs[j].task = a /\ attempts[a].job = j
                                /\ attempts[a].status = "in_progress"
      BY <1>0, <1>3, <2>1 DEF JobStays, JobHeld
    <3>2. attempts'[a].job = j
      BY <3>1 DEF RowsKept
    <3> QED BY <2>1, <3>1, <3>2 DEF JobStays, RowsStay
  <2>2. CASE JobDrawn(j)
    BY <2>2 DEF JobDrawn
  <2>3. CASE JobSet(j) \/ JobEnds(j)
    BY <1>3, <2>3 DEF JobSet, JobEnds
  <2> QED BY <2>1, <2>2, <2>3 DEF JobMoves
<1> QED BY <1>2, <1>3 DEF JobHeld

\* An attempt that has ended without a refusal does not become refused, nor the reverse.
LEMMA PressedBefore ==
  ASSUME NEW a \in Attempts, Pressed(a)', RowsKept, attempts[a].status # "free",
         Started(a)' => Started(a)
  PROVE  Pressed(a)
BY DEF Pressed, RowsKept, Started

\* Nor do they let a job be submitted twice, or be offered after it may have been.
LEMMA PressesStep ==
  ASSUME SubmissionInvariant, SubmissionInvariant', JobInvariant, RowsKept, JobMoves
  PROVE  /\ NoRetryAfterSubmit' /\ OnePress'
         /\ \A a \in Attempts : PressesAlone(a)'
<1>0. /\ OneAttemptPerJob /\ NoRetryAfterSubmit /\ OnePress
      /\ \A a \in Attempts : PressesAlone(a)
  BY DEF JobInvariant
<1>1. \A a \in Attempts : attempts'[a].status = "in_progress" \/ Pressed(a)' =>
        attempts'[a].status # "free" /\ attempts'[a].job \in Jobs
  BY DEF SubmissionInvariant, AttemptKnows, Pressed, Started
<1>2. \A a \in Attempts : attempts[a].status # "free" => attempts'[a].job = attempts[a].job
  BY DEF RowsKept
<1>3. ASSUME NEW j \in Jobs, RowsStay(j), NEW a \in Attempts, attempts'[a].job = j, Pressed(a)'
      PROVE  Pressed(a) \/ attempts[a].status = "in_progress"
  BY <1>3 DEF RowsStay, Pressed
<1>4. ASSUME NEW j \in Jobs, JobEnds(j), NEW a \in Attempts, attempts'[a].job = j, Pressed(a)'
      PROVE  Pressed(a)
  <2>1. attempts[a].status # "free"
    BY <1>4 DEF JobEnds, Pressed, Started, SubmissionInvariant, AttemptKnows
  <2> QED BY <1>4, <2>1, PressedBefore DEF JobEnds
<1>5. ASSUME NEW j \in Jobs, JobDrawn(j), NEW a \in Attempts, attempts'[a].job = j
      PROVE  ~Pressed(a)'
  BY <1>5 DEF JobDrawn, JobFree, Pressed, Started
<1>6. ASSUME NEW a \in Attempts, NEW j \in Jobs, attempts'[a].job = j, Pressed(a)'
      PROVE  ~Claimable(jobs'[j])
  <2>1. CASE JobStays(j)
    <3>1. attempts[a].job = j /\ (Pressed(a) \/ attempts[a].status = "in_progress")
      BY <1>3, <1>6, <2>1 DEF JobStays, RowsStay
    <3> QED BY <1>0, <2>1, <3>1 DEF JobStays, OneAttemptPerJob, NoRetryAfterSubmit, Pressed
  <2>2. CASE JobSet(j) \/ JobDrawn(j) \/ JobEnds(j)
    BY <1>5, <1>6, <2>2 DEF JobSet, JobEnds
  <2> QED BY <2>1, <2>2 DEF JobMoves
<1>7. NoRetryAfterSubmit'
  BY <1>1, <1>6 DEF NoRetryAfterSubmit, Pressed
<1>8. ASSUME NEW a \in Attempts, NEW c \in Attempts, NEW j \in Jobs, a # c,
             attempts'[a].job = j, attempts'[c].job = j, Pressed(c)'
      PROVE  attempts'[a].status # "in_progress" /\ ~Pressed(a)'
  <2>1. CASE RowsStay(j)
    <3>1. attempts[a].job = j /\ attempts[c].job = j
      BY <1>8, <2>1 DEF RowsStay
    <3>2. Pressed(c) \/ attempts[c].status = "in_progress"
      BY <1>3, <1>8, <2>1
    <3>3. ~(attempts[a].status = "in_progress" /\ attempts[c].status = "in_progress")
      BY <1>0, <1>8, <3>1 DEF OneAttemptPerJob
    <3>4. attempts[a].status # "in_progress"
      BY <1>0, <1>8, <3>1, <3>2, <3>3 DEF PressesAlone
    <3>5. ~Pressed(a)
      BY <1>0, <1>8, <3>1, <3>2 DEF PressesAlone, OnePress
    <3> QED BY <1>3, <1>8, <2>1, <3>4, <3>5 DEF RowsStay
  <2>2. CASE JobEnds(j)
    <3>1. Pressed(c) /\ attempts[a].job = j /\ attempts[c].job = j
      BY <1>4, <1>8, <2>2 DEF JobEnds
    <3> QED BY <1>0, <1>4, <1>8, <2>2, <3>1 DEF JobEnds, OnePress
  <2>3. CASE JobDrawn(j)
    BY <1>5, <1>8, <2>3
  <2> QED BY <2>1, <2>2, <2>3 DEF JobMoves, JobStays, JobSet
<1>9. OnePress'
  BY <1>1, <1>8 DEF OnePress
<1>10. \A a \in Attempts : PressesAlone(a)'
  BY <1>1, <1>8 DEF PressesAlone
<1> QED BY <1>7, <1>9, <1>10

-----------------------------------------------------------------------------
(* Every step moves each job in one of these ways *)

\* An attempt in progress that ends, and sets its job.
LEMMA OwnerEnds ==
  ASSUME LedgerTypeOK, JobInvariant, NEW a \in Attempts, NEW k \in Jobs,
         attempts[a].job = k, attempts[a].status = "in_progress",
         NEW status \in AttemptStatus \ {"free", "in_progress"},
         attempts' = Finalized(a, status),
         \A j \in Jobs \ {k} : jobs'[j] = jobs[j],
         jobs'[k].task = jobs[k].task, jobs'[k].status # "in_progress",
         Claimable(jobs'[k]) => ~Started(a) \/ status = "failed"
  PROVE  JobMoves
<1>1. /\ OneAttemptPerJob /\ jobs[k].task = a
      /\ \A c \in Attempts \ {a} : attempts[c].job = k => ~Pressed(c)
  BY DEF JobInvariant, OneAttemptPerJob, PressesAlone
<1>2. attempts'[a].started = attempts[a].started /\ attempts'[a].status = status
  BY DEF Finalized, AttemptRow
<1>3. ~Started(a) \/ status = "failed" => ~Pressed(a)'
  BY <1>2 DEF Pressed, Started
<1> QED BY <1>1, <1>3, EndMoves

\* mark_result, of an attempt that owns its job.
LEMMA MarkMoves ==
  ASSUME LedgerTypeOK, JobInvariant, NEW a \in Attempts, attempts[a].job \in Jobs,
         NEW status \in Outcome \cup {"previewed"}, NEW permanent,
         MarkResult(a, status, permanent),
         status = "previewed" => ~Started(a)
  PROVE  JobMoves
<1> DEFINE k == attempts[a].job
<1>1. attempts[a].status = "in_progress" /\ jobs[k].task = a
  BY DEF MarkResult, OwnsJob, Live
<1>2. /\ jobs'[k].task = a /\ jobs'[k].status = status
      /\ \A j \in Jobs \ {k} : jobs'[j] = jobs[j]
  BY DEF MarkResult
<1>3. attempts' = Finalized(a, status)
  BY DEF MarkResult
<1>4. status \in AttemptStatus \ {"free", "in_progress"} /\ status # "in_progress"
  BY DEF Outcome, AttemptStatus
<1>5. Claimable(jobs'[k]) => ~Started(a) \/ status = "failed"
  BY <1>2 DEF Claimable, Outcome
<1> QED BY <1>1, <1>2, <1>3, <1>4, <1>5, OwnerEnds

\* A job that is offered has no attempt in progress and was submitted by none.
LEMMA ClaimableFree ==
  ASSUME OneAttemptPerJob, NoRetryAfterSubmit, NEW j \in Jobs, Claimable(jobs[j])
  PROVE  JobFree(j)
BY DEF OneAttemptPerJob, NoRetryAfterSubmit, JobFree, Pressed

\* What a worker's own attempt tells of its job.
LEMMA WorkerMoves ==
  ASSUME SubmissionInvariant, JobInvariant, NEW w \in Workers, WorkerStep(w)
  PROVE  JobMoves
<1> DEFINE a == worker[w].att
           k == worker[w].job
<1>0. /\ LedgerTypeOK /\ WorkerKnows(w) /\ WorkerJob(w)
      /\ OneAttemptPerJob /\ NoRetryAfterSubmit
      /\ \A j \in Jobs : JobHeld(j)
      /\ worker[w].pc \in Holding =>
           a \in Attempts /\ k \in Jobs /\ attempts[a].job = k
  BY DEF SubmissionInvariant, SystemTypeOK, WorkerKnows, HoldsAttempt, JobInvariant
<1>1. CASE UNCHANGED <<jobs, attempts>>
  BY <1>1, SettingMoves
<1>2. CASE BeginAcquire(w)
  BY <1>0, <1>2, RecoverMoves DEF BeginAcquire
<1>3. CASE BlockPortal(w)
  <2>1. k \in Jobs /\ jobs[k] \in JobRow
    BY <1>0, <1>3 DEF BlockPortal, WorkerKnows
  <2>2. /\ \A j \in Jobs \ {k} : jobs'[j] = jobs[j]
        /\ jobs'[k].task = jobs[k].task /\ jobs'[k].status = "manual"
    BY <1>0, <1>3, <2>1 DEF BlockPortal, BlockCandidate, JobRow
  <2>3. UNCHANGED attempts
    BY <1>3 DEF BlockPortal, BlockCandidate
  <2> QED BY <2>1, <2>2, <2>3, SettingMoves DEF Claimable
<1>4. ASSUME NEW c \in Attempts, Claim(w, c) PROVE JobMoves
  <2>1. k \in Jobs /\ Claimable(jobs[k])
    BY <1>0, <1>4 DEF Claim, StillCurrent, WorkerKnows, WorkerJob
  <2>2. JobFree(k)
    BY <1>0, <2>1, ClaimableFree
  <2> QED BY <1>0, <1>4, <2>1, <2>2, DrawMoves DEF Claim
<1>5. CASE EndPreview(w)
  <2>1. a \in Attempts /\ attempts[a].job \in Jobs /\ ~Started(a)
    BY <1>0, <1>5 DEF EndPreview, At, Holding, Pc, BeforeSubmit, WorkerKnows, Started
  <2> QED BY <1>0, <1>1, <1>5, <2>1, MarkMoves DEF EndPreview, ledger
<1>6. CASE Restore(w)
  <2>1. PICK c \in Attempts, i \in Jobs :
          /\ c = a /\ i = k /\ attempts[c].job = i
          /\ At(w, "restore") /\ w \in DryRun /\ ~Started(c)
    BY <1>0, <1>6 DEF Restore, At, Holding, Pc, BeforeSubmit, WorkerKnows, WorkerJob, Started
  <2>2. CASE jobs[i].task # c
    BY <1>1, <1>6, <2>1, <2>2 DEF Restore, RestorePreview
  <2>3. CASE jobs[i].task = c
    <3>1. /\ attempts' = Finalized(c, "previewed")
          /\ jobs' = [jobs EXCEPT ![i] = [worker[w].row EXCEPT !.applied = jobs[i].applied]]
      BY <1>6, <2>1, <2>3 DEF Restore, RestorePreview
    <3>2. /\ Claimable(worker[w].row) /\ worker[w].row \in JobRow
          /\ \A d \in Attempts : attempts[d].job = i => ~Pressed(d)
      BY <1>0, <2>1, <2>3 DEF WorkerJob, WorkerKnows, At, Holding, Pc
    <3>3. /\ jobs'[i].status # "in_progress"
          /\ \A j \in Jobs \ {i} : jobs'[j] = jobs[j]
      BY <1>0, <2>1, <3>1, <3>2 DEF Claimable, JobRow
    <3>4. ~Pressed(c)'
      <4>1. attempts'[c].started = attempts[c].started
        BY <1>0, <2>1, <3>1 DEF Finalized, AttemptRow
      <4> QED BY <2>1, <4>1 DEF Pressed, Started
    <3>5. LedgerTypeOK /\ OneAttemptPerJob
      BY <1>0
    <3>6. "previewed" \in AttemptStatus \ {"free", "in_progress"}
      BY DEF AttemptStatus
    <3> QED BY <2>1, <2>3, <3>1, <3>2, <3>3, <3>4, <3>5, <3>6, EndMoves
  <2> QED BY <2>2, <2>3
<1>7. CASE EnterReservation(w) \/ StartSubmit(w) \/ AwaitApplicant(w)
  <2>1. a \in Attempts /\ UNCHANGED jobs
    BY <1>0, <1>7 DEF EnterReservation, StartSubmit, AwaitApplicant, RenewAttempt, At, Holding, Pc
  <2>2. PICK phase, started : RenewAttempt(a, phase, started)
    BY <1>7 DEF EnterReservation, StartSubmit, AwaitApplicant
  <2> DEFINE row == [attempts[a] EXCEPT !.phase = phase, !.started = started,
                                        !.lease = now + Lease]
  <2>3. /\ attempts[a].status = "in_progress" /\ attempts[a] \in AttemptRow
        /\ attempts' = [attempts EXCEPT ![a] = row]
    BY <1>0, <2>1, <2>2 DEF RenewAttempt, Live
  <2>4. row.job = attempts[a].job /\ row.status = "in_progress"
    BY <2>3 DEF AttemptRow
  <2> HIDE DEF row
  <2>5. \A j \in Jobs : RowsStay(j)
    BY <1>0, <2>1, <2>3, <2>4, RenewMoves
  <2> QED BY <2>1, <2>5 DEF JobMoves, JobStays
<1>8. CASE Record(w)
  <2>1. a \in Attempts /\ attempts[a].job \in Jobs /\ worker[w].result \in Outcome
    BY <1>0, <1>8 DEF Record, Settling, Holding, Pc, WorkerKnows
  <2>2. worker[w].result # "previewed"
    BY <2>1 DEF Outcome
  <2> QED BY <1>0, <1>8, <2>1, <2>2, MarkMoves DEF Record
<1>9. CASE Release(w)
  <2>1. a \in Attempts /\ k \in Jobs /\ attempts[a].job = k /\ ~Started(a)
    BY <1>0, <1>9 DEF Release, At, Holding, Pc, WorkerJob
  <2>2. CASE ~(jobs[k].status = "in_progress" /\ jobs[k].task = a)
    BY <1>1, <1>9, <2>1, <2>2 DEF Release, ReleaseLock
  <2>3. CASE jobs[k].status = "in_progress" /\ jobs[k].task = a
    <3>1. attempts[a].status = "in_progress"
      BY <1>0, <2>1, <2>3 DEF JobHeld
    <3>2. jobs' = [jobs EXCEPT ![k].status = "none"] /\ attempts' = Finalized(a, "released")
      BY <1>9, <2>1, <2>3 DEF Release, ReleaseLock
    <3>3. /\ jobs'[k].status = "none" /\ jobs'[k].task = jobs[k].task
          /\ \A j \in Jobs \ {k} : jobs'[j] = jobs[j]
      BY <1>0, <2>1, <3>2 DEF JobRow
    <3> QED BY <1>0, <2>1, <3>1, <3>2, <3>3, OwnerEnds DEF AttemptStatus
  <2> QED BY <2>2, <2>3
<1>10. \/ UNCHANGED <<jobs, attempts>> \/ BeginAcquire(w) \/ BlockPortal(w)
       \/ (\E c \in Attempts : Claim(w, c)) \/ EndPreview(w) \/ Restore(w)
       \/ EnterReservation(w) \/ StartSubmit(w) \/ AwaitApplicant(w) \/ Record(w) \/ Release(w)
  BY DEF WorkerStep, SelectNothing, SkipCandidate, Select, EndPrepare, ReservationLeaseLost,
         Reserve, ClaimGate, Denied, SubmitLeaseLost, EndSubmit, Observe, Confirm, AdmitEmail,
         Decide, WriteUse, UpdateUse, WriteGate, UpdateGate, LedgerWriteFails, ThreadDies,
         LauncherError, Crash, ledger
<1> QED BY <1>1, <1>2, <1>3, <1>4, <1>5, <1>6, <1>7, <1>8, <1>9, <1>10

\* A reconciled receipt applies its job, and sets no other.
LEMMA ReconcileSets ==
  ASSUME NEW J \in [Jobs -> JobRow], NEW G, NEW U, NEW r, NEW k \in Jobs, NEW a,
         ReconcileOn(J, G, U, r, k, a)
  PROVE  /\ jobs'[k].task = J[k].task /\ jobs'[k].status = "applied"
         /\ \A j \in Jobs \ {k} : jobs'[j] = J[j]
BY DEF ReconcileOn, JobRow

\* An attended command keeps its attempt in progress at its job, or ends it.
LEMMA HostMoves ==
  ASSUME SubmissionInvariant, JobInvariant, NEW a \in Attempts, HostStep(a)
  PROVE  JobMoves
<1> DEFINE k == attempts[a].job
<1>0. /\ LedgerTypeOK /\ AttemptKnows(a) /\ HostKnows(a) /\ OneAttemptPerJob
      /\ attempts[a] \in AttemptRow
  BY DEF SubmissionInvariant, SystemTypeOK, JobInvariant
<1>1. CASE UNCHANGED <<jobs, attempts>>
  BY <1>1, SettingMoves
<1>2. ASSUME NEW j \in Jobs, Begin(a, j) PROVE JobMoves
  <2>1. JobFree(j)
    BY <1>2 DEF Begin, JobFree, Pressed, Started
  <2> QED BY <1>0, <1>2, <2>1, DrawMoves DEF Begin
<1>3. CASE Resume(a) \/ Checkpoint(a) \/ HostClaim(a) \/ ReplayClaim(a) \/ SubmitIntent(a)
  <2>1. attempts[a].status = "in_progress" /\ jobs[k].task = a /\ k \in Jobs
    BY <1>0, <1>3 DEF Resume, Checkpoint, HostClaim, ReplayClaim, SubmitIntent, Preparing,
                      Current, AttemptKnows
  <2>2. \E row : /\ attempts' = [attempts EXCEPT ![a] = row]
                 /\ row.job = attempts[a].job /\ row.status = "in_progress"
    <3>1. ASSUME NEW phase, NEW started,
                 attempts' = [attempts EXCEPT ![a] =
                   [attempts[a] EXCEPT !.phase = phase, !.started = started,
                                       !.lease = now + Lease]]
          PROVE  \E row : /\ attempts' = [attempts EXCEPT ![a] = row]
                          /\ row.job = attempts[a].job /\ row.status = "in_progress"
      <4> DEFINE row == [attempts[a] EXCEPT !.phase = phase, !.started = started,
                                            !.lease = now + Lease]
      <4>1. row.job = attempts[a].job /\ row.status = "in_progress"
        BY <1>0, <2>1 DEF AttemptRow
      <4> HIDE DEF row
      <4> QED BY <3>1, <4>1 DEF row
    <3>2. CASE HostClaim(a)
      <4> DEFINE row == [attempts[a] EXCEPT !.phase = "reservation", !.lease = now + Lease]
      <4>1. row.job = attempts[a].job /\ row.status = "in_progress"
        BY <1>0, <2>1 DEF AttemptRow
      <4>2. attempts' = [attempts EXCEPT ![a] = row]
        BY <3>2 DEF HostClaim
      <4> HIDE DEF row
      <4> QED BY <4>1, <4>2
    <3> QED BY <1>3, <3>1, <3>2 DEF Resume, Checkpoint, ReplayClaim, RenewAttempt, SubmitIntent
  <2>3. \A j \in Jobs : RowsStay(j)
    BY <1>0, <2>1, <2>2, RenewMoves
  <2>4. CASE UNCHANGED jobs
    BY <2>3, <2>4 DEF JobMoves, JobStays
  <2>5. CASE SubmitIntent(a)
    <3>1. /\ jobs'[k].task = jobs[k].task /\ jobs'[k].status = "applying"
          /\ \A j \in Jobs \ {k} : jobs'[j] = jobs[j]
      BY <1>0, <2>1, <2>5 DEF SubmitIntent, JobRow
    <3> QED BY <2>3, <3>1 DEF JobMoves, JobStays, JobSet, Claimable
  <2> QED BY <1>3, <2>4, <2>5 DEF Resume, Checkpoint, HostClaim, ReplayClaim, RenewAttempt
<1>4. CASE Fail(a)
  <2> DEFINE phase == IF Intended(a) THEN "submission_uncertain" ELSE "failed"
  <2>1. /\ attempts[a].status = "in_progress" /\ k \in Jobs
        /\ attempts' = Finalized(a, phase) /\ jobs' = [jobs EXCEPT ![k].status = phase]
    BY <1>0, <1>4 DEF Fail, Current, AttemptKnows
  <2>2. /\ jobs'[k].task = jobs[k].task /\ jobs'[k].status = phase
        /\ \A j \in Jobs \ {k} : jobs'[j] = jobs[j]
    BY <1>0, <2>1 DEF JobRow
  <2>3. phase \in AttemptStatus \ {"free", "in_progress"} /\ phase # "in_progress"
    BY DEF AttemptStatus
  <2>4. Claimable(jobs'[k]) => phase = "failed"
    BY <2>2 DEF Claimable
  <2> HIDE DEF phase
  <2> QED BY <1>0, <2>1, <2>2, <2>3, <2>4, OwnerEnds
<1>5. ASSUME NEW r \in Receipts, Receipt(a, r) PROVE JobMoves
  <2>1. k \in Jobs /\ attempts' = Finalized(a, "applied")
    BY <1>0, <1>5 DEF Receipt, HostKnows, AttemptKnows
  <2>2. /\ jobs'[k].task = jobs[k].task /\ jobs'[k].status = "applied"
        /\ \A j \in Jobs \ {k} : jobs'[j] = jobs[j]
    <3> DEFINE J == [jobs EXCEPT ![k].status = "submission_uncertain"]
               G == [gates EXCEPT ![a].state = "submission_uncertain"]
               U == [uses EXCEPT ![gates[a].batch][k] = "submission_uncertain"]
    <3>1. /\ J \in [Jobs -> JobRow] /\ J[k].task = jobs[k].task
          /\ \A j \in Jobs \ {k} : J[j] = jobs[j]
      BY <1>0, <2>1 DEF JobRow, JobStatus
    <3>2. ReconcileOn(jobs, gates, uses, r, k, a) \/ ReconcileOn(J, G, U, r, k, a)
      BY <1>5 DEF Receipt
    <3> HIDE DEF J, G, U
    <3> QED BY <1>0, <2>1, <3>1, <3>2, ReconcileSets
  <2>3. CASE attempts[a].status = "in_progress"
    BY <1>0, <2>1, <2>2, <2>3, OwnerEnds DEF AttemptStatus, Claimable
  <2>4. CASE attempts[a].status # "in_progress"
    BY <2>1, <2>2, <2>4, SettingMoves DEF Finalized, Claimable
  <2> QED BY <2>3, <2>4
<1>6. CASE MaterialChanged(a)
  BY <1>1, <1>6 DEF MaterialChanged, ledger
<1> QED BY <1>2, <1>3, <1>4, <1>5, <1>6 DEF HostStep

\* The operator's commands but the reset hide the jobs that they set.
LEMMA OthersMove ==
  ASSUME SubmissionInvariant, "reset" \notin Commands,
         Operator \/ TurnTick \/ UNCHANGED system
  PROVE  JobMoves
<1>0. LedgerTypeOK
  BY DEF SubmissionInvariant, SystemTypeOK
<1>1. CASE UNCHANGED <<jobs, attempts>>
  BY <1>1, SettingMoves
<1>2. ASSUME NEW j \in Jobs, NEW status \in {"applied", "failed"}, MarkJob(j, status)
      PROVE  JobMoves
  <2>1. /\ jobs'[j].task = jobs[j].task /\ jobs'[j].status = status
        /\ jobs'[j].blocked = (status = "failed")
        /\ \A k \in Jobs \ {j} : jobs'[k] = jobs[k]
    BY <1>0, <1>2 DEF MarkJob, JobRow
  <2>2. UNCHANGED attempts
    BY <1>2 DEF MarkJob
  <2> QED BY <2>1, <2>2, SettingMoves DEF Claimable
<1>3. ASSUME NEW r \in Receipts, NEW j \in Jobs, NEW a \in Attempts \cup {None},
             Reconcile(r, j, a)
      PROVE  JobMoves
  <2>1. /\ jobs'[j].task = jobs[j].task /\ jobs'[j].status = "applied"
        /\ \A k \in Jobs \ {j} : jobs'[k] = jobs[k]
    BY <1>0, <1>3, ReconcileSets DEF Reconcile
  <2>2. UNCHANGED attempts
    BY <1>3 DEF Reconcile
  <2> QED BY <2>1, <2>2, SettingMoves DEF Claimable
<1> QED BY <1>1, <1>2, <1>3 DEF Operator, Mark, Reset, ReconcileReceipt, TurnTick, Tick, system

\* Without the reset, every step moves each job in one of the four ways.
LEMMA JobMovesStep ==
  ASSUME SubmissionInvariant, JobInvariant, "reset" \notin Commands, [Next]_system
  PROVE  JobMoves
BY WorkerMoves, HostMoves, OthersMove DEF Next

-----------------------------------------------------------------------------
(* What a worker knows of its job *)

\* A worker that does not move keeps what it knows, if nobody latched its attempt.
LEMMA WorkerJobStays ==
  ASSUME SubmissionInvariant, JobInvariant, RowsKept, JobMoves,
         NEW w \in Workers, worker'[w] = worker[w],
         worker[w].pc \in Holding /\ ~worker[w].started => ~Started(worker[w].att)'
  PROVE  WorkerJob(w)'
<1>0. WorkerKnows(w) /\ WorkerJob(w) /\ OneAttemptPerJob
  BY DEF SubmissionInvariant, JobInvariant
<1>1. ASSUME w \in DryRun, worker[w].pc \in Holding,
             jobs'[worker[w].job].task = worker[w].att,
             NEW a \in Attempts, attempts'[a].job = worker[w].job, Pressed(a)'
      PROVE  FALSE
  <2>1. PICK j \in Jobs, c \in Attempts :
          /\ j = worker[w].job /\ c = worker[w].att
          /\ attempts[c].status # "free" /\ attempts[c].job = j
    BY <1>0, <1>1 DEF WorkerKnows, HoldsAttempt
  <2>2. /\ ~Started(c)'
        /\ jobs[j].task = c => \A d \in Attempts : attempts[d].job = j => ~Pressed(d)
    BY <1>0, <1>1, <2>1 DEF WorkerJob, WorkerKnows, BeforeSubmit
  <2>3. CASE RowsStay(j) /\ jobs'[j].task = jobs[j].task
    <3>1. attempts[a].job = j /\ ~Pressed(a)
      BY <1>1, <2>1, <2>2, <2>3 DEF RowsStay
    <3>2. attempts[a].status = "in_progress"
      BY <1>1, <2>1, <2>3, <3>1 DEF RowsStay, Pressed
    <3>3. a = c
      BY <1>0, <1>1, <2>1, <2>3, <3>1, <3>2 DEF OneAttemptPerJob
    <3> QED BY <1>1, <2>2, <3>3 DEF Pressed
  <2>4. CASE JobDrawn(j)
    BY <1>1, <2>1, <2>4 DEF JobDrawn
  <2>5. CASE JobEnds(j)
    <3>1. attempts[a].job = j /\ Started(a)' = Started(a) /\ ~Pressed(a)
      BY <1>1, <2>1, <2>2, <2>5 DEF JobEnds
    <3>2. attempts[a].status # "free"
      BY <1>1, <3>1 DEF Pressed, SubmissionInvariant, AttemptKnows
    <3> QED BY <1>1, <3>1, <3>2, PressedBefore
  <2> QED BY <2>3, <2>4, <2>5 DEF JobMoves, JobStays, JobSet
<1> QED BY <1>0, <1>1 DEF WorkerJob, At

\* A worker of a live run that moves on knows what its new pc asks for.
LEMMA WorkerJobMoves ==
  ASSUME WorkerTypeOK, NEW w \in Workers \ DryRun, WorkerJob(w), worker[w].pc \in Holding,
         NEW pc \in Holding \ {"restore", "submitting"}, NEW result,
         GotoWith(w, pc, result) \/ Goto(w, pc),
         worker[w].att \in Attempts,
         attempts'[worker[w].att].started => Started(worker[w].att),
         pc = "release" => ~worker[w].started,
         pc = "observing" => worker[w].started
  PROVE  WorkerJob(w)'
<1>1. PICK a \in Attempts : a = worker[w].att
  OBVIOUS
<1>2. /\ worker'[w].pc = pc /\ worker'[w].att = a /\ worker'[w].started = worker[w].started
  BY <1>1, GotoMoves DEF MovesTo
<1>3. Started(a)' => Started(a)
  BY <1>1 DEF Started
<1> QED BY <1>1, <1>2, <1>3 DEF WorkerJob, At, Holding


\* After each of its own steps a worker knows what its new pc asks for.
LEMMA WorkerJobOwn ==
  ASSUME SubmissionInvariant, JobInvariant, RowsKept, JobMoves,
         WorkersAssumption, NEW w \in Workers, WorkerStep(w)
  PROVE  WorkerJob(w)'
<1>0. /\ LedgerTypeOK /\ WorkerTypeOK /\ WorkerKnows(w) /\ WorkerJob(w)
      /\ OneAttemptPerJob /\ NoRetryAfterSubmit
      /\ worker[w] \in WorkerRow
      /\ worker[w].pc \in Holding => worker[w].att \in Attempts
  BY DEF SubmissionInvariant, SystemTypeOK, JobInvariant, WorkerTypeOK, WorkerKnows, HoldsAttempt
<1>1. CASE worker'[w].pc \in {"idle", "scan"}
  BY <1>1 DEF WorkerJob, At, Holding
<1>2. CASE Finish(w) \/ BeginAcquire(w)
  <2>1. worker'[w].pc \in {"idle", "scan"}
    BY <1>0, <1>2 DEF Finish, BeginAcquire, Goto, Idle, WorkerTypeOK, WorkerRow
  <2> QED BY <1>1, <2>1
<1>3. ASSUME NEW j \in Jobs, Select(w, j) PROVE WorkerJob(w)'
  <2>1. worker'[w].pc = "candidate" /\ worker'[w].row = jobs[j] /\ Claimable(jobs[j])
    BY <1>0, <1>3 DEF Select, WorkerTypeOK, Idle
  <2> QED BY <2>1 DEF WorkerJob, At, Holding
<1>4. ASSUME NEW c \in Attempts, Claim(w, c) PROVE WorkerJob(w)'
  <2>1. PICK j \in Jobs : /\ j = worker[w].job /\ worker[w].row = jobs[j] /\ Claimable(jobs[j])
                          /\ StartAttempt(c, j, BatchOf[w])
    BY <1>0, <1>4 DEF Claim, StillCurrent, WorkerKnows, WorkerJob
  <2>2. /\ worker'[w].pc = "prepare" /\ worker'[w].att = c /\ worker'[w].job = j
        /\ w \in DryRun => worker'[w].row = jobs[j]
    BY <1>0, <1>4, <2>1 DEF Claim, WorkerTypeOK, WorkerRow
  <2>3. /\ ~attempts'[c].started
        /\ \A a \in Attempts \ {c} : attempts'[a] = attempts[a]
    BY <1>0, <2>1 DEF StartAttempt
  <2>4. \A a \in Attempts : attempts'[a].job = j => ~Pressed(a)'
    BY <1>0, <2>1, <2>3, ClaimableFree DEF JobFree, Pressed, Started
  <2> QED BY <2>1, <2>2, <2>3, <2>4 DEF WorkerJob, At, Started
<1>5. CASE AwaitApplicant(w)
  <2>1. worker'[w] = worker[w]
    BY <1>5 DEF AwaitApplicant
  <2>2. ~worker[w].started => ~Started(worker[w].att)'
    <3>1. CASE At(w, "observing")
      BY <1>0, <3>1 DEF WorkerJob, At
    <3>2. CASE At(w, "prepare") /\ RenewAttempt(worker[w].att, "prepare", FALSE)
      <4>1. PICK a \in Attempts : a = worker[w].att
        BY <1>0, <3>2 DEF At, Holding, Pc
      <4>2. attempts'[a].started = FALSE
        BY <1>0, <3>2, <4>1, RenewAttemptShape
      <4> QED BY <2>1, <4>1, <4>2 DEF Started
    <3> QED BY <1>5, <3>1, <3>2 DEF AwaitApplicant
  <2> QED BY <2>1, <2>2, WorkerJobStays
<1>6. CASE EndPreview(w)
  <2>1. CASE Goto(w, "restore") /\ UNCHANGED ledger
    <3>1. /\ worker'[w].pc = "restore" /\ worker'[w].att = worker[w].att
          /\ worker'[w].job = worker[w].job /\ worker'[w].row = worker[w].row
          /\ worker'[w].started = worker[w].started
      BY <1>0, <2>1, GotoMoves DEF MovesTo
    <3>2. At(w, "prepare") /\ w \in DryRun
      BY <1>6 DEF EndPreview
    <3>3. UNCHANGED <<jobs, attempts>>
      BY <2>1 DEF ledger
    <3> QED BY <1>0, <3>1, <3>2, <3>3 DEF WorkerJob, At, Holding, Pc, Started, Pressed, Claimable
  <2> QED BY <1>2, <1>6, <2>1 DEF EndPreview
<1>7. CASE StartSubmit(w)
  <2>1. worker'[w].pc = "submitting" /\ worker'[w].started
    BY <1>0, <1>7 DEF StartSubmit, WorkerTypeOK, WorkerRow
  <2>2. w \notin DryRun
    BY <1>0, <1>7 DEF StartSubmit, WorkerJob, At, Holding, Pc
  <2> QED BY <2>1, <2>2 DEF WorkerJob, At
<1>8. CASE EnterReservation(w)
  <2>1. /\ w \in Workers \ DryRun /\ worker[w].pc \in Holding
        /\ RenewAttempt(worker[w].att, "reservation", FALSE)
    BY <1>8 DEF EnterReservation, At, Holding, Pc
  <2>2. attempts'[worker[w].att].started = FALSE
    BY <1>0, <2>1, RenewAttemptShape
  <2>3. {"reserve", "reserve_again"} \subseteq Holding \ {"restore", "submitting"}
    BY DEF Holding, Pc
  <2> QED BY <1>0, <1>8, <2>1, <2>2, <2>3, WorkerJobMoves DEF EnterReservation
<1>9. ASSUME UNCHANGED attempts, worker[w].pc \in Holding \ {"restore"}, w \notin DryRun,
             NEW pc \in Holding \ {"restore", "submitting"}, NEW result,
             GotoWith(w, pc, result) \/ Goto(w, pc),
             pc = "release" => ~worker[w].started,
             pc = "observing" => worker[w].started
      PROVE  WorkerJob(w)'
  <2>1. worker[w].att \in Attempts /\ (attempts'[worker[w].att].started => Started(worker[w].att))
    BY <1>0, <1>9 DEF Started
  <2> QED BY <1>0, <1>9, <2>1, WorkerJobMoves
<1>10. worker[w].pc \in Holding \ {"prepare", "restore"} => w \notin DryRun
  BY <1>0 DEF WorkerJob
<1>11. worker[w].pc \in BeforeSubmit => ~worker[w].started
  BY <1>0 DEF WorkerKnows
<1>12. CASE EndPrepare(w) \/ ReservationLeaseLost(w) \/ Denied(w)
  <2>1. worker[w].pc \in BeforeSubmit /\ worker[w].pc \in Holding \ {"restore"} /\ w \notin DryRun
    BY <1>10, <1>12 DEF EndPrepare, ReservationLeaseLost, Denied, At, BeforeSubmit, Holding, Pc
  <2>2. UNCHANGED attempts
    BY <1>12 DEF EndPrepare, ReservationLeaseLost, Denied, ledger
  <2>3. \/ \E pc \in {"release", "waiting"} : Goto(w, pc)
        \/ \E result : GotoWith(w, "mark", result)
    BY <1>12 DEF EndPrepare, ReservationLeaseLost, Denied
  <2>4. {"release", "waiting", "mark"} \subseteq Holding \ {"restore", "submitting"}
    BY DEF Holding, Pc
  <2> QED BY <1>9, <1>11, <2>1, <2>2, <2>3, <2>4
<1>13. CASE Reserve(w) \/ SubmitLeaseLost(w) \/ EndSubmit(w)
  <2>1. worker[w].pc \in Holding \ {"prepare", "restore"}
    BY <1>13 DEF Reserve, SubmitLeaseLost, EndSubmit, At, Holding, Pc
  <2>2. UNCHANGED attempts
    BY <1>13 DEF Reserve, ClaimGate, SubmitLeaseLost, EndSubmit, ledger
  <2>3. \/ Goto(w, "reserved") \/ GotoWith(w, "use", "submission_uncertain")
        \/ Goto(w, "observing") /\ worker[w].started
    BY <1>0, <1>13 DEF Reserve, SubmitLeaseLost, EndSubmit, WorkerJob, At
  <2>4. {"reserved", "use", "observing"} \subseteq Holding \ {"restore", "submitting"}
    BY DEF Holding, Pc
  <2> QED BY <1>9, <1>10, <2>1, <2>2, <2>3, <2>4
<1>14. CASE \/ Observe(w) \/ Confirm(w) \/ Decide(w) \/ WriteUse(w) \/ WriteGate(w)
            \/ LedgerWriteFails(w) \/ LauncherError(w)
  <2>1. CASE Observe(w) \/ Confirm(w) \/ Decide(w)
    <3>1. worker[w].pc \in Holding \ {"prepare", "restore"} /\ UNCHANGED attempts
      BY <2>1 DEF Observe, Confirm, AdmitEmail, Decide, At, Holding, Pc, ledger
    <3>2. \E pc \in {"confirm", "use", "observed_use", "decide"} :
            Goto(w, pc) \/ \E result : GotoWith(w, pc, result)
      BY <2>1 DEF Observe, Confirm, Decide
    <3>3. {"confirm", "use", "observed_use", "decide"} \subseteq Holding \ {"restore", "submitting"}
      BY DEF Holding, Pc
    <3> QED BY <1>9, <1>10, <3>1, <3>2, <3>3
  <2>2. CASE WriteUse(w) \/ WriteGate(w) \/ LedgerWriteFails(w)
    <3>1. worker[w].pc \in Holding \ {"prepare", "restore"} /\ UNCHANGED attempts
      BY <2>2 DEF WriteUse, UpdateUse, WriteGate, UpdateGate, LedgerWriteFails, At, Holding, Pc,
                  ledger
    <3>2. \E pc \in {"observed_gate", "gate", "error_gate", "use", "mark", "error_mark"} :
            Goto(w, pc) \/ \E result : GotoWith(w, pc, result)
      BY <2>2 DEF WriteUse, WriteGate, LedgerWriteFails
    <3>3. {"observed_gate", "gate", "error_gate", "use", "mark", "error_mark"}
            \subseteq Holding \ {"restore", "submitting"}
      BY DEF Holding, Pc
    <3> QED BY <1>9, <1>10, <3>1, <3>2, <3>3
  <2>3. CASE LauncherError(w)
    <3>1. worker[w].pc \in Holding \ {"prepare", "restore"} /\ UNCHANGED attempts
      BY <2>3 DEF LauncherError, InTry, Holding, Pc, ledger
    <3>2. \/ GotoWith(w, "error_use", "submission_uncertain")
          \/ Goto(w, "release") /\ ~worker[w].started
      BY <2>3 DEF LauncherError
    <3>3. {"error_use", "release"} \subseteq Holding \ {"restore", "submitting"}
      BY DEF Holding, Pc
    <3> QED BY <1>9, <1>10, <3>1, <3>2, <3>3
  <2> QED BY <1>14, <2>1, <2>2, <2>3
<1>15. \/ Finish(w) \/ BeginAcquire(w) \/ (\E j \in Jobs : Select(w, j))
       \/ (\E c \in Attempts : Claim(w, c)) \/ AwaitApplicant(w) \/ EndPreview(w)
       \/ StartSubmit(w) \/ EnterReservation(w) \/ EndPrepare(w) \/ ReservationLeaseLost(w)
       \/ Denied(w) \/ Reserve(w) \/ SubmitLeaseLost(w) \/ EndSubmit(w) \/ Observe(w)
       \/ Confirm(w) \/ Decide(w) \/ WriteUse(w) \/ WriteGate(w) \/ LedgerWriteFails(w)
       \/ LauncherError(w)
  BY DEF WorkerStep, SelectNothing, BlockPortal, SkipCandidate, Restore, Record, ThreadDies,
         Release, Crash
<1> QED BY <1>2, <1>3, <1>4, <1>5, <1>6, <1>7, <1>8, <1>12, <1>13, <1>14, <1>15

\* No step of another latches the attempt that a worker holds.
LEMMA HeldLatch ==
  ASSUME SubmissionInvariant, LedgerAssumption, WorkersAssumption, HostAssumption,
         NEW w \in Workers, worker[w].pc \in Holding,
         \/ \E v \in Workers \ {w} : WorkerStep(v)
         \/ \E a \in Attempts : HostStep(a)
         \/ Operator \/ TurnTick \/ UNCHANGED system
  PROVE  attempts'[worker[w].att].started = attempts[worker[w].att].started
<1>0. /\ LedgerTypeOK /\ HostTypeOK /\ AttemptsDistinct
      /\ \A v \in Workers : WorkerKnows(v)
      /\ \A a \in Attempts : AttemptKnows(a) /\ HostKnows(a)
      /\ worker[w].att \in Attempts /\ host[worker[w].att] = "none"
  BY DEF SubmissionInvariant, SystemTypeOK, WorkerKnows, HoldsAttempt
<1>1. CASE LatchesKept
  BY <1>0, <1>1 DEF LatchesKept, Started
<1>2. ASSUME NEW v \in Workers \ {w}, WorkerStep(v)
      PROVE  attempts'[worker[w].att].started = attempts[worker[w].att].started
  <2>1. CASE worker[v].pc \in WithGate /\ LatchesOnly(worker[v].att)
    <3>1. worker[w].att # worker[v].att
      BY <1>0, <2>1 DEF AttemptsDistinct, WithGate, Holding, Pc
    <3> QED BY <1>0, <2>1, <3>1 DEF LatchesOnly, Started
  <2> QED BY <1>0, <1>1, <1>2, <2>1, WorkerStepShape DEF Quiet
<1>3. ASSUME NEW a \in Attempts, HostStep(a)
      PROVE  attempts'[worker[w].att].started = attempts[worker[w].att].started
  <2>1. CASE SubmitIntent(a) /\ LatchesOnly(a)
    <3>1. worker[w].att # a
      BY <1>0, <2>1 DEF SubmitIntent
    <3> QED BY <1>0, <2>1, <3>1 DEF LatchesOnly, Started
  <2> QED BY <1>0, <1>1, <1>3, <2>1, HostStepShape DEF Quiet
<1>4. CASE Operator \/ TurnTick \/ UNCHANGED system
  BY <1>0, <1>1, <1>4, OperatorShape DEF system, ledger, Quiet
<1> QED BY <1>2, <1>3, <1>4

\* The invariant of the jobs is inductive, as long as no operator resets one.
LEMMA JobStep ==
  ASSUME SubmissionInvariant, SubmissionInvariant', JobInvariant, "reset" \notin Commands,
         LedgerAssumption, WorkersAssumption, HostAssumption, [Next]_system
  PROVE  JobInvariant'
<1>1. RowsKept /\ GatesGrow /\ JobMoves
  BY ShapeGrows, StepShape, JobMovesStep DEF Quiet, SubmissionInvariant, SystemTypeOK
<1>2. ASSUME NEW w \in Workers PROVE WorkerJob(w)'
  <2>1. CASE WorkerStep(w)
    BY <1>1, <2>1, WorkerJobOwn
  <2>2. ASSUME worker'[w] = worker[w],
               \/ \E v \in Workers \ {w} : WorkerStep(v)
               \/ \E a \in Attempts : HostStep(a)
               \/ Operator \/ TurnTick \/ UNCHANGED system
        PROVE  WorkerJob(w)'
    <3>1. worker[w].pc \in Holding /\ ~worker[w].started => ~Started(worker[w].att)
      BY DEF JobInvariant, WorkerJob
    <3>2. worker[w].pc \in Holding /\ ~worker[w].started => ~Started(worker[w].att)'
      BY <2>2, <3>1, HeldLatch DEF Started
    <3> QED BY <1>1, <2>2, <3>2, WorkerJobStays
  <2>3. ASSUME NEW v \in Workers \ {w}, WorkerStep(v), UNCHANGED host
        PROVE  worker'[w] = worker[w]
    BY <1>1, <2>3, WorkerOwn DEF OwnStep, SubmissionInvariant, SystemTypeOK
  <2> QED BY <2>1, <2>2, <2>3 DEF Next, TurnTick, system
<1> QED BY <1>1, <1>2, AttemptsStep, PressesStep DEF JobInvariant

-----------------------------------------------------------------------------
(* The theorems about jobs *)

\* The invariant of the jobs holds in every reachable state of a system without reset.
LEMMA JobsHold ==
  ASSUME "reset" \notin Commands
  PROVE  Spec => []JobInvariant
<1>1. Init => JobInvariant
  <2> SUFFICES ASSUME Init PROVE JobInvariant
    OBVIOUS
  <2>1. \A a \in Attempts : attempts[a].status = "free" /\ ~Started(a) /\ ~Pressed(a)
    BY DEF Init, LedgerInit, Started, Pressed
  <2>2. \A j \in Jobs : jobs[j].status = "none"
    BY DEF Init, LedgerInit
  <2>3. \A w \in Workers : worker[w].pc = "idle" /\ ~worker[w].started
    BY DEF Init, WorkerInit, Idle
  <2>4. OneAttemptPerJob /\ NoRetryAfterSubmit /\ OnePress
    BY <2>1 DEF OneAttemptPerJob, NoRetryAfterSubmit, OnePress
  <2>5. /\ \A a \in Attempts : PressesAlone(a)
        /\ \A j \in Jobs : JobHeld(j)
    BY <2>1, <2>2 DEF PressesAlone, JobHeld
  <2>6. \A w \in Workers : WorkerJob(w)
    BY <2>3 DEF WorkerJob, At, Holding
  <2> QED BY <2>4, <2>5, <2>6 DEF JobInvariant
<1>2. SubmissionInvariant /\ SubmissionInvariant' /\ JobInvariant /\ [Next]_system => JobInvariant'
  BY LedgerAssumption, WorkersAssumption, HostAssumption, JobStep
<1> QED BY <1>1, <1>2, InvariantHolds, PTL DEF Spec

\* A job has one attempt in progress at a time, the one its row points at, and nobody else
\* is offered the job: for any number of workers and hosts, crashes, expired leases,
\* recoveries and late receipts (acquire_job, recover_stale_attempts, mark_result).
THEOREM JobsHaveOneAttempt ==
  ASSUME "reset" \notin Commands
  PROVE  Spec => []OneAttemptPerJob
<1>1. JobInvariant => OneAttemptPerJob
  BY DEF JobInvariant
<1> QED BY <1>1, JobsHold, PTL

\* A job whose attempt may have pressed Submit is never offered again, unless the site
\* refused it: not by a dry run that restores the row it captured, nor by any release,
\* recovery or outcome that comes late (restore_preview_state, release_lock).
THEOREM SubmittedJobsStay ==
  ASSUME "reset" \notin Commands
  PROVE  Spec => []NoRetryAfterSubmit
<1>1. JobInvariant => NoRetryAfterSubmit
  BY DEF JobInvariant
<1> QED BY <1>1, JobsHold, PTL

\* No posting is submitted twice where each posting has one row: the duplicate check sees
\* what was recorded, and the job's own attempts exclude each other.
THEOREM PostingsSubmittedOnce ==
  ASSUME "reset" \notin Commands,
         \A i, j \in Jobs : Posting[i] = Posting[j] => i = j
  PROVE  Spec => []NoSecondSubmission
<1>1. SubmissionInvariant /\ JobInvariant => NoSecondSubmission
  <2> SUFFICES ASSUME SubmissionInvariant, JobInvariant, NEW a \in Attempts, NEW c \in Attempts,
                      Pressed(a), Pressed(c), a # c
               PROVE  Posting[attempts[a].job] # Posting[attempts[c].job]
    BY DEF NoSecondSubmission, Pressed
  <2>1. attempts[a].job \in Jobs /\ attempts[c].job \in Jobs
    BY KnownJobs
  <2>2. attempts[a].job # attempts[c].job
    BY DEF JobInvariant, OnePress
  <2> QED BY <2>1, <2>2
<1> QED BY <1>1, InvariantHolds, JobsHold, PTL

\* No step offers a job whose current attempt has begun to submit and stays live through
\* the step (recover_stale_attempts).
THEOREM LiveSubmitsStay ==
  ASSUME "reset" \notin Commands
  PROVE  Spec => RecoveryKeepsSubmit
<1>1. SubmissionInvariant /\ JobInvariant /\ JobInvariant' /\ [Next]_system
        => \A j \in Jobs, a \in Attempts :
             /\ jobs[j].status = "in_progress"
             /\ jobs[j].task = a
             /\ Started(a) /\ Live(a) /\ Live(a)'
             => ~Claimable(jobs'[j])
  <2> SUFFICES ASSUME SubmissionInvariant, JobInvariant, JobInvariant', [Next]_system,
                      NEW j \in Jobs, NEW a \in Attempts, jobs[j].task = a,
                      jobs[j].status = "in_progress",
                      attempts'[a].status = "in_progress"
               PROVE  ~Claimable(jobs'[j])
    BY DEF Live
  <2>1. attempts[a].job = j /\ attempts[a].status # "free"
    BY DEF JobInvariant, JobHeld
  <2>2. attempts'[a].job = j
    BY <2>1, ShapeGrows, StepShape, LedgerAssumption, WorkersAssumption, HostAssumption
       DEF Quiet, SubmissionInvariant, SystemTypeOK, RowsKept
  <2> QED BY <2>1, <2>2 DEF JobInvariant, OneAttemptPerJob
<1> QED BY <1>1, InvariantHolds, JobsHold, PTL DEF Spec, RecoveryKeepsSubmit

-----------------------------------------------------------------------------
(* Who may touch the attempt of a worker, or the gate of anybody *)

\* A step that is not the worker's own leaves it and its attempt alone.
LEMMA HeldAlone ==
  ASSUME SubmissionInvariant, LedgerAssumption, WorkersAssumption, HostAssumption,
         [Next]_system, NEW w \in Workers
  PROVE  \/ WorkerStep(w) /\ UNCHANGED host
         \/ /\ worker'[w] = worker[w]
            /\ worker[w].pc \in Holding => LeftAlone(worker[w].att)
<1>0. /\ SystemTypeOK /\ LedgerTypeOK /\ RowsKept /\ GatesGrow /\ AttemptsDistinct
      /\ worker[w].pc \in Holding =>
           /\ worker[w].att \in Attempts
           /\ attempts[worker[w].att].status # "free" /\ host[worker[w].att] = "none"
  BY ShapeGrows, StepShape DEF Quiet, SubmissionInvariant, SystemTypeOK, WorkerKnows, HoldsAttempt
<1>1. ASSUME NEW v \in Workers \ {w}, WorkerStep(v), UNCHANGED host
      PROVE  /\ worker'[w] = worker[w]
             /\ worker[w].pc \in Holding => LeftAlone(worker[w].att)
  <2>1. worker'[w] = worker[w]
    BY <1>0, <1>1, WorkerOwn DEF OwnStep, SubmissionInvariant
  <2>2. worker[w].pc \in Holding => LeftAlone(worker[w].att)
    BY <1>0, <1>1, WorkerLeavesAlone DEF AttemptsDistinct
  <2> QED BY <2>1, <2>2
<1>2. ASSUME NEW c \in Attempts, HostStep(c), UNCHANGED worker
      PROVE  worker[w].pc \in Holding => LeftAlone(worker[w].att)
  <2>1. host[c] # "none" \/ attempts[c].status = "free"
    BY <1>0, <1>2, HostOwn DEF SubmissionInvariant, SystemTypeOK
  <2> QED BY <1>0, <1>2, <2>1, HostLeavesAlone
<1>3. CASE (Operator \/ TurnTick \/ UNCHANGED system) /\ UNCHANGED worker
  BY <1>0, <1>3, OthersLeaveAlone
<1> QED BY <1>1, <1>2, <1>3 DEF Next, TurnTick, system

\* The steps of a worker that write a gate or a consumption.
LEMMA WorkerWrites ==
  ASSUME NEW w \in Workers, WorkerStep(w)
  PROVE  UNCHANGED <<gates, uses>> \/ Reserve(w) \/ WriteUse(w) \/ WriteGate(w)
BY DEF WorkerStep, BeginAcquire, RecoverStale, SelectNothing, BlockPortal, BlockCandidate,
       SkipCandidate, Select, Claim, StartAttempt, AwaitApplicant, RenewAttempt, EndPrepare,
       EndPreview, MarkResult, Restore, RestorePreview, EnterReservation,
       ReservationLeaseLost, Denied, StartSubmit, SubmitLeaseLost, EndSubmit, Observe,
       Confirm, AdmitEmail, Decide, LedgerWriteFails, Record, ThreadDies, Release,
       ReleaseLock, LauncherError, Crash, ledger

\* Only a worker's Record makes an attempt applied that no host works on.
LEMMA WorkerRecords ==
  ASSUME SubmissionInvariant, NEW w \in Workers, WorkerStep(w), NEW a \in Attempts,
         attempts'[a].status = "applied"
  PROVE  \/ attempts[a].status = "applied"
         \/ /\ Record(w) /\ a = worker[w].att /\ Live(a) /\ worker[w].result = "applied"
            /\ worker[w].pc \in {"mark", "error_mark"}
<1>0. /\ LedgerTypeOK
      /\ worker[w].pc \in Holding => worker[w].att \in Attempts
  BY DEF SubmissionInvariant, SystemTypeOK, WorkerKnows, HoldsAttempt
<1>1. CASE UNCHANGED attempts
  BY <1>1
<1>2. CASE BeginAcquire(w)
  BY <1>0, <1>2 DEF BeginAcquire, RecoverStale, AttemptRow
<1>3. ASSUME NEW c \in Attempts, Claim(w, c) PROVE attempts[a].status = "applied"
  BY <1>0, <1>3 DEF Claim, StartAttempt
<1>4. CASE EnterReservation(w) \/ StartSubmit(w) \/ AwaitApplicant(w)
  <2>1. PICK c \in Attempts : c = worker[w].att
    BY <1>0, <1>4 DEF EnterReservation, StartSubmit, AwaitApplicant, At, Holding, Pc
  <2>2. \E phase, started : RenewAttempt(c, phase, started)
    BY <1>4, <2>1 DEF EnterReservation, StartSubmit, AwaitApplicant
  <2> QED BY <1>0, <2>2 DEF RenewAttempt, AttemptRow
<1>5. CASE EndPreview(w) \/ Restore(w) \/ Release(w)
  <2>1. worker[w].att \in Attempts
    BY <1>0, <1>5 DEF EndPreview, Restore, Release, At, Holding, Pc
  <2>2. \/ UNCHANGED attempts
        \/ \E status \in {"previewed", "released"} :
             attempts' = Finalized(worker[w].att, status)
    BY <1>5 DEF EndPreview, Restore, RestorePreview, MarkResult, Release, ReleaseLock, ledger
  <2> QED BY <1>0, <2>1, <2>2 DEF Finalized, AttemptRow
<1>6. CASE Record(w)
  <2>1. /\ worker[w].pc \in {"mark", "error_mark"}
        /\ worker[w].att \in Attempts
        /\ attempts' = Finalized(worker[w].att, worker[w].result) /\ Live(worker[w].att)
    BY <1>0, <1>6 DEF Record, MarkResult, OwnsJob, Holding, Pc
  <2> QED BY <1>0, <1>6, <2>1 DEF Finalized, AttemptRow
<1>7. \/ UNCHANGED attempts \/ BeginAcquire(w) \/ (\E c \in Attempts : Claim(w, c))
      \/ EnterReservation(w) \/ StartSubmit(w) \/ AwaitApplicant(w)
      \/ EndPreview(w) \/ Restore(w) \/ Release(w) \/ Record(w)
  BY DEF WorkerStep, SelectNothing, BlockPortal, BlockCandidate, SkipCandidate, Select,
         EndPrepare, ReservationLeaseLost, Reserve, ClaimGate, Denied, SubmitLeaseLost,
         EndSubmit, Observe, Confirm, AdmitEmail, Decide, WriteUse, UpdateUse, WriteGate,
         UpdateGate, LedgerWriteFails, ThreadDies, LauncherError, Crash, ledger
<1> QED BY <1>1, <1>2, <1>3, <1>4, <1>5, <1>6, <1>7

-----------------------------------------------------------------------------
(* A worker's claim is written once *)

\* What a worker knows of its gate stays while others step.
LEMMA WritesOnceStays ==
  ASSUME SubmissionInvariant, NEW w \in Workers, WritesOnce(w), worker'[w] = worker[w],
         worker[w].pc \in Holding => LeftAlone(worker[w].att)
  PROVE  WritesOnce(w)'
<1>1. CASE worker[w].pc \notin Holding
  BY <1>1 DEF WritesOnce, Writing, Holding, Pc
<1>2. CASE worker[w].pc \in Holding
  <2>1. PICK a \in Attempts : a = worker[w].att
    BY <1>2 DEF SubmissionInvariant, WorkerKnows, HoldsAttempt
  <2>2. /\ gates[a].state \in {"claimed", "applied"} => gates'[a].state = gates[a].state
        /\ attempts[a].status # "applied" => attempts'[a].status # "applied"
    BY <1>2, <2>1 DEF LeftAlone
  <2> QED BY <1>2, <2>1, <2>2 DEF WritesOnce
<1> QED BY <1>1, <1>2

\* A worker that moves on knows its gate, if what its new place asks for is there.
LEMMA MovesOnce ==
  ASSUME WorkerTypeOK, NEW w \in Workers, NEW a, a = worker[w].att, NEW pc, NEW result,
         GotoWith(w, pc, result) \/ (Goto(w, pc) /\ result = worker[w].result),
         attempts'[a].status # "applied",
         pc \in {"observing", "confirm", "decide"} => gates'[a].state = "claimed",
         pc \in Writing /\ result = "applied" =>
           pc \in {"use", "gate"} /\ gates'[a].state = "claimed",
         pc \in {"mark", "error_mark"} /\ result = "applied" => gates'[a].state = "applied"
  PROVE  WritesOnce(w)'
<1>1. MovesTo(w, pc, result)
  BY GotoMoves
<1> QED BY <1>1 DEF MovesTo, WritesOnce

\* The worker's own steps: it decides "applied" once, on a claimed gate, and then writes it.
LEMMA WritesOnceOwn ==
  ASSUME SubmissionInvariant, NEW w \in Workers, WritesOnce(w), HoldsWrite(w), WorkerStep(w)
  PROVE  WritesOnce(w)'
<1> DEFINE a == worker[w].att
<1>0. /\ LedgerTypeOK /\ WorkerTypeOK
      /\ worker[w].pc \in Holding => a \in Attempts /\ attempts[a].status # "free"
  BY DEF SubmissionInvariant, SystemTypeOK, WorkerKnows, HoldsAttempt
<1>1. CASE worker'[w].pc \notin Holding
  BY <1>1 DEF WritesOnce, Writing, Holding, Pc
<1>2. CASE Finish(w)
  BY <1>0, <1>1, <1>2 DEF Finish, Idle, WorkerTypeOK, Holding
<1>3. CASE BeginAcquire(w) \/ (\E j \in Jobs : Select(w, j))
  <2>1. worker'[w].pc \in {"scan", "candidate"}
    BY ZenonT(60), <1>0, <1>3 DEF BeginAcquire, Select, Goto, Idle, WorkerTypeOK, WorkerRow
  <2> QED BY <1>1, <2>1 DEF Holding
<1>4. ASSUME NEW c \in Attempts, Claim(w, c) PROVE WritesOnce(w)'
  <2>1. worker'[w].pc = "prepare" /\ worker'[w].att = c
    BY <1>0, <1>4 DEF Claim, WorkerTypeOK, WorkerRow
  <2>2. attempts'[c].status = "in_progress"
    BY <1>0, <1>4 DEF Claim, StartAttempt
  <2> QED BY <2>1, <2>2 DEF WritesOnce, Writing
<1>5. ASSUME worker[w].pc \in Holding, UNCHANGED attempts, NEW pc, NEW result,
             GotoWith(w, pc, result) \/ (Goto(w, pc) /\ result = worker[w].result),
             pc \in {"observing", "confirm", "decide"} => gates'[a].state = "claimed",
             pc \in Writing /\ result = "applied" =>
               pc \in {"use", "gate"} /\ gates'[a].state = "claimed",
             pc \in {"mark", "error_mark"} /\ result = "applied" => gates'[a].state = "applied"
      PROVE  WritesOnce(w)'
  <2>1. attempts'[a].status # "applied"
    BY <1>5 DEF WritesOnce
  <2> QED BY <1>0, <1>5, <2>1, MovesOnce
<1>6. ASSUME NEW phase, NEW started, worker[w].pc \in Holding, RenewAttempt(a, phase, started)
      PROVE  attempts'[a].status = "in_progress" /\ UNCHANGED gates
  BY <1>0, <1>6 DEF RenewAttempt, Live, AttemptRow
<1>7. CASE EnterReservation(w) \/ StartSubmit(w) \/ AwaitApplicant(w)
  <2>1. attempts'[a].status = "in_progress" /\ UNCHANGED gates /\ worker[w].pc \in Holding
    <3>1. worker[w].pc \in Holding
      BY <1>7 DEF EnterReservation, StartSubmit, AwaitApplicant, At, Holding, Pc
    <3> QED BY <1>6, <1>7, <3>1 DEF EnterReservation, StartSubmit, AwaitApplicant
  <2>2. CASE EnterReservation(w)
    <3>1. PICK pc \in {"reserve", "reserve_again"} : Goto(w, pc)
      BY <2>2 DEF EnterReservation
    <3> QED BY <1>0, <2>1, <3>1, MovesOnce DEF Writing
  <2>3. CASE StartSubmit(w)
    <3>1. worker'[w].pc = "submitting" /\ worker'[w].att = a
      BY <1>0, <2>3 DEF StartSubmit, WorkerTypeOK, WorkerRow
    <3> QED BY <2>1, <3>1 DEF WritesOnce, Writing
  <2>4. CASE AwaitApplicant(w)
    <3>1. worker'[w] = worker[w]
      BY <2>4 DEF AwaitApplicant
    <3> QED BY <2>1, <3>1 DEF WritesOnce
  <2> QED BY <1>7, <2>2, <2>3, <2>4
<1>8. CASE EndPrepare(w) \/ EndPreview(w) \/ ReservationLeaseLost(w) \/ Denied(w)
           \/ SubmitLeaseLost(w) \/ LauncherError(w)
  <2>1. Finish(w) \/ (worker[w].pc \in Holding /\ UNCHANGED attempts)
    BY <1>8 DEF EndPrepare, EndPreview, ReservationLeaseLost, Denied, SubmitLeaseLost,
                LauncherError, At, InTry, Holding, Pc, ledger
  <2>2. \/ Finish(w)
        \/ \E pc \in {"release", "restore", "waiting"} : Goto(w, pc)
        \/ \E pc \in {"mark", "use", "error_use"} : \E result :
             result # "applied" /\ GotoWith(w, pc, result)
    BY <1>8 DEF EndPrepare, EndPreview, ReservationLeaseLost, Denied, SubmitLeaseLost,
                LauncherError
  <2> QED BY <1>2, <1>5, <2>1, <2>2 DEF Writing
<1>9. CASE Reserve(w) \/ EndSubmit(w) \/ Observe(w) \/ Confirm(w) \/ Decide(w)
  <2>1. worker[w].pc \in Holding /\ UNCHANGED attempts
    BY <1>9 DEF Reserve, ClaimGate, EndSubmit, Observe, Confirm, AdmitEmail, Decide, At,
                Holding, Pc, ledger
  <2>2. CASE Reserve(w)
    BY <1>5, <2>1, <2>2 DEF Reserve, Writing
  <2>3. CASE EndSubmit(w) \/ Observe(w) \/ Confirm(w) \/ Decide(w)
    <3>1. gates'[a].state = "claimed"
      BY <2>3 DEF EndSubmit, Observe, Confirm, AdmitEmail, Decide, At, HoldsWrite, WritesOnce,
                  ledger
    <3>2. \/ \E pc \in {"observing", "decide"} : Goto(w, pc)
          \/ \E pc \in {"confirm", "use"} : \E result : GotoWith(w, pc, result)
          \/ \E result : result # "applied" /\ GotoWith(w, "observed_use", result)
      BY <2>3 DEF EndSubmit, Observe, Confirm, Decide
    <3> QED BY <1>5, <2>1, <3>1, <3>2 DEF Writing
  <2> QED BY <1>9, <2>2, <2>3
<1>10. CASE WriteUse(w) \/ WriteGate(w) \/ LedgerWriteFails(w)
  <2>1. /\ worker[w].pc \in Holding /\ worker[w].pc \in Writing
        /\ UNCHANGED attempts
    BY <1>10 DEF WriteUse, UpdateUse, WriteGate, UpdateGate, LedgerWriteFails, At, Writing,
                 Holding, Pc, ledger
  <2>2. CASE worker[w].result # "applied"
    <3>1. \E pc \in {"observed_gate", "gate", "error_gate", "use", "mark", "error_mark"} :
            Goto(w, pc) \/ \E result : result # "applied" /\ GotoWith(w, pc, result)
      BY <1>10, <2>2 DEF WriteUse, WriteGate, LedgerWriteFails
    <3> QED BY <1>5, <2>1, <2>2, <3>1
  <2>3. CASE worker[w].result = "applied" /\ WriteUse(w)
    <3>1. /\ gates'[a].state = "claimed" /\ Goto(w, "gate")
      BY <2>1, <2>3 DEF WriteUse, UpdateUse, At, WritesOnce
    <3> QED BY <1>5, <2>1, <3>1
  <2>4. CASE worker[w].result = "applied" /\ WriteGate(w)
    <3>1. gates'[a].state = "applied" /\ Goto(w, "mark")
      BY <1>0, <2>1, <2>4 DEF WriteGate, UpdateGate, At, WritesOnce, GateRow
    <3> QED BY <1>5, <2>1, <3>1 DEF Writing
  <2>5. CASE worker[w].result = "applied" /\ LedgerWriteFails(w)
    <3>1. GotoWith(w, "mark", "submission_uncertain")
      BY <2>1, <2>5 DEF LedgerWriteFails, WritesOnce
    <3> QED BY <1>5, <2>1, <3>1 DEF Writing
  <2> QED BY <1>10, <2>2, <2>3, <2>4, <2>5
<1>11. \/ Finish(w) \/ BeginAcquire(w) \/ (\E j \in Jobs : Select(w, j))
       \/ (\E c \in Attempts : Claim(w, c))
       \/ EnterReservation(w) \/ StartSubmit(w) \/ AwaitApplicant(w)
       \/ EndPrepare(w) \/ EndPreview(w) \/ ReservationLeaseLost(w) \/ Denied(w)
       \/ SubmitLeaseLost(w) \/ LauncherError(w)
       \/ Reserve(w) \/ EndSubmit(w) \/ Observe(w) \/ Confirm(w) \/ Decide(w)
       \/ WriteUse(w) \/ WriteGate(w) \/ LedgerWriteFails(w)
  BY DEF WorkerStep, SelectNothing, BlockPortal, SkipCandidate, Restore, Record, ThreadDies,
         Release, Crash
<1> QED BY <1>2, <1>3, <1>4, <1>7, <1>8, <1>9, <1>10, <1>11

-----------------------------------------------------------------------------
(* What is known of a gate *)

\* A worker's step keeps the batches of the gates, and records as applied what they say.
LEMMA WorkerGates ==
  ASSUME SubmissionInvariant, WorkersAssumption, NEW w \in Workers, WorkerStep(w),
         UNCHANGED host, WritesOnce(w), NEW a \in Attempts, GateKnows(a)
  PROVE  GateKnows(a)'
<1>0. /\ LedgerTypeOK /\ WorkerKnows(w) /\ BatchOf[w] \in Batches
      /\ worker[w].pc \in Holding => worker[w].att \in Attempts /\ host[worker[w].att] = "none"
  BY DEF SubmissionInvariant, SystemTypeOK, WorkerKnows, HoldsAttempt, WorkersAssumption
<1>1. ASSUME attempts'[a].status = "applied", gates'[a].state = gates[a].state
      PROVE  gates'[a].state = "applied"
  BY <1>1, WorkerRecords DEF GateKnows, WritesOnce
<1>2. CASE UNCHANGED gates
  BY <1>1, <1>2 DEF GateKnows, Gated
<1>3. CASE Reserve(w) \/ WriteGate(w)
  <2>1. worker[w].pc \in Holding /\ UNCHANGED attempts
    BY <1>3 DEF Reserve, ClaimGate, WriteGate, UpdateGate, At, Holding, Pc
  <2>2. PICK c \in Attempts : c = worker[w].att /\ host[c] = "none"
    BY <1>0, <2>1
  <2>3. CASE a # c
    <3>1. gates'[a] = gates[a]
      BY <1>0, <1>3, <2>2, <2>3 DEF Reserve, ClaimGate, WriteGate, UpdateGate
    <3> QED BY <1>1, <3>1 DEF GateKnows, Gated
  <2>4. CASE a = c
    <3>1. attempts'[a].status # "applied" /\ host'[a] = "none"
      BY <2>1, <2>2, <2>4 DEF WritesOnce
    <3>2. Gated(a)'
      <4>1. CASE Reserve(w)
        BY <1>0, <2>2, <2>4, <4>1 DEF Reserve, ClaimGate, Gated
      <4>2. CASE WriteGate(w)
        <5>1. worker[w].result \in Outcome
          BY <1>0, <4>2 DEF WriteGate, At, WorkerKnows, Settling
        <5>2. gates'[a].state = worker[w].result
          BY <1>0, <2>2, <2>4, <4>2 DEF WriteGate, UpdateGate, GateRow
        <5> QED BY <5>1, <5>2 DEF Outcome, Gated
      <4> QED BY <1>3, <4>1, <4>2
    <3> QED BY <3>1, <3>2 DEF GateKnows
  <2> QED BY <2>3, <2>4
<1> QED BY <1>2, <1>3, WorkerWrites DEF WriteUse, UpdateUse

\* An attended command claims in the host's batch, and applies gate and attempt together.
LEMMA HostGates ==
  ASSUME SubmissionInvariant, LedgerAssumption, HostAssumption, NEW c \in Attempts,
         HostStep(c), NEW a \in Attempts, GateKnows(a)
  PROVE  GateKnows(a)'
<1>0. /\ LedgerTypeOK /\ HostTypeOK /\ AttemptKnows(c) /\ HostKnows(c) /\ gates[c] \in GateRow
      /\ attempts[c] \in AttemptRow
  BY DEF SubmissionInvariant, SystemTypeOK
<1>1. CASE a # c
  <2>1. gates'[a] = gates[a]
    BY <1>0, <1>1 DEF HostStep, Begin, StartAttempt, Resume, RenewAttempt, MaterialChanged,
       Checkpoint, HostClaim, ReplayClaim, SubmitIntent, Fail, Receipt, ReconcileOn, ledger
  <2>2. host'[a] = host[a]
    BY <1>0, <1>1 DEF HostStep, Begin, Resume, MaterialChanged, Checkpoint, HostClaim,
       ReplayClaim, SubmitIntent, Fail, Receipt, HostTypeOK
  <2>3. attempts'[a] = attempts[a] \/ attempts'[a].status # "applied"
    BY <1>1, HostLeavesAlone DEF LeftAlone
  <2> QED BY <2>1, <2>2, <2>3 DEF GateKnows, Gated
<1>2. ASSUME a = c, NEW j \in Jobs, Begin(c, j) PROVE GateKnows(a)'
  BY <1>0, <1>2 DEF Begin, StartAttempt, AttemptKnows, GateKnows, Gated
<1>3. CASE a = c /\ (Resume(c) \/ MaterialChanged(c) \/ Checkpoint(c) \/ ReplayClaim(c)
                     \/ SubmitIntent(c))
  <2>1. UNCHANGED gates /\ host[c] # "none"
    BY <1>3 DEF Resume, RenewAttempt, MaterialChanged, Checkpoint, ReplayClaim, SubmitIntent,
       Preparing, Current, ledger
  <2>2. ASSUME NEW phase, NEW started, RenewAttempt(c, phase, started)
        PROVE  attempts'[c].status = attempts[c].status
    BY <1>0, <2>2 DEF RenewAttempt, AttemptRow
  <2>3. attempts'[c].status = attempts[c].status
    <3>1. CASE SubmitIntent(c)
      BY <1>0, <3>1 DEF SubmitIntent, AttemptRow
    <3> QED BY <1>3, <2>2, <3>1 DEF Resume, MaterialChanged, Checkpoint, ReplayClaim, ledger
  <2> QED BY <1>3, <2>1, <2>3 DEF GateKnows, Gated
<1>4. CASE a = c /\ HostClaim(c)
  <2>1. attempts'[c].status = "in_progress"
    BY <1>0, <1>4 DEF HostClaim, Preparing, Current, AttemptRow
  <2>2. gates'[c].state = "claimed" /\ gates'[c].batch = HostBatch
    BY <1>0, <1>4 DEF HostClaim
  <2> QED BY <1>4, <2>1, <2>2 DEF GateKnows, Gated
<1>5. CASE a = c /\ Fail(c)
  <2>1. attempts'[c].status # "applied" /\ host[c] # "none"
    BY <1>0, <1>5 DEF Fail, Current, Finalized, AttemptRow
  <2>2. Gated(c)' <=> Gated(c)
    BY <1>0, <1>5 DEF Fail, Gated, GateRow
  <2>3. gates'[c].batch = gates[c].batch
    BY <1>0, <1>5 DEF Fail, GateRow
  <2> QED BY <1>5, <2>1, <2>2, <2>3 DEF GateKnows
<1>6. ASSUME a = c, NEW r \in Receipts, Receipt(c, r) PROVE GateKnows(a)'
  <2>1. /\ c # None /\ host[c] # "none" /\ Gated(c)
    BY <1>0, <1>6 DEF Receipt, LedgerAssumption, Intended, HostKnows
  <2>2. gates'[c].state = "applied" /\ gates'[c].batch = gates[c].batch
    BY <1>0, <1>6, <2>1 DEF Receipt, ReconcileOn, GateRow
  <2> QED BY <1>6, <2>1, <2>2 DEF GateKnows, Gated
<1> QED BY <1>1, <1>2, <1>3, <1>4, <1>5, <1>6 DEF HostStep

\* A reconciled receipt only applies a gate.
LEMMA OthersGates ==
  ASSUME SubmissionInvariant, LedgerAssumption, UNCHANGED host,
         Operator \/ TurnTick \/ UNCHANGED system, NEW a \in Attempts, GateKnows(a)
  PROVE  GateKnows(a)'
<1>0. LedgerTypeOK /\ gates[a] \in GateRow
  BY DEF SubmissionInvariant, SystemTypeOK
<1>1. UNCHANGED attempts
  BY DEF Operator, Mark, MarkJob, Reset, ResetFailed, ReconcileReceipt, Reconcile, TurnTick, Tick,
         system
<1>2. CASE gates'[a] = gates[a]
  BY <1>1, <1>2 DEF GateKnows, Gated
<1>3. CASE Gated(a) /\ gates'[a].state = "applied" /\ gates'[a].batch = gates[a].batch
  BY <1>1, <1>3 DEF GateKnows, Gated
<1>4. ASSUME NEW r \in Receipts, NEW j \in Jobs, NEW c \in Attempts \cup {None}, Reconcile(r, j, c)
      PROVE  \/ gates'[a] = gates[a]
             \/ Gated(a) /\ gates'[a].state = "applied" /\ gates'[a].batch = gates[a].batch
  BY <1>0, <1>4, LedgerAssumption DEF Reconcile, ReconcileOn, Bindable, GateRow, LedgerAssumption
<1> QED BY <1>2, <1>3, <1>4 DEF Operator, Mark, MarkJob, Reset, ResetFailed, ReconcileReceipt,
           TurnTick, Tick, system

-----------------------------------------------------------------------------
(* Receipts find no live attempt of a worker *)

\* While receipts are all the operator brings, a job's attempt in progress keeps the job so:
\* only its own end, an intent or a receipt of the host change a job that is in progress.
LEMMA KeptJob ==
  ASSUME SubmissionInvariant, JobInvariant, KeptInvariant,
         Commands \subseteq {"reconcile"}, [Next]_system,
         NEW a \in Attempts, attempts[a].status = "in_progress", host[a] = "none",
         attempts'[a].status = "in_progress",
         NEW j \in Jobs, j = attempts[a].job
  PROVE  jobs'[j].status = "in_progress"
<1>0. /\ LedgerTypeOK /\ jobs[j] \in JobRow
      /\ jobs[j].status = "in_progress" /\ jobs[j].task = a
      /\ \A c \in Attempts : attempts[c].job = j /\ c # a =>
           attempts[c].status # "in_progress" /\ ~Pressed(c)
  BY DEF SubmissionInvariant, SystemTypeOK, KeptInvariant, JobInvariant, OneAttemptPerJob,
         PressesAlone
<1>1. CASE jobs'[j] = jobs[j]
  BY <1>0, <1>1
<1>2. ASSUME NEW c \in Attempts, NEW k \in Jobs, NEW b, StartAttempt(c, k, b)
      PROVE  jobs'[j].status = "in_progress"
  BY <1>0, <1>2 DEF StartAttempt, JobRow
<1>3. ASSUME NEW c \in Attempts, NEW status, status # "in_progress",
             attempts[c].job = j => attempts' = Finalized(c, status),
             c = a => attempts[c].job = j
      PROVE  c # a
  BY <1>0, <1>3 DEF Finalized, AttemptRow
<1>4. ASSUME NEW w \in Workers, WorkerStep(w) PROVE jobs'[j].status = "in_progress"
  <2> DEFINE c == worker[w].att
             k == worker[w].job
  <2>0. /\ worker[w].pc \in Holding => c \in Attempts /\ k \in Jobs /\ attempts[c].job = k
        /\ At(w, "candidate") => k \in Jobs /\ Claimable(worker[w].row)
        /\ worker[w].pc \in Settling => worker[w].result \in Outcome
    BY DEF SubmissionInvariant, WorkerKnows, HoldsAttempt, JobInvariant, WorkerJob
  <2>1. CASE BeginAcquire(w)
    <3>1. ~Expired(a)
      BY <1>0, <2>1 DEF BeginAcquire, RecoverStale, AttemptRow, Expired
    <3>2. ~\E d \in Attempts : Expired(d) /\ attempts[d].job = j
      BY <1>0, <3>1 DEF Expired
    <3> QED BY <1>1, <2>1, <3>2 DEF BeginAcquire, RecoverStale
  <2>2. CASE BlockPortal(w)
    <3>1. k \in Jobs /\ Claimable(jobs[k])
      BY <2>0, <2>2 DEF BlockPortal
    <3>2. k # j
      BY <1>0, <3>1 DEF Claimable
    <3> QED BY <1>0, <1>1, <2>2, <3>1, <3>2 DEF BlockPortal, BlockCandidate
  <2>3. ASSUME NEW d \in Attempts, Claim(w, d) PROVE jobs'[j].status = "in_progress"
    BY <1>2, <2>0, <2>3 DEF Claim
  <2>4. CASE EndPreview(w) \/ Restore(w) \/ Record(w) \/ Release(w)
    <3>1. /\ c \in Attempts /\ k \in Jobs /\ attempts[c].job = k
          /\ Record(w) => worker[w].result \in Outcome
      BY <2>0, <2>4 DEF EndPreview, Restore, Record, Release, At, Settling, Holding, Pc
    <3>2. \/ jobs' = jobs
          \/ /\ jobs[k].task = c
             /\ \E row : jobs' = [jobs EXCEPT ![k] = row]
             /\ \E status : status # "in_progress" /\ attempts' = Finalized(c, status)
      BY <2>4, <3>1 DEF EndPreview, MarkResult, OwnsJob, Restore, RestorePreview, Record,
                        Release, ReleaseLock, Outcome, ledger
    <3> QED BY <1>0, <1>1, <1>3, <3>1, <3>2
  <2>5. \/ UNCHANGED jobs \/ BeginAcquire(w) \/ BlockPortal(w)
        \/ (\E d \in Attempts : Claim(w, d))
        \/ EndPreview(w) \/ Restore(w) \/ Record(w) \/ Release(w)
    BY <1>4 DEF WorkerStep, SelectNothing, SkipCandidate, Select, AwaitApplicant, RenewAttempt,
       EnterReservation, StartSubmit, EndPrepare, ReservationLeaseLost, Reserve, ClaimGate,
       Denied, SubmitLeaseLost, EndSubmit, Observe, Confirm, AdmitEmail, Decide, WriteUse,
       UpdateUse, WriteGate, UpdateGate, LedgerWriteFails, ThreadDies, LauncherError, Crash, ledger
  <2> QED BY <1>1, <2>1, <2>2, <2>3, <2>4, <2>5
<1>5. ASSUME NEW c \in Attempts, HostStep(c) PROVE jobs'[j].status = "in_progress"
  <2>1. ASSUME NEW k \in Jobs, Begin(c, k) PROVE jobs'[j].status = "in_progress"
    BY <1>2, <2>1 DEF Begin
  <2>2. CASE SubmitIntent(c) \/ Fail(c)
    <3>1. jobs[attempts[c].job].task = c /\ c # a
      BY <2>2 DEF SubmitIntent, Fail, Preparing, Current
    <3> QED BY <1>0, <1>1, <2>2, <3>1 DEF SubmitIntent, Fail
  <2>3. ASSUME NEW r \in Receipts, Receipt(c, r) PROVE jobs'[j].status = "in_progress"
    <3>1. Pressed(c) /\ c # a
      BY <2>3 DEF Receipt, KeptInvariant, Intended
    <3>2. attempts[c].job # j
      BY <1>0, <3>1
    <3> QED BY <1>0, <1>1, <2>3, <3>2 DEF Receipt, ReconcileOn
  <2>4. UNCHANGED jobs \/ (\E k \in Jobs : Begin(c, k)) \/ SubmitIntent(c) \/ Fail(c)
        \/ \E r \in Receipts : Receipt(c, r)
    BY <1>5 DEF HostStep, Resume, RenewAttempt, MaterialChanged, Checkpoint, HostClaim,
       ReplayClaim, ledger
  <2> QED BY <1>1, <2>1, <2>2, <2>3, <2>4
<1>6. ASSUME NEW r \in Receipts, NEW k \in Jobs, NEW c \in Attempts \cup {None},
             Reconcile(r, k, c)
      PROVE  jobs'[j].status = "in_progress"
  <2>1. k # j
    BY <1>0, <1>6 DEF Reconcile, ReconcileOn, Reconcilable
  <2> QED BY <1>0, <1>1, <1>6, <2>1 DEF Reconcile, ReconcileOn
<1>7. CASE Operator \/ TurnTick \/ UNCHANGED system
  BY <1>1, <1>6, <1>7 DEF Operator, Mark, Reset, ReconcileReceipt, TurnTick, Tick, system
<1> QED BY <1>4, <1>5, <1>6, <1>7 DEF Next

\* An intent is declared on a latched attempt, which nobody but its host settles while it
\* is in progress, and recovery only as uncertain (submit_intent, recover_stale_attempts).
LEMMA IntendedPresses ==
  ASSUME SubmissionInvariant, KeptInvariant, LedgerAssumption, WorkersAssumption,
         HostAssumption, [Next]_system, NEW a \in Attempts, Intended(a)'
  PROVE  Pressed(a)'
<1>0. /\ LedgerTypeOK /\ HostTypeOK /\ RowsKept /\ GatesGrow
      /\ attempts[a] \in AttemptRow /\ AttemptKnows(a) /\ HostKnows(a)
      /\ Intended(a) => Pressed(a)
  BY ShapeGrows, StepShape DEF Quiet, SubmissionInvariant, SystemTypeOK, KeptInvariant
<1>1. Started(a) => Started(a)'
  BY <1>0, StepShape DEF Quiet, LatchesKept, LatchesOnly, Started
<1>2. ASSUME LeftAlone(a), host'[a] = host[a] PROVE Pressed(a)'
  BY <1>0, <1>1, <1>2 DEF LeftAlone, Pressed, Intended
<1>3. ASSUME NEW w \in Workers, WorkerStep(w), UNCHANGED host PROVE Pressed(a)'
  <2>1. attempts[a].status # "free"
    BY <1>0, <1>3 DEF AttemptKnows, Intended
  <2>2. worker[w].pc \in Holding => worker[w].att # a
    BY <1>3 DEF SubmissionInvariant, WorkerKnows, HoldsAttempt, Intended
  <2> QED BY <1>2, <1>3, <2>1, <2>2, WorkerLeavesAlone
<1>4. ASSUME NEW c \in Attempts, c # a, HostStep(c) PROVE Pressed(a)'
  <2>1. host'[a] = host[a]
    BY <1>0, <1>4, HostOwn DEF SubmissionInvariant, SystemTypeOK
  <2> QED BY <1>2, <1>4, <2>1, HostLeavesAlone
<1>5. CASE HostStep(a)
  <2>1. CASE SubmitIntent(a)
    <3>1. attempts'[a].started /\ attempts'[a].status = "in_progress"
      BY <1>0, <2>1 DEF SubmitIntent, Preparing, Current, AttemptRow
    <3> QED BY <3>1 DEF Pressed, Started
  <2>2. CASE Intended(a) /\ (Fail(a) \/ \E r \in Receipts : Receipt(a, r))
    <3>1. \E status \in {"submission_uncertain", "applied"} : attempts' = Finalized(a, status)
      BY <2>2 DEF Fail, Receipt
    <3>2. attempts'[a].status # "failed"
      BY <1>0, <2>2, <3>1 DEF Finalized, AttemptRow, Pressed
    <3> QED BY <1>0, <1>1, <2>2, <3>2 DEF Pressed
  <2>3. SubmitIntent(a) \/ (Intended(a) /\ (Fail(a) \/ \E r \in Receipts : Receipt(a, r)))
    BY <1>0, <1>5 DEF HostStep, Begin, Resume, MaterialChanged, Checkpoint, HostClaim,
       ReplayClaim, Fail, Receipt, Preparing, Intended, HostTypeOK
  <2> QED BY <2>1, <2>2, <2>3
<1>6. CASE (Operator \/ TurnTick \/ UNCHANGED system) /\ UNCHANGED host
  BY <1>2, <1>6, OthersLeaveAlone
<1> QED BY <1>3, <1>4, <1>5, <1>6 DEF Next, system

\* So no receipt is reconciled with a live attempt of a worker, as long as the operator
\* brings nothing but receipts.
LEMMA KeptStep ==
  ASSUME SubmissionInvariant, SubmissionInvariant', JobInvariant, KeptInvariant,
         LedgerAssumption, WorkersAssumption, HostAssumption,
         Commands \subseteq {"reconcile"}, [Next]_system
  PROVE  KeptInvariant'
<1>1. ASSUME NEW a \in Attempts, attempts'[a].status = "in_progress", host'[a] = "none",
             NEW j, j = attempts'[a].job
      PROVE  jobs'[j].status = "in_progress"
  <2>0. /\ RowsKept /\ GatesGrow /\ JobMoves /\ j \in Jobs
        /\ LedgerTypeOK /\ HostTypeOK
    BY <1>1, ShapeGrows, StepShape, JobMovesStep
       DEF Quiet, SubmissionInvariant, SystemTypeOK, AttemptKnows
  <2>1. CASE attempts[a].status = "in_progress"
    <3>1. attempts[a].job = j
      BY <1>1, <2>0, <2>1 DEF RowsKept
    <3>2. host[a] = "none"
      <4>1. ASSUME NEW c \in Attempts, HostStep(c) PROVE host[a] = "none"
        BY <1>1, <2>0, <4>1 DEF HostStep, Begin, Resume, MaterialChanged, Checkpoint,
           HostClaim, ReplayClaim, SubmitIntent, Fail, Receipt, HostTypeOK
      <4> QED BY <1>1, <4>1 DEF Next, system
    <3> QED BY <1>1, <2>0, <2>1, <3>1, <3>2, KeptJob
  <2>2. CASE attempts[a].status # "in_progress"
    <3>1. ~RowsStay(j) /\ ~JobEnds(j)
      BY <1>1, <2>2 DEF RowsStay, JobEnds
    <3> QED BY <2>0, <3>1 DEF JobMoves, JobStays, JobSet, JobDrawn
  <2> QED BY <2>1, <2>2
<1> QED BY <1>1, IntendedPresses DEF KeptInvariant

-----------------------------------------------------------------------------
(* Where a timely success comes from *)

\* The gate of a makes its job a timely success of the batch b.
TimelyGate(a, b) ==
  /\ gates[a].batch = b
  /\ gates[a].state = "applied"
  /\ uses[b][attempts[a].job] = "applied"
  /\ attempts[a].status = "applied" \/ Live(a)

\* Such a job is a success, because an applied gate has its receipt.
LEMMA GateIsTimely ==
  ASSUME SubmissionInvariant, AppliedIsReceipted, NEW b \in Batches, NEW a \in Attempts,
         TimelyGate(a, b)
  PROVE  attempts[a].job \in TimelySuccesses(b)
<1>1. BoundReceipt(a) /\ attempts[a].job \in Jobs
  BY DEF AppliedIsReceipted, TimelyGate, SubmissionInvariant, AttemptKnows, Gated
<1> QED BY <1>1 DEF TimelyGate, TimelySuccesses, ConfirmedSuccesses

\* A step that leaves the row of a drawn attempt alone makes it neither live nor applied.
LEMMA RowIsOld ==
  ASSUME SubmissionInvariant, SubmissionInvariant', RowsKept, LeasesKept, NEW a \in Attempts,
         attempts[a].status # "free",
         attempts'[a].status = "applied" => attempts[a].status = "applied" \/ Live(a),
         attempts'[a].status = "applied" \/ Live(a)'
  PROVE  attempts[a].status = "applied" \/ Live(a)
<1>1. CASE Live(a)'
  <2>1. attempts[a].status = "in_progress" /\ attempts'[a].lease > now'
    BY <1>1 DEF RowsKept, Live
  <2>2. attempts'[a].lease \in Nat
    BY DEF SubmissionInvariant, SystemTypeOK, AttemptRow
  <2> QED BY <2>1, <2>2 DEF LeasesKept, Live
<1> QED BY <1>1

\* A worker makes a gate timely only where it held it claimed and live.
LEMMA WorkerTimely ==
  ASSUME SubmissionInvariant, SubmissionInvariant', RowsKept, LeasesKept,
         WorkersAssumption, NEW w \in Workers, WorkerStep(w), WritesOnce(w),
         NEW b \in Batches, NEW a \in Attempts, GateKnows(a), TimelyGate(a, b)',
         Gated(a), gates[a].batch = b
  PROVE  TimelyGate(a, b) \/ (gates[a].state = "claimed" /\ Live(a))
<1>0. /\ LedgerTypeOK /\ GatesMatchUses /\ AttemptKnows(a) /\ WorkerKnows(w)
      /\ BatchOf[w] \in Batches
      /\ worker[w].pc \in Holding =>
           /\ worker[w].att \in Attempts /\ worker[w].job \in Jobs
           /\ attempts[worker[w].att].job = worker[w].job
  BY DEF SubmissionInvariant, SystemTypeOK, WorkerKnows, HoldsAttempt, WorkersAssumption
<1>1. attempts[a].status # "free" /\ attempts'[a].job = attempts[a].job
  BY <1>0 DEF AttemptKnows, RowsKept
<1>2. attempts[a].status = "applied" \/ Live(a)
  <2>1. attempts'[a].status = "applied" => attempts[a].status = "applied" \/ Live(a)
    BY WorkerRecords
  <2> QED BY <1>1, <2>1, RowIsOld DEF TimelyGate
<1>3. CASE UNCHANGED <<gates, uses>>
  BY <1>1, <1>2, <1>3 DEF TimelyGate
<1>4. CASE Reserve(w)
  <2>1. /\ worker[w].att \in Attempts /\ attempts[worker[w].att].job = worker[w].job
        /\ worker[w].job \in Jobs
    BY <1>0, <1>4 DEF Reserve, Holding, Pc
  <2>2. a # worker[w].att
    BY <1>4 DEF Reserve, ClaimGate
  <2>3. ~(BatchOf[w] = b /\ worker[w].job = attempts[a].job)
    <3>1. ~Reserved(BatchOf[w], worker[w].job)
      BY <1>4 DEF Reserve, ClaimGate, Refusal
    <3> QED BY <1>0, <3>1 DEF AttemptKnows
  <2>4. gates'[a] = gates[a]
    BY <1>0, <1>4, <2>1, <2>2 DEF Reserve, ClaimGate
  <2>5. uses'[b][attempts[a].job] = uses[b][attempts[a].job]
    BY <1>0, <1>4, <2>1, <2>3 DEF Reserve, ClaimGate
  <2> QED BY <1>1, <1>2, <2>4, <2>5 DEF TimelyGate
<1>5. CASE WriteUse(w) \/ WriteGate(w)
  <2>1. /\ worker[w].att \in Attempts /\ attempts[worker[w].att].job = worker[w].job
        /\ worker[w].job \in Jobs /\ worker[w].pc \in Writing
        /\ GateIn(worker[w].att, BatchOf[w])
    BY <1>0, <1>5 DEF WriteUse, WriteGate, At, Holding, Pc, Writing, WithGate, WorkerKnows
  <2>2. UNCHANGED attempts
    BY <1>5 DEF WriteUse, UpdateUse, WriteGate, UpdateGate
  <2>3. CASE a # worker[w].att
    <3>1. ~(BatchOf[w] = b /\ worker[w].job = attempts[a].job)
      BY <1>0, <2>1, <2>3 DEF GateIn, GatesMatchUses
    <3>2. gates'[a] = gates[a]
      BY <1>0, <1>5, <2>1, <2>3 DEF WriteUse, UpdateUse, WriteGate, UpdateGate
    <3>3. uses'[b][attempts[a].job] = uses[b][attempts[a].job]
      <4>1. PICK j \in Jobs, k \in Jobs, d \in Batches :
              j = attempts[a].job /\ k = worker[w].job /\ d = BatchOf[w]
        BY <1>0, <1>1, <2>1 DEF AttemptKnows
      <4>2. CASE WriteUse(w)
        BY <1>0, <3>1, <4>1, <4>2 DEF WriteUse, UpdateUse
      <4>3. CASE WriteGate(w)
        BY <4>3 DEF WriteGate, UpdateGate
      <4> QED BY <1>5, <4>2, <4>3
    <3> QED BY <1>1, <1>2, <3>2, <3>3 DEF TimelyGate
  <2>4. CASE a = worker[w].att
    <3>1. b = BatchOf[w] /\ attempts[a].job = worker[w].job
      BY <2>1, <2>4 DEF GateIn
    <3>2. worker[w].result = "applied"
      <4>1. CASE WriteUse(w)
        BY <1>0, <1>1, <2>1, <3>1, <4>1 DEF WriteUse, UpdateUse, TimelyGate
      <4>2. CASE WriteGate(w)
        BY <1>0, <2>4, <4>2 DEF WriteGate, UpdateGate, TimelyGate, GateRow
      <4> QED BY <1>5, <4>1, <4>2
    <3>3. gates[a].state = "claimed" /\ attempts[a].status # "applied"
      BY <2>1, <2>4, <3>2 DEF WritesOnce, Writing, Holding, Pc
    <3> QED BY <1>2, <3>3
  <2> QED BY <2>3, <2>4
<1> QED BY <1>3, <1>4, <1>5, WorkerWrites

\* A command of the host writes in the host's batch only.
LEMMA HostTimely ==
  ASSUME SubmissionInvariant, SubmissionInvariant', RowsKept, LeasesKept, LedgerAssumption,
         NEW c \in Attempts, HostStep(c), \A d \in Attempts : GateKnows(d), GateKnows(c)',
         NEW b \in Batches \ {HostBatch}, NEW a \in Attempts, TimelyGate(a, b)',
         Gated(a), gates[a].batch = b
  PROVE  TimelyGate(a, b)
<1>0. /\ LedgerTypeOK /\ HostTypeOK /\ AttemptKnows(a) /\ AttemptKnows(c) /\ HostKnows(c)
      /\ Gated(c) /\ host[c] # "none" => gates[c].batch = HostBatch
  BY DEF SubmissionInvariant, SystemTypeOK, GateKnows
<1>1. attempts[a].status # "free" /\ attempts'[a].job = attempts[a].job
  BY <1>0 DEF AttemptKnows, RowsKept
<1>2. a # c
  <2>1. ASSUME a = c PROVE host[c] = "none"
    BY <1>0, <2>1
  <2>2. ASSUME host[c] = "none" PROVE \E j \in Jobs : Begin(c, j)
    BY <2>2 DEF HostStep, Resume, MaterialChanged, Checkpoint, HostClaim, ReplayClaim,
       SubmitIntent, Fail, Receipt, Preparing, Current, Intended
  <2>3. ASSUME NEW j \in Jobs, Begin(c, j) PROVE attempts[c].status = "free"
    BY <2>3 DEF Begin, StartAttempt
  <2> QED BY <1>1, <2>1, <2>2, <2>3
<1>3. attempts[a].status = "applied" \/ Live(a)
  <2>1. attempts'[a].status = "applied" => attempts[a].status = "applied" \/ Live(a)
    BY <1>2, HostLeavesAlone DEF LeftAlone
  <2> QED BY <1>1, <2>1, RowIsOld DEF TimelyGate
<1>4. gates'[a] = gates[a]
  BY <1>0, <1>2 DEF HostStep, Begin, StartAttempt, Resume, RenewAttempt, MaterialChanged,
     Checkpoint, HostClaim, ReplayClaim, SubmitIntent, Fail, Receipt, ReconcileOn, ledger
<1>5. uses'[b] = uses[b]
  <2>1. CASE HostClaim(c)
    BY <1>0, <2>1 DEF HostClaim
  <2>2. CASE Fail(c)
    BY <1>0, <2>2 DEF Fail, Current
  <2>3. ASSUME NEW r \in Receipts, Receipt(c, r) PROVE uses'[b] = uses[b]
    <3>1. gates[c].batch = HostBatch /\ c # None
      BY <1>0, <2>3, LedgerAssumption DEF Receipt, HostKnows, Intended, LedgerAssumption
    <3> QED BY <1>0, <2>3, <3>1 DEF Receipt, ReconcileOn, GateRow
  <2>4. UNCHANGED uses \/ HostClaim(c) \/ Fail(c) \/ \E r \in Receipts : Receipt(c, r)
    BY DEF HostStep, Begin, StartAttempt, Resume, RenewAttempt, MaterialChanged, Checkpoint,
       ReplayClaim, SubmitIntent, ledger
  <2> QED BY <2>1, <2>2, <2>3, <2>4
<1> QED BY <1>1, <1>3, <1>4, <1>5 DEF TimelyGate

\* A receipt closes no gate of a live attempt, nor one that an applied attempt left open.
LEMMA OthersTimely ==
  ASSUME SubmissionInvariant, SubmissionInvariant', RowsKept, LeasesKept, LedgerAssumption,
         "reconcile" \in Commands => KeptInvariant,
         Operator \/ TurnTick \/ UNCHANGED system, \A d \in Attempts : GateKnows(d),
         NEW b \in Batches \ {HostBatch}, NEW a \in Attempts, TimelyGate(a, b)',
         Gated(a), gates[a].batch = b
  PROVE  TimelyGate(a, b)
<1>0. /\ LedgerTypeOK /\ GatesMatchUses /\ AttemptKnows(a) /\ GateKnows(a)
  BY DEF SubmissionInvariant, SystemTypeOK
<1>1. UNCHANGED attempts /\ attempts[a].status # "free"
  BY <1>0 DEF Operator, Mark, MarkJob, Reset, ResetFailed, ReconcileReceipt, Reconcile, TurnTick,
     Tick, system, AttemptKnows
<1>2. attempts[a].status = "applied" \/ Live(a)
  BY <1>1, RowIsOld DEF TimelyGate
<1>3. CASE UNCHANGED <<gates, uses>>
  BY <1>1, <1>2, <1>3 DEF TimelyGate
<1>4. ASSUME NEW r \in Receipts, NEW j \in Jobs, NEW c \in Attempts \cup {None}, Reconcile(r, j, c),
             KeptInvariant
      PROVE  TimelyGate(a, b)
  <2>1. CASE c = None
    BY <1>3, <1>4, <2>1 DEF Reconcile, ReconcileOn
  <2>2. CASE c # None
    <3>1. /\ c \in Attempts /\ attempts[c].job = j /\ Gated(c)
          /\ gates[c].state = uses[gates[c].batch][j]
          /\ gates' = [gates EXCEPT ![c].state = "applied"]
          /\ uses' = [uses EXCEPT ![gates[c].batch][j] = "applied"]
      BY <1>4, <2>2 DEF Reconcile, ReconcileOn, Bindable, Closable
    <3>2. CASE a # c
      <4>1. ~(gates[c].batch = b /\ j = attempts[a].job)
        BY <1>0, <3>1, <3>2 DEF GatesMatchUses
      <4>2. gates'[a] = gates[a]
        BY <1>0, <3>1, <3>2
      <4>3. uses'[b][attempts[a].job] = uses[b][attempts[a].job]
        BY <1>0, <3>1, <4>1
      <4> QED BY <1>1, <1>2, <4>2, <4>3 DEF TimelyGate
    <3>3. CASE a = c
      <4>1. ~Live(a)
        <5>1. ASSUME Live(a) PROVE host[a] = "none"
          BY <1>0 DEF GateKnows
        <5>2. ASSUME Live(a) PROVE jobs[j].status = "in_progress"
          BY <1>4, <3>1, <3>3, <5>1, <5>2 DEF KeptInvariant, Live
        <5> QED BY <1>4, <5>2 DEF Reconcile, ReconcileOn, Reconcilable
      <4>2. gates[a].state = "applied"
        BY <1>0, <1>2, <4>1 DEF GateKnows
      <4> QED BY <1>1, <1>2, <3>1, <3>3, <4>2 DEF TimelyGate
    <3> QED BY <3>2, <3>3
  <2> QED BY <2>1, <2>2
<1> QED BY <1>3, <1>4 DEF Operator, Mark, MarkJob, Reset, ResetFailed, ReconcileReceipt, TurnTick,
         Tick, system

\* Whoever acts, a gate becomes timely only where it was claimed and live.
LEMMA TimelyStep ==
  ASSUME SubmissionInvariant, SubmissionInvariant', LedgerAssumption, WorkersAssumption,
         HostAssumption, "reconcile" \in Commands => KeptInvariant,
         \A w \in Workers : WritesOnce(w),
         \A d \in Attempts : GateKnows(d) /\ GateKnows(d)', [Next]_system,
         NEW b \in Batches \ {HostBatch}, NEW a \in Attempts, TimelyGate(a, b)'
  PROVE  \/ TimelyGate(a, b)
         \/ gates[a].state = "claimed" /\ Live(a) /\ gates[a].batch = b
<1>1. RowsKept /\ LeasesKept
  BY StepShape, WorkerLeases, HostLeases, OthersLeases DEF Quiet, Next
<1>2. LedgerTypeOK /\ gates'[a].state = "applied" /\ gates'[a].batch = b
  BY DEF SubmissionInvariant, SystemTypeOK, TimelyGate
<1>3. Gated(a) /\ gates[a].batch = b
  <2>1. CASE GatesKept
    BY <1>2, <2>1 DEF GatesKept, Gated
  <2>2. ASSUME NEW c \in Attempts, NEW d \in Batches, Grants(c, d)
        PROVE  Gated(a) /\ gates[a].batch = b
    BY <1>2, <2>2 DEF Grants, Gated
  <2> QED BY <2>1, <2>2, StepShape DEF Quiet
<1> QED BY <1>1, <1>3, WorkerTimely, HostTimely, OthersTimely DEF Next

\* A gate outside the host's batch is claimed anew only for a batch short of its target.
LEMMA ClaimsShort ==
  ASSUME SubmissionInvariant, SubmissionInvariant', LedgerFinite, LedgerAssumption,
         SuccessTarget # None, [Next]_system, \A d \in Attempts : GateKnows(d)', NEW a \in Attempts,
         gates'[a].state = "claimed", gates[a].state # "claimed", gates'[a].batch # HostBatch
  PROVE  Cardinality(ConfirmedSuccesses(gates'[a].batch)) < SuccessTarget
<1>0. LedgerTypeOK /\ gates' \in [Attempts -> GateRow]
  BY DEF SubmissionInvariant, SystemTypeOK
<1>1. ASSUME NEW w \in Workers, WorkerStep(w)
      PROVE  Reserve(w) /\ a = worker[w].att /\ gates'[a].batch = BatchOf[w]
  <2>1. /\ worker[w].pc \in Holding => worker[w].att \in Attempts
        /\ worker[w].pc \in Settling => worker[w].result \in Outcome
    BY DEF SubmissionInvariant, WorkerKnows, HoldsAttempt
  <2>2. ~WriteGate(w)
    BY <1>0, <2>1 DEF WriteGate, UpdateGate, At, Settling, Outcome, GateRow
  <2>3. Reserve(w)
    BY <1>1, <2>2, WorkerWrites DEF WriteUse, UpdateUse
  <2>4. a = worker[w].att /\ gates'[a].batch = BatchOf[w]
    BY <1>0, <2>3 DEF Reserve, ClaimGate
  <2> QED BY <2>3, <2>4
<1>2. ASSUME NEW c \in Attempts, HostStep(c) PROVE FALSE
  <2>1. ~HostClaim(c)
    BY <1>0 DEF HostClaim
  <2>2. ~Fail(c)
    BY <1>0 DEF Fail, GateRow
  <2>3. ASSUME NEW r \in Receipts, Receipt(c, r) PROVE FALSE
    BY <1>0, <2>3 DEF Receipt, ReconcileOn, GateRow
  <2>4. ~UNCHANGED gates
    OBVIOUS
  <2> QED BY <1>2, <2>1, <2>2, <2>3, <2>4
          DEF HostStep, Begin, StartAttempt, Resume, RenewAttempt, MaterialChanged, Checkpoint,
              ReplayClaim, SubmitIntent, ledger
<1>3. ASSUME Operator \/ TurnTick \/ UNCHANGED system PROVE FALSE
  <2>1. ASSUME NEW r \in Receipts, NEW j \in Jobs, NEW c \in Attempts \cup {None},
               Reconcile(r, j, c)
        PROVE  FALSE
    BY <1>0, <2>1 DEF Reconcile, ReconcileOn, GateRow
  <2>2. ~UNCHANGED gates
    OBVIOUS
  <2> QED BY <1>3, <2>1, <2>2 DEF Operator, Mark, MarkJob, Reset, ResetFailed, ReconcileReceipt,
             TurnTick, Tick, system
<1>4. PICK w \in Workers : Reserve(w) /\ gates'[a].batch = BatchOf[w]
  BY <1>1, <1>2, <1>3 DEF Next
<1>5. Cardinality(ConfirmedSuccesses(BatchOf[w])) \in Nat
  <2>1. ConfirmedSuccesses(BatchOf[w]) \subseteq Jobs
    BY DEF ConfirmedSuccesses
  <2> QED BY <2>1, FS_Subset, FS_CardinalityType DEF LedgerFinite
<1>6. ~(Cardinality(ConfirmedSuccesses(BatchOf[w])) >= SuccessTarget)
  BY <1>4 DEF Reserve, ClaimGate, Refusal
<1> QED BY <1>4, <1>5, <1>6, LedgerAssumption DEF LedgerAssumption

-----------------------------------------------------------------------------
(* The target *)

\* One success more than fits under the target still fits.
LEMMA OneMoreFits ==
  ASSUME LedgerFinite, LedgerAssumption, SuccessTarget # None,
         NEW S, NEW T \in SUBSET Jobs, NEW j,
         \/ S \subseteq T /\ Cardinality(T) <= SuccessTarget
         \/ S \subseteq T \cup {j} /\ Cardinality(T) < SuccessTarget
  PROVE  Cardinality(S) <= SuccessTarget
<1>1. IsFiniteSet(T) /\ Cardinality(T) \in Nat /\ SuccessTarget \in Nat
  BY FS_Subset, FS_CardinalityType, LedgerAssumption DEF LedgerFinite, LedgerAssumption
<1>2. /\ IsFiniteSet(T \cup {j})
      /\ Cardinality(T \cup {j}) = Cardinality(T) \/ Cardinality(T \cup {j}) = Cardinality(T) + 1
  BY <1>1, FS_AddElement
<1>3. CASE S \subseteq T /\ Cardinality(T) <= SuccessTarget
  <2>1. Cardinality(S) \in Nat /\ Cardinality(S) <= Cardinality(T)
    BY <1>1, <1>3, FS_Subset, FS_CardinalityType
  <2> QED BY <1>1, <1>3, <2>1
<1>4. CASE S \subseteq T \cup {j} /\ Cardinality(T) < SuccessTarget
  <2>1. Cardinality(S) \in Nat /\ Cardinality(S) <= Cardinality(T \cup {j})
    BY <1>2, <1>4, FS_Subset, FS_CardinalityType
  <2> QED BY <1>1, <1>2, <1>4, <2>1
<1> QED BY <1>3, <1>4

\* The successes of a batch grow by none, or by the job of the one claim that is live.
LEMMA SuccessesGrow ==
  ASSUME SubmissionInvariant, SubmissionInvariant', AppliedIsReceipted, SingleWriter,
         LedgerAssumption, WorkersAssumption, HostAssumption,
         "reconcile" \in Commands => KeptInvariant,
         \A w \in Workers : WritesOnce(w),
         \A d \in Attempts : GateKnows(d) /\ GateKnows(d)', [Next]_system,
         NEW b \in Batches \ {HostBatch}
  PROVE  \/ TimelySuccesses(b)' \subseteq TimelySuccesses(b)
         \/ \E a \in Attempts :
              /\ gates[a].state = "claimed" /\ Live(a) /\ gates[a].batch = b
              /\ gates'[a].state = "applied"
              /\ \E j : TimelySuccesses(b)' \subseteq TimelySuccesses(b) \cup {j}
<1>0. RowsKept /\ GatesMatchUses' /\ \A a \in Attempts : AttemptKnows(a)
  BY StepShape DEF Quiet, SubmissionInvariant
<1>1. ASSUME NEW j \in TimelySuccesses(b)'
      PROVE  \E a \in Attempts : TimelyGate(a, b)' /\ attempts'[a].job = j
  <2>1. PICK c \in Attempts : /\ attempts'[c].job = j /\ gates'[c].batch = b
                              /\ attempts'[c].status = "applied" \/ Live(c)'
    BY <1>1 DEF TimelySuccesses
  <2>2. /\ uses'[b][j] = "applied"
        /\ \E a \in Attempts : /\ attempts'[a].job = j /\ gates'[a].batch = b
                               /\ gates'[a].state = "applied"
    BY <1>1 DEF TimelySuccesses, ConfirmedSuccesses
  <2>3. PICK a \in Attempts : /\ attempts'[a].job = j /\ gates'[a].batch = b
                              /\ gates'[a].state = "applied"
    BY <2>2
  <2>4. Gated(a)' /\ Gated(c)'
    BY <2>1, <2>3, LedgerAssumption DEF GateKnows, Gated, LedgerAssumption
  <2>5. a = c
    BY <1>0, <2>1, <2>3, <2>4 DEF GatesMatchUses
  <2> QED BY <2>1, <2>2, <2>3, <2>5 DEF TimelyGate
<1>2. ASSUME NEW a \in Attempts, TimelyGate(a, b)', TimelyGate(a, b)
      PROVE  attempts'[a].job \in TimelySuccesses(b)
  <2>1. attempts'[a].job = attempts[a].job
    BY <1>0, <1>2 DEF TimelyGate, AttemptKnows, Gated, RowsKept
  <2> QED BY <1>2, <2>1, GateIsTimely
<1>3. CASE \A a \in Attempts : TimelyGate(a, b)' => TimelyGate(a, b)
  BY <1>1, <1>2, <1>3
<1>4. ASSUME NEW a \in Attempts, TimelyGate(a, b)', ~TimelyGate(a, b)
      PROVE  /\ gates[a].state = "claimed" /\ Live(a) /\ gates[a].batch = b
             /\ gates'[a].state = "applied"
             /\ TimelySuccesses(b)' \subseteq TimelySuccesses(b) \cup {attempts'[a].job}
  <2>1. \A c \in Attempts : TimelyGate(c, b)' =>
          \/ TimelyGate(c, b)
          \/ gates[c].state = "claimed" /\ Live(c) /\ gates[c].batch = b
    BY TimelyStep
  <2>2. \A c \in Attempts : TimelyGate(c, b)' => TimelyGate(c, b) \/ c = a
    BY <1>4, <2>1 DEF SingleWriter
  <2>3. TimelySuccesses(b)' \subseteq TimelySuccesses(b) \cup {attempts'[a].job}
    BY <1>1, <1>2, <2>2
  <2> QED BY <1>4, <2>1, <2>3 DEF TimelyGate
<1> QED BY <1>3, <1>4

\* The target invariant is inductive: what is claimed and live fits under the target, and
\* there is one such claim.
LEMMA TargetStep ==
  ASSUME SubmissionInvariant, SubmissionInvariant', ReceiptInvariant, WriterInvariant,
         TargetInvariant, "reconcile" \in Commands => KeptInvariant,
         LedgerAssumption, LedgerFinite, WorkersAssumption, HostAssumption, [Next]_system
  PROVE  TargetInvariant'
<1>1. ASSUME NEW w \in Workers PROVE WritesOnce(w)'
  <2>1. WritesOnce(w) /\ HoldsWrite(w)
    BY DEF TargetInvariant, WriterInvariant
  <2> QED BY <2>1, HeldAlone, WritesOnceOwn, WritesOnceStays
<1>2. ASSUME NEW a \in Attempts PROVE GateKnows(a)'
  BY WorkerGates, HostGates, OthersGates DEF TargetInvariant, Next, system
<1>3. /\ RowsKept /\ LeasesKept /\ ClaimsChecked /\ LedgerTypeOK
      /\ AppliedIsReceipted /\ SingleWriter
      /\ \A w \in Workers : WritesOnce(w)
      /\ \A a \in Attempts : GateKnows(a) /\ AttemptKnows(a)
  BY StepShape, WorkerLeases, HostLeases, OthersLeases
     DEF Quiet, Next, SubmissionInvariant, SystemTypeOK, ReceiptInvariant, WriterInvariant,
         TargetInvariant
<1>4. ASSUME SuccessTarget # None, NEW b \in Batches \ {HostBatch}
      PROVE  Cardinality(TimelySuccesses(b)') <= SuccessTarget
  <2>0. TimelySuccesses(b) \in SUBSET Jobs
    BY DEF TimelySuccesses, ConfirmedSuccesses
  <2>1. CASE TimelySuccesses(b)' \subseteq TimelySuccesses(b)
    <3>1. Cardinality(TimelySuccesses(b)) <= SuccessTarget
      BY <1>4 DEF TargetInvariant, TargetNotExceeded
    <3> QED BY <1>4, <2>0, <2>1, <3>1, LedgerAssumption, LedgerFinite, OneMoreFits
  <2>2. ASSUME NEW a \in Attempts, gates[a].state = "claimed", Live(a), gates[a].batch = b,
               NEW j, TimelySuccesses(b)' \subseteq TimelySuccesses(b) \cup {j}
        PROVE  Cardinality(TimelySuccesses(b)') <= SuccessTarget
    <3>1. Cardinality(TimelySuccesses(b)) < SuccessTarget
      BY <1>4, <2>2 DEF TargetInvariant, ClaimFits
    <3> QED BY <1>4, <2>0, <2>2, <3>1, LedgerAssumption, LedgerFinite, OneMoreFits
  <2> QED BY <1>2, <1>3, <2>1, <2>2, SuccessesGrow
<1>5. ASSUME SuccessTarget # None, NEW a \in Attempts, gates'[a].state = "claimed", Live(a)',
             NEW b, b = gates'[a].batch, b # HostBatch
      PROVE  Cardinality(TimelySuccesses(b)') < SuccessTarget
  <2>0. b \in Batches /\ TimelySuccesses(b) \in SUBSET Jobs
    BY <1>5 DEF SubmissionInvariant, AttemptKnows, Gated, TimelySuccesses, ConfirmedSuccesses
  <2>1. CASE gates[a].state = "claimed"
    <3>1. gates[a].batch = b
      <4>1. CASE GatesKept
        BY <1>5, <4>1 DEF GatesKept
      <4>2. ASSUME NEW c \in Attempts, NEW d \in Batches, Grants(c, d) PROVE gates[a].batch = b
        BY <1>3, <1>5, <2>1, <4>2 DEF Grants, Gated
      <4> QED BY <4>1, <4>2, StepShape DEF Quiet
    <3>2. Live(a)
      <4>1. attempts[a].status # "free"
        BY <1>3, <2>1 DEF AttemptKnows, Gated
      <4>2. attempts[a].status = "in_progress" /\ attempts'[a].lease > now'
        BY <1>3, <1>5, <4>1 DEF RowsKept, Live
      <4>3. attempts'[a].lease \in Nat
        BY DEF SubmissionInvariant, SystemTypeOK, AttemptRow
      <4> QED BY <1>3, <4>1, <4>2, <4>3 DEF LeasesKept, Live
    <3>3. Cardinality(TimelySuccesses(b)) < SuccessTarget
      BY <1>5, <2>1, <3>1, <3>2 DEF TargetInvariant, ClaimFits
    <3>4. TimelySuccesses(b)' \subseteq TimelySuccesses(b)
      <4>1. ASSUME NEW c \in Attempts, gates[c].state = "claimed", Live(c),
                   gates'[c].state = "applied"
            PROVE  FALSE
        BY <1>3, <1>5, <2>1, <3>2, <4>1 DEF SingleWriter
      <4> QED BY <1>2, <1>3, <1>5, <2>0, <4>1, SuccessesGrow
    <3> QED BY <2>0, <3>3, <3>4, FS_Subset, FS_CardinalityType, LedgerAssumption, LedgerFinite
            DEF LedgerFinite, LedgerAssumption
  <2>2. CASE gates[a].state # "claimed"
    <3>1. Cardinality(ConfirmedSuccesses(b)) < SuccessTarget
      BY <1>2, <1>5, <2>2, LedgerAssumption, LedgerFinite, ClaimsShort
    <3>2. ~WriterBusy(a)
      BY <1>3, <1>5, <2>2 DEF ClaimsChecked
    <3>3. TimelySuccesses(b)' \subseteq TimelySuccesses(b)
      <4>1. ASSUME NEW c \in Attempts, gates[c].state = "claimed", Live(c),
                   gates'[c].state = "applied"
            PROVE  FALSE
        BY <1>5, <2>2, <3>2, <4>1 DEF WriterBusy
      <4> QED BY <1>2, <1>3, <1>5, <2>0, <4>1, SuccessesGrow
    <3>4. TimelySuccesses(b)' \subseteq ConfirmedSuccesses(b) /\ ConfirmedSuccesses(b) \subseteq Jobs
      BY <3>3 DEF TimelySuccesses, ConfirmedSuccesses
    <3> QED BY <3>1, <3>4, FS_Subset, FS_CardinalityType, LedgerAssumption, LedgerFinite
            DEF LedgerFinite, LedgerAssumption
  <2> QED BY <2>1, <2>2
<1>6. TargetNotExceeded'
  BY <1>4 DEF TargetNotExceeded
<1>7. SuccessTarget # None => \A a \in Attempts : ClaimFits(a)'
  BY <1>5 DEF ClaimFits
<1> QED BY <1>1, <1>2, <1>6, <1>7 DEF TargetInvariant

\* While receipts are all the operator brings, no live attempt of a worker is reconciled.
LEMMA KeptHolds ==
  ASSUME Commands \subseteq {"reconcile"}
  PROVE  Spec => []KeptInvariant
<1>1. Init => KeptInvariant
  BY DEF Init, LedgerInit, HostInit, KeptInvariant, Intended
<1>2. SubmissionInvariant /\ SubmissionInvariant' /\ JobInvariant /\ KeptInvariant /\ [Next]_system
        => KeptInvariant'
  BY LedgerAssumption, WorkersAssumption, HostAssumption, KeptStep
<1>3. "reset" \notin Commands
  OBVIOUS
<1>4. Spec => []JobInvariant
  BY <1>3, JobsHold
<1> QED BY <1>1, <1>2, <1>4, InvariantHolds, PTL DEF Spec

\* No batch of the workers has more timely successes than the run's target, for any number
\* of workers and processes: the target is tested in the gate's transaction, one claim is
\* live at a time, and a claim is written once.  Receipts may be reconciled at any time, if
\* the operator gives no other command, which could take the job from the live attempt.
THEOREM TargetsHold ==
  ASSUME "reconcile" \in Commands => Commands = {"reconcile"}
  PROVE  Spec => []TargetNotExceeded
<1>1. Init => TargetInvariant
  <2> SUFFICES ASSUME Init PROVE TargetInvariant
    OBVIOUS
  <2>1. \A a \in Attempts : GateKnows(a)
    BY DEF Init, LedgerInit, GateKnows, Gated
  <2>2. \A w \in Workers : WritesOnce(w)
    BY DEF Init, WorkerInit, Idle, WritesOnce, Writing, Holding
  <2>3. \A a \in Attempts : ClaimFits(a)
    BY DEF Init, LedgerInit, ClaimFits
  <2>4. \A b \in Batches : TimelySuccesses(b) = {}
    BY DEF Init, LedgerInit, TimelySuccesses, ConfirmedSuccesses
  <2>5. TargetNotExceeded
    BY <2>4, FS_EmptySet, LedgerAssumption DEF TargetNotExceeded, LedgerAssumption
  <2> QED BY <2>1, <2>2, <2>3, <2>5 DEF TargetInvariant
<1>2. TargetInvariant => TargetNotExceeded
  BY DEF TargetInvariant
<1>3. Spec => []ReceiptInvariant
  BY ReceiptsHold
<1>4. CASE "reconcile" \notin Commands
  <2>1. /\ SubmissionInvariant /\ SubmissionInvariant' /\ ReceiptInvariant /\ WriterInvariant
        /\ TargetInvariant /\ [Next]_system
        => TargetInvariant'
    BY <1>4, LedgerAssumption, LedgerFinite, WorkersAssumption, HostAssumption, TargetStep
  <2> QED BY <1>1, <1>2, <1>3, <2>1, InvariantHolds, WriterHolds, PTL DEF Spec
<1>5. CASE Commands \subseteq {"reconcile"}
  <2>1. /\ SubmissionInvariant /\ SubmissionInvariant' /\ ReceiptInvariant /\ WriterInvariant
        /\ TargetInvariant /\ KeptInvariant /\ [Next]_system
        => TargetInvariant'
    BY LedgerAssumption, LedgerFinite, WorkersAssumption, HostAssumption, TargetStep
  <2>2. Spec => []KeptInvariant
    BY <1>5, KeptHolds
  <2> QED BY <1>1, <1>2, <1>3, <2>1, <2>2, InvariantHolds, WriterHolds, PTL DEF Spec
<1> QED BY <1>4, <1>5

-----------------------------------------------------------------------------
(* What may undo an applied job *)

\* The worker w is a dry run that is about to write back the row it captured for the job j.
WritesBack(w, j) == w \in DryRun /\ At(w, "restore") /\ worker[w].job = j

\* While receipts are all the operator brings, the restore of a dry run is the only step that
\* takes a job out of "applied": a worker's outcome is written to a job in progress, a host
\* acts on a job that is not applied, and recovery passes by what is not in progress.
LEMMA AppliedStep ==
  ASSUME SubmissionInvariant, JobInvariant, KeptInvariant, Commands \subseteq {"reconcile"},
         [Next]_system, NEW j \in Jobs, jobs[j].status = "applied",
         \A w \in DryRun : ~WritesBack(w, j)
  PROVE  jobs'[j].status = "applied"
<1>0. LedgerTypeOK /\ jobs[j] \in JobRow
  BY DEF SubmissionInvariant, SystemTypeOK, LedgerTypeOK
<1>1. CASE jobs'[j] = jobs[j]
  BY <1>1
<1>2. ASSUME NEW k \in Jobs, k # j, NEW row, jobs' = [jobs EXCEPT ![k] = row]
      PROVE  jobs'[j] = jobs[j]
  BY <1>2
<1>3. ASSUME NEW w \in Workers, WorkerStep(w) PROVE jobs'[j].status = "applied"
  <2> DEFINE a == worker[w].att
             k == worker[w].job
  <2>0. /\ worker[w].pc \in Holding => /\ a \in Attempts /\ k \in Jobs
                                       /\ attempts[a].job = k /\ host[a] = "none"
        /\ At(w, "candidate") => k \in Jobs /\ Claimable(worker[w].row)
        /\ At(w, "restore") => w \in DryRun
    BY DEF SubmissionInvariant, WorkerKnows, HoldsAttempt, JobInvariant, WorkerJob
  <2>1. CASE BeginAcquire(w)
    BY <1>0, <2>1 DEF BeginAcquire, RecoverStale
  <2>2. CASE BlockPortal(w) \/ \E d \in Attempts : Claim(w, d)
    <3>1. k \in Jobs /\ Claimable(jobs[k])
      BY <2>0, <2>2 DEF BlockPortal, Claim, StillCurrent
    <3>2. k # j
      BY <3>1 DEF Claimable
    <3>3. \E row : jobs' = [jobs EXCEPT ![k] = row]
      BY <1>0, <2>2, <3>1 DEF BlockPortal, BlockCandidate, Claim, StartAttempt
    <3> QED BY <1>1, <1>2, <3>1, <3>2, <3>3
  <2>3. CASE EndPreview(w) \/ Record(w)
    <3>1. a \in Attempts /\ k \in Jobs /\ attempts[a].job = k /\ host[a] = "none"
      BY <2>0, <2>3 DEF EndPreview, Record, At, Holding, Pc
    <3>2. \/ jobs' = jobs
          \/ Live(a) /\ \E row : jobs' = [jobs EXCEPT ![k] = row]
      BY ZenonT(60), <2>3, <3>1 DEF EndPreview, Record, MarkResult, OwnsJob, ledger
    <3>3. Live(a) => k # j
      BY <3>1 DEF Live, KeptInvariant
    <3> QED BY <1>1, <1>2, <3>1, <3>2, <3>3
  <2>4. CASE Restore(w)
    <3>1. a \in Attempts /\ k \in Jobs /\ attempts[a].job = k /\ k # j
      BY <2>0, <2>4 DEF Restore, At, Holding, Pc, WritesBack
    <3>2. jobs' = jobs \/ \E row : jobs' = [jobs EXCEPT ![k] = row]
      BY <2>4, <3>1 DEF Restore, RestorePreview
    <3> QED BY <1>1, <1>2, <3>1, <3>2
  <2>5. CASE Release(w)
    <3>1. a \in Attempts /\ k \in Jobs /\ attempts[a].job = k
      BY <2>0, <2>5 DEF Release, At, Holding, Pc
    <3>2. \/ jobs' = jobs
          \/ jobs[k].status = "in_progress" /\ \E row : jobs' = [jobs EXCEPT ![k] = row]
      BY <2>5, <3>1 DEF Release, ReleaseLock
    <3> QED BY <1>1, <1>2, <3>1, <3>2
  <2>6. \/ UNCHANGED jobs \/ BeginAcquire(w) \/ BlockPortal(w)
        \/ (\E d \in Attempts : Claim(w, d))
        \/ EndPreview(w) \/ Restore(w) \/ Record(w) \/ Release(w)
    BY <1>3 DEF WorkerStep, SelectNothing, SkipCandidate, Select, AwaitApplicant, RenewAttempt,
       EnterReservation, StartSubmit, EndPrepare, ReservationLeaseLost, Reserve, ClaimGate,
       Denied, SubmitLeaseLost, EndSubmit, Observe, Confirm, AdmitEmail, Decide, WriteUse,
       UpdateUse, WriteGate, UpdateGate, LedgerWriteFails, ThreadDies, LauncherError, Crash, ledger
  <2> QED BY <1>1, <2>1, <2>2, <2>3, <2>4, <2>5, <2>6
<1>4. ASSUME NEW c \in Attempts, HostStep(c) PROVE jobs'[j].status = "applied"
  <2>1. ASSUME NEW k \in Jobs, Begin(c, k) PROVE jobs'[j].status = "applied"
    <3>1. k # j
      BY <2>1 DEF Begin
    <3> QED BY <1>1, <1>2, <2>1, <3>1 DEF Begin, StartAttempt
  <2>2. CASE SubmitIntent(c) \/ Fail(c)
    <3>1. Current(c)
      BY <2>2 DEF SubmitIntent, Fail, Preparing
    <3>2. attempts[c].job \in Jobs /\ attempts[c].job # j
      BY <3>1 DEF Current, SubmissionInvariant, AttemptKnows
    <3>3. jobs'[j] = jobs[j]
      BY <1>0, <2>2, <3>2 DEF SubmitIntent, Fail
    <3> QED BY <1>1, <3>3
  <2>3. ASSUME NEW r \in Receipts, Receipt(c, r) PROVE jobs'[j].status = "applied"
    <3> DEFINE k == attempts[c].job
    <3>1. k \in Jobs
      BY <2>3 DEF Receipt, Intended, SubmissionInvariant, AttemptKnows
    <3>2. /\ jobs'[k].status = "applied"
          /\ \A i \in Jobs \ {k} : jobs'[i] = jobs[i]
      <4> DEFINE J == [jobs EXCEPT ![k].status = "submission_uncertain"]
                 G == [gates EXCEPT ![c].state = "submission_uncertain"]
                 U == [uses EXCEPT ![gates[c].batch][k] = "submission_uncertain"]
      <4>1. J \in [Jobs -> JobRow] /\ \A i \in Jobs \ {k} : J[i] = jobs[i]
        BY <1>0, <3>1 DEF JobRow, JobStatus
      <4>2. ReconcileOn(jobs, gates, uses, r, k, c) \/ ReconcileOn(J, G, U, r, k, c)
        BY <2>3 DEF Receipt
      <4> HIDE DEF J, G, U
      <4> QED BY <1>0, <3>1, <4>1, <4>2, ReconcileSets
    <3> QED BY <1>1, <3>1, <3>2
  <2>4. UNCHANGED jobs \/ (\E k \in Jobs : Begin(c, k)) \/ SubmitIntent(c) \/ Fail(c)
        \/ \E r \in Receipts : Receipt(c, r)
    BY <1>4 DEF HostStep, Resume, RenewAttempt, MaterialChanged, Checkpoint, HostClaim,
       ReplayClaim, ledger
  <2> QED BY <1>1, <2>1, <2>2, <2>3, <2>4
<1>5. ASSUME NEW r \in Receipts, NEW k \in Jobs, NEW c \in Attempts \cup {None},
             Reconcile(r, k, c)
      PROVE  jobs'[j].status = "applied"
  BY <1>0, <1>5 DEF Reconcile, ReconcileOn, JobRow
<1>6. CASE Operator \/ TurnTick \/ UNCHANGED system
  BY <1>1, <1>5, <1>6 DEF Operator, Mark, Reset, ReconcileReceipt, TurnTick, Tick, system
<1> QED BY <1>3, <1>4, <1>5, <1>6 DEF Next

\* A job that was applied stays so, whoever recovers, releases or reports late, except where
\* a dry run that lost the job writes back what it captured: the finding of the run MCsticky
\* is the only way (restore_preview_state).
THEOREM OnlyPreviewsUndo ==
  ASSUME Commands \subseteq {"reconcile"}
  PROVE  Spec => [][ \A j \in Jobs : jobs[j].status = "applied" /\ jobs'[j].status # "applied"
                       => \E w \in DryRun : WritesBack(w, j) ]_system
<1>1. SubmissionInvariant /\ JobInvariant /\ KeptInvariant /\ [Next]_system
      => [ \A j \in Jobs : jobs[j].status = "applied" /\ jobs'[j].status # "applied"
             => \E w \in DryRun : WritesBack(w, j) ]_system
  BY AppliedStep
<1>2. Spec => []JobInvariant
  <2>1. "reset" \notin Commands
    OBVIOUS
  <2> QED BY <2>1, JobsHold
<1>3. Spec => []KeptInvariant
  BY KeptHolds
<1> QED BY <1>1, <1>2, <1>3, InvariantHolds, PTL DEF Spec

\* So a receipt's verdict stands in every process that makes no dry run.
THEOREM ReceiptsStand ==
  ASSUME Commands \subseteq {"reconcile"}, DryRun = {}
  PROVE  Spec => AppliedIsSticky
<1>1. [ \A j \in Jobs : jobs[j].status = "applied" /\ jobs'[j].status # "applied"
          => \E w \in DryRun : WritesBack(w, j) ]_system
      => [ \A j \in Jobs : jobs[j].status = "applied" /\ HasReceipt(j)
             => jobs'[j].status = "applied" ]_system
  OBVIOUS
<1> QED BY <1>1, OnlyPreviewsUndo, PTL DEF AppliedIsSticky

-----------------------------------------------------------------------------
(* What the host leaves uncertain can be closed *)

\* The attended attempts whose end their host has recorded.
HostSettled(a) == host[a] \in {"submission_uncertain", "applied"}

\* A receipt that names the gate of such an attempt is let through by its two rows.
AttendedIsClosable == \A a \in Attempts : HostSettled(a) => Closable(gates, uses, a, attempts[a].job)

\* The gate of an attempt, its consumption and its job stay as they were.
PairStays(a) ==
  /\ gates'[a] = gates[a]
  /\ attempts'[a].job = attempts[a].job
  /\ uses'[gates[a].batch][attempts[a].job] = uses[gates[a].batch][attempts[a].job]

\* Two gates are of two batches or of two jobs, so that a write to one is none to the other.
LEMMA UsesApart ==
  ASSUME SubmissionInvariant, NEW a \in Attempts, NEW c \in Attempts, a # c, Gated(a), Gated(c),
         NEW state, NEW U, U = [uses EXCEPT ![gates[c].batch][attempts[c].job] = state]
  PROVE  U[gates[a].batch][attempts[a].job] = uses[gates[a].batch][attempts[a].job]
<1>1. gates[a].batch # gates[c].batch \/ attempts[a].job # attempts[c].job
  BY DEF SubmissionInvariant, GatesMatchUses
<1>2. uses \in [Batches -> [Jobs -> UseStatus]]
  BY DEF SubmissionInvariant, SystemTypeOK, LedgerTypeOK
<1>3. gates[c].batch \in Batches /\ gates[a].batch \in Batches
  BY DEF SubmissionInvariant, AttemptKnows
<1> QED BY <1>1, <1>2, <1>3

\* A claim takes a pair of batch and job that no gate has.
LEMMA ClaimApart ==
  ASSUME SubmissionInvariant, NEW a \in Attempts, Gated(a), NEW b \in Batches, NEW j \in Jobs,
         ~Reserved(b, j), NEW U, U = [uses EXCEPT ![b][j] = "reserved"]
  PROVE  U[gates[a].batch][attempts[a].job] = uses[gates[a].batch][attempts[a].job]
<1>1. Reserved(gates[a].batch, attempts[a].job) /\ gates[a].batch \in Batches
  BY DEF SubmissionInvariant, AttemptKnows
<1>2. uses \in [Batches -> [Jobs -> UseStatus]]
  BY DEF SubmissionInvariant, SystemTypeOK, LedgerTypeOK
<1> QED BY <1>1, <1>2

\* A drawn attempt stays with its job.
LEMMA DrawnJobStays ==
  ASSUME SubmissionInvariant, [Next]_system, NEW a \in Attempts, host[a] # "none"
  PROVE  attempts'[a].job = attempts[a].job
<1>1. attempts[a].status # "free"
  BY DEF SubmissionInvariant, AttemptKnows
<1>2. RowsKept
  BY LedgerAssumption, WorkersAssumption, HostAssumption, StepShape DEF Quiet
<1> QED BY <1>1, <1>2 DEF RowsKept

\* Workers write to their own gates, which are not attended.
LEMMA WorkersStayAway ==
  ASSUME SubmissionInvariant, NEW w \in Workers, WorkerStep(w), UNCHANGED host,
         NEW a \in Attempts, host[a] # "none", Gated(a)
  PROVE  PairStays(a)
<1> DEFINE c == worker[w].att
           b == BatchOf[w]
<1>0. /\ uses \in [Batches -> [Jobs -> UseStatus]] /\ gates \in [Attempts -> GateRow]
      /\ worker[w].pc \in Holding => /\ c \in Attempts /\ c # a /\ worker[w].job \in Jobs
                                     /\ attempts[c].job = worker[w].job
      /\ worker[w].pc \in WithGate => Gated(c) /\ gates[c].batch = b
      /\ b \in Batches
  BY WorkersAssumption DEF SubmissionInvariant, SystemTypeOK, LedgerTypeOK, WorkerKnows,
     HoldsAttempt, GateIn, WorkersAssumption
<1>1. attempts'[a].job = attempts[a].job
  <2>1. [Next]_system
    BY DEF Next
  <2> QED BY <2>1, DrawnJobStays
<1>2. CASE Reserve(w)
  <2>1. /\ c # a /\ ~Reserved(b, worker[w].job) /\ worker[w].job \in Jobs
        /\ uses' = [uses EXCEPT ![b][worker[w].job] = "reserved"]
        /\ gates' = [gates EXCEPT ![c] = [state |-> "claimed", batch |-> b, at |-> now]]
    BY <1>0, <1>2 DEF Reserve, ClaimGate, Refusal, Holding, Pc
  <2> QED BY <1>0, <1>1, <2>1, ClaimApart DEF PairStays
<1>3. CASE WriteUse(w)
  <2>1. /\ c \in Attempts /\ c # a /\ Gated(c) /\ gates[c].batch = b
        /\ attempts[c].job = worker[w].job
    BY <1>0, <1>3 DEF WriteUse, At, WithGate, Holding, Pc
  <2>2. gates' = gates /\ uses' = [uses EXCEPT ![gates[c].batch][attempts[c].job] = worker[w].result]
    BY <1>3, <2>1 DEF WriteUse, UpdateUse
  <2> QED BY <1>1, <2>1, <2>2, UsesApart DEF PairStays
<1>4. CASE WriteGate(w)
  <2>1. c \in Attempts /\ c # a
    BY <1>0, <1>4 DEF WriteGate, At, Holding, Pc
  <2> QED BY <1>0, <1>1, <1>4, <2>1 DEF WriteGate, UpdateGate, PairStays
<1>5. UNCHANGED <<gates, uses>> \/ Reserve(w) \/ WriteUse(w) \/ WriteGate(w)
  BY DEF WorkerStep, BeginAcquire, RecoverStale, SelectNothing, BlockPortal, BlockCandidate,
     SkipCandidate, Select, Claim, StartAttempt, AwaitApplicant, RenewAttempt, EndPrepare,
     EndPreview, MarkResult, Restore, RestorePreview, EnterReservation, ReservationLeaseLost,
     Denied, StartSubmit, SubmitLeaseLost, EndSubmit, Observe, Confirm, AdmitEmail, Decide,
     LedgerWriteFails, Record, ThreadDies, Release, ReleaseLock, LauncherError, Crash, ledger
<1> QED BY <1>1, <1>2, <1>3, <1>4, <1>5 DEF PairStays

\* The two rows of c have been made uncertain, as the first half of a receipt does.
MadeUncertain(c, G, U) ==
  /\ Gated(c)
  /\ G = [gates EXCEPT ![c].state = "submission_uncertain"]
  /\ U = [uses EXCEPT ![gates[c].batch][attempts[c].job] = "submission_uncertain"]

\* A receipt sets the two rows of its gate together, or touches no gate.
LEMMA ReceiptSetsBoth ==
  ASSUME SubmissionInvariant, NEW a \in Attempts, Gated(a), attempts'[a].job = attempts[a].job,
         NEW r \in Receipts, NEW j \in Jobs, NEW c \in Attempts \cup {None},
         NEW J, NEW G, NEW U, ReconcileOn(J, G, U, r, j, c),
         \/ G = gates /\ U = uses
         \/ c \in Attempts /\ MadeUncertain(c, G, U)
  PROVE  /\ c = a => Closable(gates, uses, a, attempts[a].job)'
         /\ c # a => PairStays(a)
<1>0. /\ uses \in [Batches -> [Jobs -> UseStatus]] /\ gates \in [Attempts -> GateRow]
      /\ gates[a].batch \in Batches /\ attempts[a].job \in Jobs
  BY DEF SubmissionInvariant, SystemTypeOK, LedgerTypeOK, AttemptKnows, Gated
<1>1. CASE c = None
  <2>1. c # a
    BY <1>1, LedgerAssumption DEF LedgerAssumption
  <2>2. gates' = gates /\ uses' = uses
    BY <1>1, LedgerAssumption DEF ReconcileOn, LedgerAssumption
  <2> QED BY <2>1, <2>2 DEF PairStays
<1>2. CASE c # None
  <2>1. c \in Attempts /\ attempts[c].job = j /\ Gated(c) /\ gates[c].batch \in Batches
    BY <1>2 DEF ReconcileOn, Bindable, SubmissionInvariant, AttemptKnows
  <2>2. G \in [Attempts -> GateRow] /\ G[c].batch = gates[c].batch
        /\ U \in [Batches -> [Jobs -> UseStatus]]
    <3>1. CASE G = gates /\ U = uses
      BY <1>0, <3>1
    <3>2. CASE MadeUncertain(c, G, U)
      <4>1. gates[c] \in GateRow /\ "submission_uncertain" \in GateState \cap UseStatus
        BY <1>0, <2>1 DEF GateState, UseStatus, Outcome
      <4>2. G[c].batch = gates[c].batch /\ G[c] \in GateRow
        BY <1>0, <2>1, <3>2, <4>1 DEF MadeUncertain, GateRow
      <4>3. G \in [Attempts -> GateRow]
        BY <1>0, <2>1, <3>2, <4>2 DEF MadeUncertain
      <4>4. U \in [Batches -> [Jobs -> UseStatus]]
        BY <1>0, <2>1, <3>2, <4>1 DEF MadeUncertain
      <4> QED BY <4>2, <4>3, <4>4
    <3> QED BY <3>1, <3>2
  <2>3. /\ gates' = [G EXCEPT ![c].state = "applied"]
        /\ uses' = [U EXCEPT ![gates[c].batch][j] = "applied"]
    BY <1>2, <2>2 DEF ReconcileOn
  <2>4. CASE c = a
    <3>1. gates'[a].state = "applied" /\ gates'[a].batch = gates[a].batch
      BY <2>1, <2>2, <2>3, <2>4 DEF GateRow
    <3>2. uses'[gates[a].batch][j] = "applied"
      BY <1>0, <2>1, <2>2, <2>3, <2>4
    <3> QED BY <2>1, <2>4, <3>1, <3>2 DEF Closable
  <2>5. CASE c # a
    <3>1. G[a] = gates[a] /\ U[gates[a].batch][attempts[a].job] = uses[gates[a].batch][attempts[a].job]
      <4>1. CASE G = gates /\ U = uses
        BY <4>1
      <4>2. CASE MadeUncertain(c, G, U)
        <5>1. G[a] = gates[a]
          BY <1>0, <2>5, <4>2 DEF MadeUncertain
        <5>2. U = [uses EXCEPT ![gates[c].batch][attempts[c].job] = "submission_uncertain"]
          BY <4>2 DEF MadeUncertain
        <5>3. U[gates[a].batch][attempts[a].job] = uses[gates[a].batch][attempts[a].job]
          BY <2>1, <2>5, <5>2, UsesApart
        <5> QED BY <5>1, <5>3
      <4> QED BY <4>1, <4>2
    <3>2. gates[a].batch # gates[c].batch \/ attempts[a].job # j
      BY <2>1, <2>5 DEF SubmissionInvariant, GatesMatchUses
    <3>3. gates'[a] = G[a]
      BY <2>2, <2>3, <2>5
    <3>4. uses'[gates[a].batch][attempts[a].job] = U[gates[a].batch][attempts[a].job]
      BY <1>0, <2>1, <2>2, <2>3, <3>2
    <3> QED BY <2>5, <3>1, <3>3, <3>4 DEF PairStays
  <2> QED BY <2>4, <2>5
<1> QED BY <1>1, <1>2

\* The host writes both rows in one transaction, for its own attempt.
LEMMA HostWritesBoth ==
  ASSUME SubmissionInvariant, NEW c \in Attempts, HostStep(c), UNCHANGED worker,
         NEW a \in Attempts, Gated(a), attempts'[a].job = attempts[a].job
  PROVE  \/ PairStays(a) /\ host'[a] = host[a]
         \/ Closable(gates, uses, a, attempts[a].job)'
         \/ ~HostSettled(a)'
<1>0. /\ uses \in [Batches -> [Jobs -> UseStatus]] /\ gates \in [Attempts -> GateRow]
      /\ host \in [Attempts -> HostPhase]
      /\ gates[a].batch \in Batches /\ attempts[a].job \in Jobs
  BY DEF SubmissionInvariant, SystemTypeOK, LedgerTypeOK, HostTypeOK, AttemptKnows, Gated
<1>1. ASSUME UNCHANGED <<gates, uses>>,
             \/ host' = host
             \/ \E phase \in {"prepare", "prepared", "material_changed", "submit"} :
                  host' = [host EXCEPT ![c] = phase]
      PROVE  (PairStays(a) /\ host'[a] = host[a]) \/ ~HostSettled(a)'
  BY <1>0, <1>1 DEF PairStays, HostSettled
<1>2. CASE HostClaim(c)
  <2>1. /\ ~Gated(c) /\ c # a /\ attempts[c].job \in Jobs /\ HostBatch \in Batches
        /\ ~Reserved(HostBatch, attempts[c].job)
    BY <1>2, HostAssumption DEF HostClaim, Preparing, Current, Refusal, SubmissionInvariant,
       AttemptKnows, HostKnows, HostAssumption
  <2>2. uses'[gates[a].batch][attempts[a].job] = uses[gates[a].batch][attempts[a].job]
    BY <1>2, <2>1, ClaimApart DEF HostClaim
  <2> QED BY <1>0, <1>2, <2>1, <2>2 DEF HostClaim, PairStays
<1>3. CASE Fail(c) /\ ~Gated(c)
  <2>1. c # a /\ host'[a] = host[a] /\ UNCHANGED <<gates, uses>>
    BY <1>0, <1>3 DEF Fail
  <2> QED BY <2>1 DEF PairStays
<1>4. CASE Fail(c) /\ Gated(c)
  <2> DEFINE phase == IF Intended(c) THEN "submission_uncertain" ELSE "failed"
             state == IF Intended(c) THEN "submission_uncertain" ELSE "cancelled_before_action"
  <2>1. /\ gates' = [gates EXCEPT ![c].state = state]
        /\ uses' = [uses EXCEPT ![gates[c].batch][attempts[c].job] = phase]
        /\ host' = [host EXCEPT ![c] = phase]
    BY <1>4 DEF Fail
  <2>2. CASE c = a
    BY <1>0, <2>1, <2>2 DEF Closable, HostSettled, GateRow
  <2>3. CASE c # a
    <3>1. gates[a].batch # gates[c].batch \/ attempts[a].job # attempts[c].job
      BY <1>4, <2>3 DEF SubmissionInvariant, GatesMatchUses
    <3>2. gates[c].batch \in Batches
      BY <1>4 DEF SubmissionInvariant, AttemptKnows
    <3> QED BY <1>0, <2>1, <2>3, <3>1, <3>2 DEF PairStays
  <2> QED BY <2>2, <2>3
<1>5. ASSUME NEW r \in Receipts, Receipt(c, r)
      PROVE  (PairStays(a) /\ host'[a] = host[a]) \/ Closable(gates, uses, a, attempts[a].job)'
             \/ ~HostSettled(a)'
  <2> DEFINE j == attempts[c].job
             J == [jobs EXCEPT ![j].status = "submission_uncertain"]
             G == [gates EXCEPT ![c].state = "submission_uncertain"]
             U == [uses EXCEPT ![gates[c].batch][j] = "submission_uncertain"]
  <2>1. ReconcileOn(jobs, gates, uses, r, j, c) \/ ReconcileOn(J, G, U, r, j, c)
    BY <1>5 DEF Receipt
  <2>2. j \in Jobs /\ Gated(c) /\ c # None
    BY <1>5, LedgerAssumption DEF Receipt, Intended, SubmissionInvariant, AttemptKnows, HostKnows,
       LedgerAssumption
  <2>3. /\ c = a => Closable(gates, uses, a, attempts[a].job)'
        /\ c # a => PairStays(a)
    <3>1. CASE ReconcileOn(jobs, gates, uses, r, j, c)
      BY <2>2, <3>1, ReceiptSetsBoth
    <3>2. CASE ReconcileOn(J, G, U, r, j, c)
      <4>1. MadeUncertain(c, G, U)
        BY <2>2 DEF MadeUncertain
      <4> HIDE DEF J, G, U
      <4> QED BY <2>2, <3>2, <4>1, ReceiptSetsBoth
    <3> QED BY <2>1, <3>1, <3>2
  <2>4. host' = [host EXCEPT ![c] = "applied"]
    BY <1>5 DEF Receipt
  <2> QED BY <1>0, <2>3, <2>4
<1>6. ASSUME \/ (\E j \in Jobs : Begin(c, j)) \/ Resume(c) \/ MaterialChanged(c) \/ Checkpoint(c)
             \/ ReplayClaim(c) \/ SubmitIntent(c)
      PROVE  (PairStays(a) /\ host'[a] = host[a]) \/ ~HostSettled(a)'
  <2>1. UNCHANGED <<gates, uses>>
    BY <1>6 DEF Begin, StartAttempt, Resume, RenewAttempt, MaterialChanged, Checkpoint,
       ReplayClaim, SubmitIntent, ledger
  <2>2. \/ host' = host
        \/ \E phase \in {"prepare", "prepared", "material_changed", "submit"} :
             host' = [host EXCEPT ![c] = phase]
    BY <1>6 DEF Begin, Resume, MaterialChanged, Checkpoint, ReplayClaim, SubmitIntent
  <2> QED BY <1>1, <2>1, <2>2
<1> QED BY <1>2, <1>3, <1>4, <1>5, <1>6 DEF HostStep

\* So no step parts the two rows of an attempt that its host has settled.
LEMMA ClosableStep ==
  ASSUME SubmissionInvariant, AttendedIsClosable, [Next]_system
  PROVE  AttendedIsClosable'
<1> SUFFICES ASSUME NEW a \in Attempts, HostSettled(a)'
             PROVE  Closable(gates, uses, a, attempts[a].job)'
  BY DEF AttendedIsClosable
<1>1. ASSUME PairStays(a), HostSettled(a)
      PROVE  Closable(gates, uses, a, attempts[a].job)'
  BY <1>1 DEF AttendedIsClosable, PairStays, Closable
<1>2. HostSettled(a) => Gated(a) /\ host[a] # "none"
  BY DEF HostSettled, Intended, SubmissionInvariant, HostKnows
<1>3. ASSUME NEW w \in Workers, WorkerStep(w), UNCHANGED host
      PROVE  Closable(gates, uses, a, attempts[a].job)'
  <2>1. HostSettled(a)
    BY <1>3 DEF HostSettled
  <2> QED BY <1>1, <1>2, <1>3, <2>1, WorkersStayAway
<1>4. ASSUME NEW c \in Attempts, HostStep(c), UNCHANGED worker
      PROVE  Closable(gates, uses, a, attempts[a].job)'
  <2>1. host[a] # "none" /\ Gated(a)
    <3>1. CASE HostSettled(a)
      BY <1>2, <3>1
    <3>2. CASE ~HostSettled(a)
      <4>1. c = a /\ (Fail(a) \/ \E r \in Receipts : Receipt(a, r))
        BY <1>4, <3>2 DEF SubmissionInvariant, SystemTypeOK, HostTypeOK, HostStep, HostSettled,
           Begin, Resume, MaterialChanged, Checkpoint, HostClaim, ReplayClaim, SubmitIntent, Fail,
           Receipt
      <4>2. Intended(a)
        BY <3>2, <4>1 DEF SubmissionInvariant, SystemTypeOK, HostTypeOK, HostSettled, Fail, Receipt
      <4> QED BY <4>2 DEF Intended, SubmissionInvariant, HostKnows
    <3> QED BY <3>1, <3>2
  <2>2. attempts'[a].job = attempts[a].job
    <3>1. [Next]_system
      OBVIOUS
    <3> QED BY <2>1, <3>1, DrawnJobStays
  <2>3. \/ PairStays(a) /\ host'[a] = host[a]
        \/ Closable(gates, uses, a, attempts[a].job)'
    BY <1>4, <2>1, <2>2, HostWritesBoth
  <2>4. host'[a] = host[a] => HostSettled(a)
    BY DEF HostSettled
  <2> QED BY <1>1, <2>3, <2>4
<1>5. CASE Operator /\ UNCHANGED <<worker, host>>
  <2>1. HostSettled(a) /\ Gated(a) /\ host[a] # "none"
    BY <1>2, <1>5 DEF HostSettled
  <2>2. attempts'[a].job = attempts[a].job
    BY <2>1, DrawnJobStays
  <2>3. ASSUME NEW r \in Receipts, NEW j \in Jobs, NEW c \in Attempts \cup {None}, Reconcile(r, j, c)
        PROVE  Closable(gates, uses, a, attempts[a].job)'
    <3>1. /\ c = a => Closable(gates, uses, a, attempts[a].job)'
          /\ c # a => PairStays(a)
      BY <2>1, <2>2, <2>3, ReceiptSetsBoth DEF Reconcile
    <3> QED BY <1>1, <2>1, <3>1
  <2>4. CASE UNCHANGED <<gates, uses>>
    BY <1>1, <2>1, <2>2, <2>4 DEF PairStays
  <2> QED BY <1>5, <2>3, <2>4 DEF Operator, Mark, MarkJob, Reset, ResetFailed, ReconcileReceipt
<1>6. CASE UNCHANGED <<gates, uses, attempts, host>>
  BY <1>1, <1>6 DEF PairStays, HostSettled
<1> QED BY <1>3, <1>4, <1>5, <1>6 DEF Next, TurnTick, Tick, system

\* What MCclosable finds of a worker's submission cannot befall an attended one: from the
\* moment the host records it as uncertain a receipt that names its gate finds gate and
\* consumption in agreement, because the host writes both in one transaction and nobody else
\* has them.
THEOREM AttendedStaysClosable == Spec => []AttendedIsClosable
<1>1. Spec => AttendedIsClosable
  BY DEF Spec, Init, HostInit, AttendedIsClosable, HostSettled
<1>2. SubmissionInvariant /\ AttendedIsClosable /\ [Next]_system => AttendedIsClosable'
  BY ClosableStep
<1> QED BY <1>1, <1>2, InvariantHolds, PTL DEF Spec

=============================================================================
