----------------------------- MODULE PatchBatches -----------------------------
(***************************************************************************)
(* Semantic patch batches: the worker itself fills the routine controls of *)
(* a page under a journal that holds no values, only which fields were     *)
(* dispatched on which page and how many controls were written.  Unless    *)
(* the journal can prove that nothing was written, the agent is not given  *)
(* the same fields to fill.  Actions are the steps of                      *)
(* apply/semantic_batch_runtime.run_production_semantic_batch in mode      *)
(* canary, over storage/semantic_patch_batches.py and                      *)
(* apply/semantic_batch_adapter.py, for one attempt.  The modes off and    *)
(* shadow write nothing to the page and are left out, as are the early     *)
(* returns before the runtime is entered, which change no state.           *)
(***************************************************************************)
EXTENDS RuntimeBase, FiniteSets

CONSTANTS
  FieldSets,      \* the sets of routine fields that a page may ask for
  Batches,        \* batch ids, numbered in the order in which their rows are inserted
  MaxTabLease     \* bound: leases of the page that are ever acquired

ASSUME BatchAssumption ==
  /\ \A F \in FieldSets : IsFiniteSet(F)
  /\ Batches \subseteq Nat \ {0} /\ MaxTabLease \in Nat
  /\ None \notin Batches

VARIABLES
  batch,     \* batch[b]: its row, and how many controls it really wrote
  tab,       \* the page lease: its holder, its number and its page epoch
  filler,    \* filler[p]: where a call stands, its request and its adapter
  granted    \* the field sets that the runtime has left to the agent

batchVars == <<batch, tab, filler, granted>>

BatchStates == {"free", "started", "verified", "failed_no_effect",
                "parked_side_effect_unknown", "parked_stale_after_effect"}

Out == [pc |-> "out", batch |-> None, lease |-> 0, epoch |-> 0, fields |-> {},
        left |-> 0, effects |-> 0]

BatchTypeOK ==
  /\ batch \in [Batches -> [state : BatchStates, fields : FieldSets \cup {{}}, lease : Nat,
                            epoch : Nat, dispatched : BOOLEAN, effects : Nat,
                            result : Nat, touched : Nat]]
  /\ tab \in [holder : Processes \cup {None}, lease : 0..MaxTabLease, epoch : Nat]
  /\ filler \in [Processes ->
       [pc : {"out", "entered", "fresh", "begun", "filling", "touching", "noting",
              "failed", "filled", "torn", "clearing", "parking"},
        batch : Batches \cup {None}, lease : Nat, epoch : Nat, fields : FieldSets \cup {{}},
        left : Nat, effects : Nat]]
  /\ granted \subseteq FieldSets

BatchInit ==
  /\ batch = [b \in Batches |->
       [state |-> "free", fields |-> {}, lease |-> 0, epoch |-> 0, dispatched |-> FALSE,
        effects |-> 0, result |-> 0, touched |-> 0]]
  /\ tab = [holder |-> None, lease |-> 0, epoch |-> 0]
  /\ filler = [p \in Processes |-> Out]
  /\ granted = {}

Mode(p) == filler[p].pc
Batch(p) == filler[p].batch

Moves(p, pc) == filler' = [filler EXCEPT ![p].pc = pc]
Leave(p) == filler' = [filler EXCEPT ![p] = Out]

\* The page is still the one that the request was bound to.
Bound(p) == tab.holder = p /\ tab.lease = filler[p].lease /\ tab.epoch = filler[p].epoch

-----------------------------------------------------------------------------
(* The page lease *)

AcquireTab(p) ==
  /\ Mode(p) = "out"
  /\ tab.lease < MaxTabLease
  /\ tab' = [holder |-> p, lease |-> tab.lease + 1, epoch |-> 0]
  /\ UNCHANGED <<batch, filler, granted>>

-----------------------------------------------------------------------------
(* Looking for an earlier batch with the same fields *)

Enter(p, F) ==
  /\ Mode(p) = "out"
  /\ tab.holder = p
  /\ filler' = [filler EXCEPT ![p] = [Out EXCEPT !.pc = "entered", !.fields = F,
       !.left = Cardinality(F), !.lease = tab.lease, !.epoch = tab.epoch]]
  /\ UNCHANGED <<batch, tab, granted>>

Priors(F) == {b \in Batches : batch[b].state # "free" /\ batch[b].fields = F}

IsPrior(p, b) ==
  b \in Priors(filler[p].fields) /\ \A c \in Priors(filler[p].fields) : c <= b

\* _same_replay_authority, but for what page and material look like.
SameAuthority(p, b) ==
  /\ batch[b].lease = filler[p].lease
  /\ filler[p].epoch = IF batch[b].state = "verified" THEN batch[b].result ELSE batch[b].epoch

\* An earlier batch of another authority, one that is settled, or one whose page looks
\* different now: nothing is written.
FindsOther(p) ==
  /\ Mode(p) = "entered"
  /\ Priors(filler[p].fields) # {}
  /\ Leave(p)
  /\ UNCHANGED <<batch, tab, granted>>

FindsNoEffect(p) ==
  /\ Mode(p) = "entered"
  /\ \E b \in Batches : /\ IsPrior(p, b) /\ SameAuthority(p, b)
                        /\ batch[b].state = "failed_no_effect"
  /\ granted' = granted \cup {filler[p].fields}
  /\ Leave(p)
  /\ UNCHANGED <<batch, tab>>

\* Mutant of FindsStarted: an interrupted batch is tried again.
FindsStartedAgain(p) ==
  /\ Mode(p) = "entered"
  /\ \E b \in Batches :
       /\ IsPrior(p, b) /\ SameAuthority(p, b)
       /\ batch[b].state = "started"
       /\ filler' = [filler EXCEPT ![p] = [@ EXCEPT !.pc = "clearing", !.batch = b]]
  /\ UNCHANGED <<batch, tab, granted>>

\* An interrupted batch: one that was not dispatched is dispatched so that nobody else
\* can, and given up; one that was is parked.
FindsStarted(p) ==
  /\ Mode(p) = "entered"
  /\ \E b \in Batches :
       /\ IsPrior(p, b) /\ SameAuthority(p, b)
       /\ batch[b].state = "started"
       /\ batch' = [batch EXCEPT ![b].dispatched = TRUE]
       /\ filler' = [filler EXCEPT ![p] = [@ EXCEPT
            !.pc = IF batch[b].dispatched THEN "parking" ELSE "clearing",
            !.batch = b, !.effects = batch[b].effects]]
  /\ UNCHANGED <<tab, granted>>

FindsNone(p) ==
  /\ Mode(p) = "entered"
  /\ Priors(filler[p].fields) = {}
  /\ Moves(p, "fresh")
  /\ UNCHANGED <<batch, tab, granted>>

-----------------------------------------------------------------------------
(* Filling *)

BeginBatch(p) ==
  /\ Mode(p) = "fresh"
  /\ \E b \in Batches :
       /\ \A c \in Batches : (batch[c].state = "free") <=> (b <= c)
       /\ batch' = [batch EXCEPT ![b] = [@ EXCEPT !.state = "started",
            !.fields = filler[p].fields, !.lease = filler[p].lease, !.epoch = filler[p].epoch]]
       /\ filler' = [filler EXCEPT ![p] = [@ EXCEPT !.pc = "begun", !.batch = b]]
  /\ UNCHANGED <<tab, granted>>

Dispatch(p) ==
  /\ Mode(p) = "begun"
  /\ batch[Batch(p)].state = "started" /\ ~batch[Batch(p)].dispatched
  /\ batch' = [batch EXCEPT ![Batch(p)].dispatched = TRUE]
  /\ Moves(p, "filling")
  /\ UNCHANGED <<tab, granted>>

\* Before every control the page, the authority and the control are validated; a
\* control that has its value already is left alone.
ValidateControl(p) ==
  /\ Mode(p) = "filling" /\ filler[p].left > 0
  /\ \/ Moves(p, "failed")
     \/ Bound(p) /\ filler' = [filler EXCEPT ![p].left = @ - 1]
     \/ Bound(p) /\ Moves(p, "touching")
  /\ UNCHANGED <<batch, tab, granted>>

Perform(p) ==
  /\ Mode(p) = "touching"
  /\ batch' = [batch EXCEPT ![Batch(p)].touched = @ + 1]
  /\ filler' = [filler EXCEPT ![p].pc = "noting", ![p].effects = @ + 1]
  /\ UNCHANGED <<tab, granted>>

\* The driver raises, before or after it has written.
PerformFails(p) ==
  /\ Mode(p) = "touching"
  /\ \E wrote \in {0, 1} : batch' = [batch EXCEPT ![Batch(p)].touched = @ + wrote]
  /\ Moves(p, "failed")
  /\ UNCHANGED <<tab, granted>>

\* note_effect is a compare-and-set on the count; then control and page are looked at.
NoteEffect(p) ==
  LET row == batch[Batch(p)]
      counted == row.state = "started" /\ row.dispatched /\ row.effects = filler[p].effects - 1
  IN
  /\ Mode(p) = "noting"
  /\ batch' = [batch EXCEPT ![Batch(p)].effects = IF counted THEN @ + 1 ELSE @]
  /\ \/ Moves(p, "failed")
     \/ /\ counted /\ Bound(p)
        /\ filler' = [filler EXCEPT ![p].pc = "filling", ![p].left = @ - 1]
  /\ UNCHANGED <<tab, granted>>

\* Only a page that was written to is advanced.
AdvanceTab(p) ==
  /\ Mode(p) = "filling" /\ filler[p].left = 0
  /\ IF filler[p].effects = 0 THEN Moves(p, "filled") /\ UNCHANGED tab
     ELSE IF Bound(p) THEN Moves(p, "filled") /\ tab' = [tab EXCEPT !.epoch = @ + 1]
     ELSE Moves(p, "failed") /\ UNCHANGED tab
  /\ UNCHANGED <<batch, granted>>

-----------------------------------------------------------------------------
(* The end of a batch *)

\* finish_batch: a compare-and-set on the state and on the count.
Finishes(p, state, effects, result) ==
  LET row == batch[Batch(p)] IN
  /\ row.state = "started" /\ row.dispatched /\ row.effects = effects
  /\ batch' = [batch EXCEPT ![Batch(p)] = [@ EXCEPT !.state = state, !.result = result]]
  /\ Leave(p)
  /\ UNCHANGED tab

\* The connection to the browser could not be closed: nothing is sure any more.
ReleaseFails(p) ==
  /\ Mode(p) = "filled"
  /\ Moves(p, "torn")
  /\ UNCHANGED <<batch, tab, granted>>

FinishVerified(p) ==
  /\ Mode(p) = "filled"
  /\ Finishes(p, "verified", filler[p].effects,
              filler[p].epoch + IF filler[p].effects > 0 THEN 1 ELSE 0)
  /\ UNCHANGED granted

\* Mutant of FinishPristine: the count of the adapter is believed.
FinishUncounted(p) ==
  /\ Mode(p) = "failed"
  /\ filler[p].effects = 0 /\ Bound(p)
  /\ Finishes(p, "failed_no_effect", 0, 0)
  /\ granted' = granted \cup {filler[p].fields}

\* Nothing was counted, and every control that was looked at is as it was.
FinishPristine(p) ==
  /\ Mode(p) = "failed"
  /\ filler[p].effects = 0 /\ batch[Batch(p)].touched = 0 /\ Bound(p)
  /\ Finishes(p, "failed_no_effect", 0, 0)
  /\ granted' = granted \cup {filler[p].fields}

FinishParked(p) ==
  /\ Mode(p) \in {"failed", "torn"}
  /\ Finishes(p, IF filler[p].effects > 0 THEN "parked_stale_after_effect"
                                          ELSE "parked_side_effect_unknown",
              filler[p].effects, 0)
  /\ UNCHANGED granted

FinishCleared(p) ==
  /\ Mode(p) = "clearing"
  /\ Finishes(p, "failed_no_effect", 0, 0)
  /\ granted' = granted \cup {filler[p].fields}

FinishInterrupted(p) ==
  /\ Mode(p) = "parking"
  /\ Finishes(p, "parked_side_effect_unknown", filler[p].effects, 0)
  /\ UNCHANGED granted

\* An error of the database, or a compare-and-set that is lost, ends the call and leaves
\* the row; a crash loses the page lease too.
CallBreaks(p) ==
  /\ Mode(p) # "out"
  /\ Leave(p)
  /\ tab' \in {tab, [tab EXCEPT !.holder = IF @ = p THEN None ELSE @]}
  /\ UNCHANGED <<batch, granted>>

FillerStep(p) ==
  \/ AcquireTab(p)
  \/ \E F \in FieldSets : Enter(p, F)
  \/ FindsOther(p) \/ FindsNoEffect(p) \/ FindsStarted(p) \/ FindsNone(p)
  \/ BeginBatch(p) \/ Dispatch(p) \/ ValidateControl(p)
  \/ Perform(p) \/ PerformFails(p) \/ NoteEffect(p) \/ AdvanceTab(p)
  \/ ReleaseFails(p) \/ FinishVerified(p) \/ FinishPristine(p) \/ FinishParked(p)
  \/ FinishCleared(p) \/ FinishInterrupted(p)
  \/ CallBreaks(p)

BatchNext == (\E p \in Processes : FillerStep(p)) /\ UNCHANGED now

BatchSpec == now = 0 /\ BatchInit /\ [][BatchNext]_<<now, batchVars>>

-----------------------------------------------------------------------------
(* Properties *)

\* What is told of a batch is true although a call may break between any two steps, be
\* repeated, or go on slowly while the page lease passes to another process.  The agent is
\* given a set of fields only if no batch ever wrote to a page for that set, nor does one
\* later.  A verified batch has journalled exactly the controls it wrote, and a page that it
\* wrote to has moved on: no binding from before the batch is valid any more.
BatchIsExact ==
  \A b \in Batches :
    /\ batch[b].fields \in granted => batch[b].touched = 0
    /\ batch[b].state = "verified" =>
         /\ batch[b].effects = batch[b].touched
         /\ \/ batch[b].touched = 0
            \/ tab.lease > batch[b].lease
            \/ tab.lease = batch[b].lease /\ tab.epoch > batch[b].epoch

=============================================================================
