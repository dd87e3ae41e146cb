----------------------------- MODULE WriteProofs -----------------------------
(***************************************************************************)
(* The writes that the runtime does to a page itself, for any number of    *)
(* processes, leases and pages: the upload of an attempt is done at most   *)
(* once and the journal tells the truth about it, and what is told of a    *)
(* batch of controls is true.                                              *)
(***************************************************************************)
EXTENDS SemanticWrites, PatchBatches, FiniteSetTheorems, TLAPS

USE BaseAssumption, BatchAssumption

JournalRow == [state : States, count : 0..2, called : BOOLEAN]
PageRow == [holder : Processes \cup {None}, lease : 0..MaxLease, epoch : Nat]
WriterPcs == {"idle", "open", "looked", "begun", "claimed", "validated", "writing",
              "written", "marked", "advanced"}
WriterRow == [pc : WriterPcs, op : Operations \cup {None}, count : 0..1]

Busy(w) == writer[w].pc # "idle"
Armed(w) == writer[w].pc \in {"validated", "writing"}

\* The page has come to the state an operation was issued for, or has left it behind.
Reached(o) == page.lease > o.lease \/ (page.lease = o.lease /\ page.epoch >= o.epoch)
Passed(o) == page.lease > o.lease \/ (page.lease = o.lease /\ page.epoch > o.epoch)

\* Whoever is busy works for a lease that it holds or held, and on which nobody else works.
OpsKnown ==
  \A w \in Processes : Busy(w) =>
    /\ Op(w) \in Operations /\ Reached(Op(w))
    /\ Op(w).lease = page.lease => page.holder = w
    /\ writer[w].pc = "advanced" => Passed(Op(w))

OpsApart ==
  \A v, w \in Processes : v # w /\ Busy(v) /\ Busy(w) => Op(v).lease # Op(w).lease

RowsTrue ==
  \A o \in Operations :
    /\ journal[o].called => journal[o].count > 0 /\ journal[o].state # "failed_no_effect"
    /\ journal[o].count > 0 => journal[o].state # "none"
    /\ journal[o].state = "verified" => Passed(o)

\* The claim comes before the write, and what was called is not claimed again.
ClaimsKnown ==
  \A w \in Processes :
    /\ writer[w].pc \in {"claimed", "validated", "writing"} =>
         journal[Op(w)].count > 0 /\ journal[Op(w)].state # "failed_no_effect"
    /\ writer[w].pc \in {"begun", "claimed", "validated", "writing"} => ~journal[Op(w)].called

\* Who may call the driver is alone and the first to do so; who may still come to that point,
\* because it holds the page it looked at, knows of nobody else.
Alone ==
  \A w \in Processes :
    /\ Armed(w) => uploads = 0 /\ \A v \in Processes : Armed(v) => v = w
    /\ writer[w].pc \in {"looked", "begun", "claimed"} /\ Holds(w, Op(w)) =>
         /\ \A v \in Processes : ~Armed(v)
         /\ uploads = 0 \/ journal[Op(w)].called

Counted == uploads \in 0..1 /\ (uploads > 0 => \E o \in Operations : journal[o].called)

\* The page has no holder before its first lease.
PageHeld == page.holder # None => page.lease > 0

WriteInvariant ==
  WriteTypeOK /\ PageHeld /\ OpsKnown /\ OpsApart /\ RowsTrue /\ ClaimsKnown /\ Alone /\ Counted

-----------------------------------------------------------------------------
(* Helpers: what a step may do to the writers and to the journal *)

\* Only w moves, to a place and with an operation of its own.
Steps(w, pc, op) ==
  /\ writer' \in [Processes -> WriterRow]
  /\ writer'[w].pc = pc /\ writer'[w].op = op
  /\ \A v \in Processes \ {w} : writer'[v] = writer[v]

\* The row of o goes from one state to another, or nothing happens; nothing else changes.
MovesRow(o, from, to) ==
  /\ journal' \in [Operations -> JournalRow]
  /\ \A k \in Operations :
       /\ journal'[k].count = journal[k].count /\ journal'[k].called = journal[k].called
       /\ \/ journal'[k].state = journal[k].state
          \/ k = o /\ journal[k].state = from /\ journal'[k].state = to

\* The types in the form the provers need.
LEMMA WriteTypes ==
  ASSUME WriteTypeOK
  PROVE  /\ journal \in [Operations -> JournalRow] /\ page \in PageRow
         /\ writer \in [Processes -> WriterRow]
  BY DEF WriteTypeOK, JournalRow, PageRow, WriterRow, WriterPcs

\* Goes and Returns as moves.
LEMMA WriterMoves ==
  ASSUME writer \in [Processes -> WriterRow], NEW w \in Processes
  PROVE  /\ \A pc \in WriterPcs : Goes(w, pc) => Steps(w, pc, Op(w))
         /\ Returns(w) => Steps(w, "idle", None)
<1>1. writer[w] \in WriterRow
  OBVIOUS
<1>2. ASSUME NEW pc \in WriterPcs, Goes(w, pc) PROVE Steps(w, pc, Op(w))
  <2>1. [writer[w] EXCEPT !.pc = pc] \in WriterRow
    BY <1>1 DEF WriterRow
  <2>2. writer' = [writer EXCEPT ![w] = [writer[w] EXCEPT !.pc = pc]]
    BY <1>2 DEF Goes
  <2> QED BY <1>1, <2>1, <2>2 DEF Steps, Op, WriterRow
<1>3. ASSUME Returns(w) PROVE Steps(w, "idle", None)
  <2>1. [pc |-> "idle", op |-> None, count |-> 0] \in WriterRow
    BY DEF WriterRow, WriterPcs
  <2> QED BY <1>3, <2>1 DEF Returns, Steps
<1> QED BY <1>2, <1>3

\* A compare-and-set as a move of the row.
LEMMA RowMoves ==
  ASSUME journal \in [Operations -> JournalRow], NEW o \in Operations,
         NEW from \in States, NEW to \in States, journal' = Moved(o, from, to)
  PROVE  MovesRow(o, from, to)
<1>1. journal[o] \in JournalRow /\ [journal[o] EXCEPT !.state = to] \in JournalRow
  BY DEF JournalRow
<1>2. CASE journal[o].state = from
  BY <1>1, <1>2 DEF Moved, MovesRow, JournalRow
<1>3. CASE journal[o].state # from
  BY <1>3 DEF Moved, MovesRow
<1> QED BY <1>2, <1>3

\* The three parking moves.
LEMMA ParkMoves ==
  ASSUME journal \in [Operations -> JournalRow], NEW o \in Operations
  PROVE  /\ ParkUnknown(o) => MovesRow(o, "started", "parked_side_effect_unknown")
         /\ ParkStale(o) => MovesRow(o, "effect_observed", "parked_stale_after_effect")
         /\ NoEffect(o) => MovesRow(o, "started", "failed_no_effect")
  BY RowMoves DEF ParkUnknown, ParkStale, NoEffect, States, Parked

-----------------------------------------------------------------------------
(* Steps that neither claim nor call nor touch the page *)

\* Rows go on to states that are true of them; only who works on a row, and leaves it at that,
\* says that there was no effect.
RowsMove(w, pc) ==
  /\ journal' \in [Operations -> JournalRow]
  /\ \A k \in Operations :
       /\ journal'[k].count = journal[k].count /\ journal'[k].called = journal[k].called
       /\ \/ journal'[k].state = journal[k].state
          \/ /\ journal'[k].state # "none"
             /\ journal'[k].state = "verified" => Passed(k)
             /\ journal'[k].state = "failed_no_effect" =>
                  ~journal[k].called /\ k = Op(w) /\ Busy(w) /\ pc = "idle"

\* Where w may go next, and what it has to know for it.
MayMove(w, pc, op) ==
  \/ pc = "idle"
  \/ /\ Busy(w) /\ op \in Operations /\ op.lease = Op(w).lease /\ Reached(op)
     /\ pc \in {"written", "marked", "advanced"}
     /\ pc = "advanced" => Passed(op)
  \/ /\ Busy(w) /\ op = Op(w) /\ pc = "looked"
     /\ Holds(w, op) => (\A v \in Processes : ~Armed(v)) /\ (uploads = 0 \/ journal[op].called)
  \/ writer[w].pc = "looked" /\ op = Op(w) /\ pc = "begun" /\ ~journal[op].called
  \/ writer[w].pc = "claimed" /\ op = Op(w) /\ pc = "validated" /\ Holds(w, op)
  \/ writer[w].pc = "validated" /\ op = Op(w) /\ pc = "writing"

\* Such a step keeps the invariant.
LEMMA QuietWriteKeeps ==
  ASSUME WriteInvariant, NEW w \in Processes, NEW pc \in WriterPcs, NEW op,
         Steps(w, pc, op), RowsMove(w, pc), MayMove(w, pc, op), UNCHANGED <<page, uploads>>,
         legacy' \in BOOLEAN
  PROVE  WriteInvariant'
<1> USE DEF WriteInvariant
<1>0. writer \in [Processes -> WriterRow] /\ \A v \in Processes \ {w} : writer'[v] = writer[v]
  BY WriteTypes DEF Steps
<1>1. WriteTypeOK'
  BY DEF WriteTypeOK, Steps, RowsMove, WriterRow, WriterPcs, JournalRow
<1>p. PageHeld'
  BY DEF PageHeld
<1>2. OpsKnown'
  BY <1>0 DEF OpsKnown, Steps, MayMove, Busy, Op, Reached, Passed, Holds
<1>3. OpsApart'
  BY <1>0 DEF OpsApart, Steps, MayMove, Busy, Op
<1>4. RowsTrue'
  BY DEF RowsTrue, RowsMove, Passed
<1>5. \A v \in Processes : Busy(v) => Op(v) \in Operations
  BY DEF OpsKnown
<1>6. ClaimsKnown'
  <2>1. \A v \in Processes \ {w} : Busy(v) /\ Busy(w) => Op(v) # Op(w)
    BY DEF OpsApart
  <2> QED BY <1>0, <1>5, <2>1 DEF ClaimsKnown, Steps, MayMove, RowsMove, Op, Busy
<1>7. Alone'
  BY <1>0, <1>5 DEF Alone, ClaimsKnown, Steps, MayMove, RowsMove, Op, Busy, Armed, Holds
<1>8. Counted'
  BY DEF Counted, RowsMove
<1> QED BY <1>p, <1>1, <1>2, <1>3, <1>4, <1>6, <1>7, <1>8

-----------------------------------------------------------------------------
(* Every step *)

\* What a dispatch tells whoever looks at the journal: a writer that found nothing unresolved
\* is alone, and what was called can only be its own operation.
LEMMA LookedIsAlone ==
  ASSUME WriteInvariant, NEW w \in Processes, LookAndGo(w)
  PROVE  (\A v \in Processes : ~Armed(v)) /\ (uploads = 0 \/ journal[Op(w)].called)
<1> USE DEF WriteInvariant
<1>1. Op(w) \in Operations /\ Busy(w)
  BY DEF OpsKnown, LookAndGo, Busy
<1>2. ASSUME NEW o \in Operations, journal[o].count > 0 PROVE o = Op(w)
  <2>1. CASE o.scope # Op(w).scope
    BY <1>2, <2>1 DEF LookAndGo, Unresolved, Foreign, Dispatched
  <2>2. CASE o.scope = Op(w).scope
    BY <1>1, <1>2, <2>2 DEF LookAndGo, Unresolved, Prior, RowsTrue
  <2> QED BY <2>1, <2>2
<1>3. ASSUME NEW v \in Processes, Armed(v) PROVE FALSE
  <2>1. Op(v) \in Operations /\ journal[Op(v)].count > 0 /\ Busy(v) /\ v # w
    BY <1>3 DEF Armed, OpsKnown, ClaimsKnown, Busy, LookAndGo
  <2> QED BY <1>1, <1>2, <2>1 DEF OpsApart
<1>4. uploads = 0 \/ journal[Op(w)].called
  BY <1>2 DEF Counted, RowsTrue
<1> QED BY <1>3, <1>4

\* Parking, and saying that there was no effect, are true of a row that was not called.
LEMMA ParkingIsTrue ==
  ASSUME WriteInvariant, NEW w \in Processes, NEW pc, NEW o \in Operations
  PROVE  /\ ParkUnknown(o) => RowsMove(w, pc)
         /\ ParkStale(o) => RowsMove(w, pc)
         /\ NoEffect(o) /\ ~journal[o].called /\ o = Op(w) /\ Busy(w) => RowsMove(w, "idle")
         /\ UNCHANGED journal => RowsMove(w, pc)
  BY WriteTypes, ParkMoves DEF WriteInvariant, RowsMove, MovesRow

\* Steps that only look, decide and give up.
LEMMA LooksKeep ==
  ASSUME WriteInvariant, NEW w \in Processes,
         LookAndStop(w) \/ LookAndGo(w) \/ Begin(w) \/ Validate(w) \/ Observe(w) \/ Fallback(w)
  PROVE  WriteInvariant'
<1>0. /\ writer \in [Processes -> WriterRow] /\ journal \in [Operations -> JournalRow]
      /\ legacy \in BOOLEAN
  BY WriteTypes DEF WriteInvariant, WriteTypeOK
<1>w. writer[w] \in WriterRow /\ page \in PageRow
  BY WriteTypes DEF WriteInvariant
<1>k. Busy(w) => Op(w) \in Operations /\ Reached(Op(w))
  BY DEF WriteInvariant, OpsKnown
<1>r. Returns(w) => Steps(w, "idle", None)
  BY <1>0, WriterMoves
<1>q. ASSUME Returns(w), RowsMove(w, "idle"), UNCHANGED <<page, uploads>>, legacy' \in BOOLEAN
      PROVE  WriteInvariant'
  BY <1>q, <1>r, QuietWriteKeeps DEF MayMove, WriterPcs
<1>1. CASE LookAndStop(w)
  <2>1. Busy(w) /\ UNCHANGED <<page, uploads, legacy>>
    BY <1>1 DEF LookAndStop, Busy
  <2>2. ASSUME NEW k \in Operations, journal[k].state = "effect_observed", Completes(w, k)
        PROVE  WriteInvariant'
    <3>1. CASE k.lease # Op(w).lease \/ Op(w).epoch \notin {k.epoch, k.epoch + 1}
      BY <1>0, <1>q, <2>1, <2>2, <3>1, ParkingIsTrue DEF Completes
    <3>2. CASE k.lease = Op(w).lease /\ Op(w).epoch \in {k.epoch, k.epoch + 1}
      <4> DEFINE pc == IF Op(w).epoch = k.epoch THEN "marked" ELSE "advanced"
      <4>1. pc \in WriterPcs /\ writer' = [writer EXCEPT ![w].op = k, ![w].pc = pc] /\ UNCHANGED journal
        BY <2>2, <3>2 DEF Completes, WriterPcs
      <4>2. Steps(w, pc, k)
        BY <1>0, <4>1 DEF Steps, WriterRow
      <4>3. Reached(k) /\ (pc = "advanced" => Passed(k))
        BY <1>k, <1>w, <2>1, <3>2 DEF Reached, Passed, Operations, PageRow
      <4>4. MayMove(w, pc, k)
        BY <2>1, <3>2, <4>3 DEF MayMove
      <4> QED BY <1>0, <2>1, <4>1, <4>2, <4>4, ParkingIsTrue, QuietWriteKeeps
    <3> QED BY <3>1, <3>2
  <2>3. ASSUME NEW k \in Operations, ParkUnknown(k), Returns(w) PROVE WriteInvariant'
    BY <1>0, <1>q, <2>1, <2>3, ParkingIsTrue
  <2>4. ASSUME Returns(w), UNCHANGED journal PROVE WriteInvariant'
    BY <1>0, <1>q, <1>k, <2>1, <2>4, ParkingIsTrue
  <2> QED BY <1>1, <2>2, <2>3, <2>4 DEF LookAndStop, Prior, Unresolved, Foreign, Dispatched
<1>2. CASE LookAndGo(w)
  <2>1. Busy(w) /\ UNCHANGED <<journal, page, uploads, legacy>> /\ Steps(w, "looked", Op(w))
    BY <1>0, <1>2, WriterMoves DEF LookAndGo, Busy, WriterPcs
  <2>2. MayMove(w, "looked", Op(w))
    BY <1>2, <2>1, LookedIsAlone DEF MayMove
  <2> QED BY <1>0, <1>k, <2>1, <2>2, ParkingIsTrue, QuietWriteKeeps DEF WriterPcs
<1>3. CASE Begin(w)
  <2>1. Busy(w) /\ UNCHANGED <<page, uploads, legacy>> /\ Op(w) \in Operations /\ writer[w].pc = "looked"
    BY <1>3, <1>k DEF Begin, Busy
  <2>2. ASSUME journal[Op(w)].state \in {"none", "started"}, journal[Op(w)].count = 0,
               journal' = [journal EXCEPT ![Op(w)].state = "started"],
               writer' = [writer EXCEPT ![w] = [pc |-> "begun", op |-> Op(w), count |-> 0]]
        PROVE  WriteInvariant'
    <3>0. [pc |-> "begun", op |-> Op(w), count |-> 0] \in WriterRow
      BY <2>1 DEF WriterRow, WriterPcs
    <3>1. ~journal[Op(w)].called
      BY <2>1, <2>2 DEF WriteInvariant, RowsTrue
    <3>2. RowsMove(w, "begun")
      BY <1>0, <2>1, <2>2 DEF RowsMove, JournalRow, States, Parked
    <3>3. Steps(w, "begun", Op(w))
      BY <1>0, <2>2, <3>0 DEF Steps, WriterRow, Op
    <3> QED BY <1>0, <2>1, <3>1, <3>2, <3>3, QuietWriteKeeps DEF MayMove, WriterPcs
  <2>3. ASSUME journal[Op(w)].state = "failed_no_effect", UNCHANGED journal,
               writer' = [writer EXCEPT ![w] = [pc |-> "begun", op |-> Op(w), count |-> 1]]
        PROVE  WriteInvariant'
    <3>0. [pc |-> "begun", op |-> Op(w), count |-> 1] \in WriterRow
      BY <2>1 DEF WriterRow, WriterPcs
    <3>1. ~journal[Op(w)].called
      BY <2>1, <2>3 DEF WriteInvariant, RowsTrue
    <3>2. RowsMove(w, "begun")
      BY <2>1, <2>3, ParkingIsTrue
    <3>3. Steps(w, "begun", Op(w))
      BY <1>0, <2>3, <3>0 DEF Steps, WriterRow, Op
    <3> QED BY <1>0, <2>1, <3>1, <3>2, <3>3, QuietWriteKeeps DEF MayMove, WriterPcs
  <2>4. ASSUME ParkUnknown(Op(w)) \/ UNCHANGED journal, Returns(w) PROVE WriteInvariant'
    BY <1>0, <1>q, <2>1, <2>4, ParkingIsTrue
  <2> QED BY <1>3, <2>2, <2>3, <2>4 DEF Begin
<1>4. CASE Validate(w)
  <2>1. Busy(w) /\ UNCHANGED <<page, uploads, legacy>> /\ Op(w) \in Operations /\ ~journal[Op(w)].called
    BY <1>4, <1>k DEF Validate, Busy, WriteInvariant, ClaimsKnown
  <2>2. ASSUME Holds(w, Op(w)), Goes(w, "validated"), UNCHANGED journal PROVE WriteInvariant'
    <3>1. Steps(w, "validated", Op(w))
      BY <1>0, <2>2, WriterMoves DEF WriterPcs
    <3>2. MayMove(w, "validated", Op(w))
      BY <1>4, <2>2 DEF MayMove, Validate
    <3> QED BY <1>0, <2>1, <2>2, <3>1, <3>2, ParkingIsTrue, QuietWriteKeeps DEF WriterPcs
  <2>3. ASSUME NoEffect(Op(w)) \/ UNCHANGED journal, Returns(w) PROVE WriteInvariant'
    BY <1>0, <1>q, <2>1, <2>3, ParkingIsTrue
  <2> QED BY <1>4, <2>2, <2>3 DEF Validate
<1>5. CASE Observe(w)
  <2>1. /\ Busy(w) /\ UNCHANGED <<page, uploads, legacy>> /\ Op(w) \in Operations
        /\ Reached(Op(w)) /\ ~journal[Op(w)].called
    BY <1>5, <1>k DEF Observe, Busy, WriteInvariant, ClaimsKnown
  <2>2. ASSUME NEW pc \in {"written", "writing"}, Goes(w, pc), UNCHANGED journal PROVE WriteInvariant'
    <3>1. pc \in WriterPcs /\ Steps(w, pc, Op(w))
      BY <1>0, <2>2, WriterMoves DEF WriterPcs
    <3>2. MayMove(w, pc, Op(w))
      BY <1>5, <2>1, <2>2 DEF MayMove, Observe
    <3> QED BY <1>0, <2>1, <2>2, <3>1, <3>2, ParkingIsTrue, QuietWriteKeeps
  <2>3. ASSUME NoEffect(Op(w)) \/ UNCHANGED journal, Returns(w) PROVE WriteInvariant'
    BY <1>0, <1>q, <2>1, <2>3, ParkingIsTrue
  <2> QED BY <1>5, <2>2, <2>3 DEF Observe
<1>6. CASE Fallback(w)
  <2>1. Returns(w) /\ UNCHANGED <<page, uploads>> /\ legacy' \in BOOLEAN
    BY <1>0, <1>6 DEF Fallback
  <2>2. RowsMove(w, "idle")
    <3>1. CASE UNCHANGED journal
      BY <3>1, <1>0 DEF RowsMove
    <3>2. CASE \E k \in Dispatched : ParkUnknown(k)
      BY <3>2, ParkingIsTrue DEF Dispatched
    <3> QED BY <1>6, <3>1, <3>2 DEF Fallback
  <2> QED BY <1>q, <2>1, <2>2
<1> QED BY <1>1, <1>2, <1>3, <1>4, <1>5, <1>6

\* The journal tail: what was written is recorded, and verified once the page has moved on.
LEMMA TailKeeps ==
  ASSUME WriteInvariant, NEW w \in Processes, MarkEffect(w) \/ MarkVerified(w)
  PROVE  WriteInvariant'
<1>0. /\ writer \in [Processes -> WriterRow] /\ journal \in [Operations -> JournalRow]
      /\ legacy \in BOOLEAN
  BY WriteTypes DEF WriteInvariant, WriteTypeOK
<1>k. Busy(w) /\ Op(w) \in Operations /\ Reached(Op(w))
  BY DEF WriteInvariant, OpsKnown, Busy, MarkEffect, MarkVerified
<1>r. Returns(w) => Steps(w, "idle", None)
  BY <1>0, WriterMoves
<1>1. CASE MarkEffect(w)
  <2>1. CASE journal[Op(w)].state = "started"
    <3>1. RowsMove(w, "marked")
      BY <1>0, <1>1, <1>k, <2>1 DEF MarkEffect, RowsMove, JournalRow, States, Parked
    <3>2. Steps(w, "marked", Op(w))
      BY <1>0, <1>1, <2>1, WriterMoves DEF MarkEffect, WriterPcs
    <3> QED BY <1>0, <1>1, <1>k, <3>1, <3>2, QuietWriteKeeps DEF MarkEffect, MayMove, WriterPcs
  <2>2. CASE journal[Op(w)].state # "started"
    <3>1. RowsMove(w, "idle") /\ Steps(w, "idle", None)
      BY <1>1, <1>k, <1>r, <2>2, ParkingIsTrue DEF MarkEffect
    <3> QED BY <1>0, <1>1, <3>1, QuietWriteKeeps DEF MarkEffect, MayMove, WriterPcs
  <2> QED BY <2>1, <2>2
<1>2. CASE MarkVerified(w)
  <2>1. Passed(Op(w))
    BY <1>2 DEF MarkVerified, WriteInvariant, OpsKnown, Busy
  <2>2. MovesRow(Op(w), "effect_observed", "verified")
    BY <1>0, <1>2, <1>k, RowMoves DEF MarkVerified, States
  <2>3. RowsMove(w, "idle")
    BY <2>1, <2>2 DEF RowsMove, MovesRow
  <2>4. Steps(w, "idle", None) /\ UNCHANGED <<page, uploads, legacy>>
    BY <1>2, <1>r DEF MarkVerified
  <2> QED BY <1>0, <2>3, <2>4, QuietWriteKeeps DEF MayMove, WriterPcs
<1> QED BY <1>1, <1>2

\* The claim: a row that was not called is counted once more, by the one that works on it.
LEMMA ClaimKeeps ==
  ASSUME WriteInvariant, NEW w \in Processes, ClaimDispatch(w)
  PROVE  WriteInvariant'
<1> USE DEF WriteInvariant
<1>0. /\ writer \in [Processes -> WriterRow] /\ journal \in [Operations -> JournalRow]
      /\ legacy \in BOOLEAN
  BY WriteTypes DEF WriteTypeOK
<1>k. Busy(w) /\ Op(w) \in Operations /\ ~journal[Op(w)].called /\ writer[w].pc = "begun"
  BY DEF OpsKnown, Busy, ClaimDispatch, ClaimsKnown
<1>1. CASE ~(/\ journal[Op(w)].count = writer[w].count
             /\ journal[Op(w)].state = IF journal[Op(w)].count = 0 THEN "started" ELSE "failed_no_effect")
  <2>1. Steps(w, "idle", None) /\ UNCHANGED <<journal, page, uploads, legacy>>
    BY <1>0, <1>1, WriterMoves DEF ClaimDispatch
  <2> QED BY <1>0, <1>k, <2>1, ParkingIsTrue, QuietWriteKeeps DEF MayMove, WriterPcs
<1>2. CASE /\ journal[Op(w)].count = writer[w].count
           /\ journal[Op(w)].state = IF journal[Op(w)].count = 0 THEN "started" ELSE "failed_no_effect"
  <2>1. /\ journal' = [journal EXCEPT ![Op(w)].state = "started", ![Op(w)].count = @ + 1]
        /\ UNCHANGED <<page, uploads, legacy>>
    BY <1>2 DEF ClaimDispatch
  <2>2. Steps(w, "claimed", Op(w))
    BY <1>0, <1>2, WriterMoves DEF ClaimDispatch, WriterPcs
  <2>3. journal[Op(w)].count \in 0..1 /\ "started" \in States
    BY <1>0, <1>2 DEF WriterRow, States
  <2>4. /\ journal' \in [Operations -> JournalRow]
        /\ journal'[Op(w)].state = "started" /\ journal'[Op(w)].count > 0 /\ ~journal'[Op(w)].called
        /\ \A k \in Operations \ {Op(w)} : journal'[k] = journal[k]
    BY <1>0, <1>k, <2>1, <2>3 DEF JournalRow
  <2>5. WriteTypeOK'
    BY <2>1, <2>2, <2>4 DEF WriteTypeOK, Steps, WriterRow, WriterPcs, JournalRow
  <2>6. OpsKnown' /\ OpsApart'
    BY <1>k, <2>1, <2>2 DEF OpsKnown, OpsApart, Steps, Busy, Op, Reached, Passed
  <2>7. RowsTrue' /\ Counted'
    BY <1>k, <2>1, <2>4 DEF RowsTrue, Counted, Passed
  <2>8. \A v \in Processes \ {w} : Busy(v) => Op(v) \in Operations \ {Op(w)}
    BY <1>k DEF OpsKnown, OpsApart
  <2>9. ClaimsKnown' /\ Alone'
    <3>1. ClaimsKnown'
      BY SMTT(30), <1>0, <1>k, <2>2, <2>4, <2>8 DEF ClaimsKnown, Steps, Op, Busy
    <3>2. UNCHANGED <<page, uploads>>
      BY <2>1
    <3>3. /\ ~Armed(w)' /\ Op(w)' = Op(w) /\ writer[w].pc = "begun"
          /\ \A v \in Processes \ {w} : writer'[v] = writer[v]
      BY <1>0, <1>k, <2>2 DEF Steps, Op, Armed
    <3>4. ASSUME NEW v \in Processes PROVE Alone!(v)'
      BY <1>k, <2>4, <2>8, <3>2, <3>3 DEF Alone, Op, Armed, Holds, Busy
    <3>5. Alone'
      BY <3>4 DEF Alone
    <3> QED BY <3>1, <3>5
  <2>10. PageHeld'
    BY <2>1 DEF PageHeld
  <2> QED BY <2>5, <2>6, <2>7, <2>9, <2>10
<1> QED BY <1>1, <1>2

\* The call: nobody else can be about to call, and whoever holds the page has no writer that
\* looked before.
LEMMA CallKeeps ==
  ASSUME WriteInvariant, NEW w \in Processes, UploadFails(w) \/ Upload(w)
  PROVE  WriteInvariant'
<1> USE DEF WriteInvariant
<1>0. /\ writer \in [Processes -> WriterRow] /\ journal \in [Operations -> JournalRow]
      /\ legacy \in BOOLEAN
  BY WriteTypes DEF WriteTypeOK
<1>k. /\ Busy(w) /\ Armed(w) /\ Op(w) \in Operations /\ Reached(Op(w))
      /\ journal[Op(w)].count > 0 /\ ~journal[Op(w)].called
  BY DEF OpsKnown, Busy, Armed, Upload, UploadFails, ClaimsKnown
<1>1. uploads = 0 /\ uploads' = 1 /\ UNCHANGED <<page, legacy>>
  BY <1>k DEF Alone, Upload, UploadFails
<1>2. PICK pc \in {"idle", "written"}, op \in {None, Op(w)} :
        Steps(w, pc, op) /\ (pc = "written" => op = Op(w))
  BY <1>0, WriterMoves DEF Upload, UploadFails, WriterPcs
<1>3. /\ journal' \in [Operations -> JournalRow]
      /\ journal'[Op(w)].called /\ journal'[Op(w)].count = journal[Op(w)].count
      /\ journal'[Op(w)].state \in {journal[Op(w)].state, "parked_side_effect_unknown"}
      /\ \A k \in Operations \ {Op(w)} : journal'[k] = journal[k]
  <2>1. CASE Upload(w)
    BY ZenonT(60), <1>0, <1>k, <2>1 DEF Upload, JournalRow
  <2>2. CASE UploadFails(w)
    BY ZenonT(60), <1>0, <1>k, <2>2 DEF UploadFails, Moved, JournalRow, States, Parked
  <2> QED BY <2>1, <2>2
<1>4. WriteTypeOK'
  BY <1>0, <1>1, <1>2, <1>3 DEF WriteTypeOK, Steps, WriterRow, WriterPcs, JournalRow
<1>5. OpsKnown' /\ OpsApart'
  BY <1>k, <1>1, <1>2 DEF OpsKnown, OpsApart, Steps, Busy, Op, Reached, Passed
<1>6. journal[Op(w)].state # "failed_no_effect"
  BY DEF ClaimsKnown, Upload, UploadFails
<1>7. RowsTrue'
  BY <1>k, <1>1, <1>3, <1>6 DEF RowsTrue, Passed
<1>8. \A v \in Processes \ {w} : Busy(v) => Op(v) \in Operations \ {Op(w)}
  BY <1>k DEF OpsKnown, OpsApart
<1>9. ClaimsKnown'
  BY <1>0, <1>k, <1>2, <1>3, <1>8 DEF ClaimsKnown, Steps, Op, Busy
<1>10. Alone'
  BY <1>0, <1>k, <1>1, <1>2, <1>3, <1>8 DEF Alone, Steps, Op, Busy, Armed, Holds
<1>11. Counted'
  BY <1>k, <1>1, <1>3 DEF Counted
<1>12. PageHeld'
  BY <1>1 DEF PageHeld
<1> QED BY <1>4, <1>5, <1>7, <1>9, <1>10, <1>11, <1>12

-----------------------------------------------------------------------------
(* The page, and what opens on it *)

\* A page that moves on, in the same lease or to the next, stays past what it was past.
LEMMA PageKeeps ==
  ASSUME WriteTypeOK, page' \in PageRow, NEW o \in Operations,
         page'.lease > page.lease \/ (page'.lease = page.lease /\ page'.epoch >= page.epoch)
  PROVE  (Reached(o) => Reached(o)') /\ (Passed(o) => Passed(o)')
  BY WriteTypes, WriteAssumption DEF PageRow, Operations, Reached, Passed

\* The lease passes on, and the page advances under a batch: nobody but the holder notices.
LEMMA PassKeeps ==
  ASSUME WriteInvariant, NEW w \in Processes, PassLease(w) \/ BatchAdvance(w)
  PROVE  WriteInvariant'
<1> USE DEF WriteInvariant
<1>0. page \in PageRow /\ UNCHANGED <<journal, writer, uploads, legacy>> /\ ~Busy(w)
  BY WriteTypes DEF PassLease, BatchAdvance, Busy
<1>1. /\ page' \in PageRow
      /\ \/ page'.lease = page.lease + 1 /\ page'.holder = w
         \/ page'.lease = page.lease /\ page'.holder = page.holder /\ page.holder = w /\ page'.epoch >= page.epoch
  <2>1. CASE PassLease(w)
    <3>1. page.lease + 1 \in 0..MaxLease
      BY <1>0, <2>1, WriteAssumption DEF PassLease, PageRow
    <3> QED BY <2>1, <3>1 DEF PassLease, PageRow
  <2>2. CASE BatchAdvance(w)
    BY <1>0, <2>2 DEF BatchAdvance, PageRow
  <2> QED BY <2>1, <2>2
<1>2. \A o \in Operations : (Reached(o) => Reached(o)') /\ (Passed(o) => Passed(o)')
  BY <1>0, <1>1, PageKeeps, WriteAssumption DEF PageRow
<1>3. \A o \in Operations : Reached(o) => o.lease <= page.lease /\ o.lease \in Nat
  BY <1>0, WriteAssumption DEF Reached, Operations, PageRow
<1>4. WriteTypeOK'
  BY <1>0, <1>1 DEF WriteTypeOK, PageRow
<1>5. OpsKnown'
  <2> SUFFICES ASSUME NEW v \in Processes, Busy(v)
               PROVE  /\ Op(v) \in Operations /\ Reached(Op(v))'
                      /\ Op(v).lease = page'.lease => page'.holder = v
                      /\ writer[v].pc = "advanced" => Passed(Op(v))'
    BY <1>0 DEF OpsKnown, Op, Busy
  <2>1. /\ Op(v) \in Operations /\ Reached(Op(v)) /\ (Op(v).lease = page.lease => page.holder = v)
        /\ writer[v].pc = "advanced" => Passed(Op(v))
    BY DEF OpsKnown
  <2>2. Op(v)' = Op(v)
    BY <1>0 DEF Op
  <2>3. Op(v).lease <= page.lease /\ Op(v).lease \in Nat
    BY <1>3, <2>1
  <2> QED BY <1>0, <1>1, <1>2, <2>1, <2>2, <2>3 DEF PageRow, Reached, Passed
<1>6. OpsApart' /\ ClaimsKnown' /\ Counted'
  BY <1>0 DEF OpsApart, ClaimsKnown, Counted, Op, Busy
<1>7. RowsTrue'
  BY <1>0, <1>2 DEF RowsTrue, Passed
<1>8. \A v \in Processes : Busy(v) => ~Holds(v, Op(v))'
  BY <1>0, <1>1 DEF Holds
<1>9. Alone'
  BY <1>0, <1>8 DEF Alone, Op, Busy, Armed
<1>10. PageHeld'
  BY <1>0, <1>1, WriteAssumption DEF PageHeld, PageRow
<1> QED BY <1>4, <1>5, <1>6, <1>7, <1>9, <1>10

\* A repair opens on the page that its process holds.
LEMMA OpenKeeps ==
  ASSUME WriteInvariant, NEW w \in Processes, NEW s \in Scopes, Open(w, s)
  PROVE  WriteInvariant'
<1> USE DEF WriteInvariant
<1> DEFINE o == [lease |-> page.lease, epoch |-> page.epoch, scope |-> s]
<1>0. /\ writer \in [Processes -> WriterRow] /\ page \in PageRow
      /\ UNCHANGED <<journal, page, uploads, legacy>> /\ ~Busy(w)
  BY WriteTypes DEF Open, Busy
<1>1. page.lease > 0
  BY BaseAssumption DEF Open, PageHeld
<1>2. o \in Operations /\ Reached(o)
  BY <1>0, <1>1, WriteAssumption DEF Operations, Reached, PageRow, Open
<1>3. Steps(w, "open", o)
  BY <1>0, <1>2 DEF Open, Steps, WriterRow, WriterPcs
<1>4. WriteTypeOK'
  BY <1>0, <1>3 DEF WriteTypeOK, Steps, WriterRow, WriterPcs
<1>5. OpsKnown'
  BY <1>0, <1>2, <1>3 DEF OpsKnown, Open, Steps, Op, Busy, Reached, Passed
<1>6. \A v \in Processes \ {w} : Busy(v) => Op(v).lease # o.lease
  BY DEF OpsKnown, Open
<1>7. OpsApart'
  BY <1>0, <1>3, <1>6 DEF OpsApart, Steps, Op, Busy
<1>8. RowsTrue' /\ Counted'
  BY <1>0 DEF RowsTrue, Counted, Passed
<1>9. ClaimsKnown'
  BY <1>0, <1>3 DEF ClaimsKnown, Steps, Op
<1>10. Alone'
  BY <1>0, <1>3 DEF Alone, Steps, Op, Armed, Holds, Busy
<1>11. PageHeld'
  BY <1>0 DEF PageHeld
<1> QED BY <1>4, <1>5, <1>7, <1>8, <1>9, <1>10, <1>11

\* A crash gives up the page, and whatever was open on it.
LEMMA CrashKeeps ==
  ASSUME WriteInvariant, NEW w \in Processes, WriterCrash(w)
  PROVE  WriteInvariant'
<1> USE DEF WriteInvariant
<1>0. /\ writer \in [Processes -> WriterRow] /\ page \in PageRow
      /\ UNCHANGED <<journal, uploads, legacy>> /\ Steps(w, "idle", None)
  BY WriteTypes, WriterMoves DEF WriterCrash
<1>1. /\ page' \in PageRow /\ page'.lease = page.lease /\ page'.epoch = page.epoch
      /\ page'.holder = IF page.holder = w THEN None ELSE page.holder
  BY <1>0 DEF WriterCrash, PageRow
<1>2. WriteTypeOK'
  BY <1>0, <1>1 DEF WriteTypeOK, Steps, PageRow, WriterRow, WriterPcs
<1>3. OpsKnown' /\ OpsApart'
  BY <1>0, <1>1 DEF OpsKnown, OpsApart, Steps, Op, Busy, Reached, Passed
<1>4. RowsTrue' /\ Counted'
  BY <1>0, <1>1 DEF RowsTrue, Counted, Passed
<1>5. ClaimsKnown'
  BY <1>0 DEF ClaimsKnown, Steps, Op
<1>6. Alone'
  BY <1>0, <1>1, BaseAssumption DEF Alone, Steps, Op, Armed, Holds
<1>7. PageHeld'
  BY <1>1 DEF PageHeld
<1> QED BY <1>2, <1>3, <1>4, <1>5, <1>6, <1>7

\* The page moves on because of the write itself.
LEMMA AdvanceKeeps ==
  ASSUME WriteInvariant, NEW w \in Processes, AdvanceWritten(w)
  PROVE  WriteInvariant'
<1> USE DEF WriteInvariant
<1>0. /\ writer \in [Processes -> WriterRow] /\ page \in PageRow
      /\ journal \in [Operations -> JournalRow]
      /\ UNCHANGED <<uploads, legacy>> /\ Busy(w) /\ Op(w) \in Operations /\ legacy \in BOOLEAN
  BY WriteTypes DEF AdvanceWritten, OpsKnown, Busy, WriteTypeOK
<1>1. CASE ~Holds(w, Op(w))
  <2>1. RowsMove(w, "idle") /\ Steps(w, "idle", None) /\ UNCHANGED page
    BY <1>0, <1>1, ParkingIsTrue, WriterMoves DEF AdvanceWritten
  <2> QED BY <1>0, <2>1, QuietWriteKeeps DEF MayMove, WriterPcs
<1>2. CASE Holds(w, Op(w))
  <2>1. UNCHANGED journal /\ Steps(w, "advanced", Op(w))
    BY <1>0, <1>2, WriterMoves DEF AdvanceWritten, WriterPcs
  <2>2. /\ page' \in PageRow /\ page'.lease = page.lease /\ page'.epoch = page.epoch + 1
        /\ page'.holder = w /\ page.holder = w
    BY <1>0, <1>2 DEF AdvanceWritten, PageRow, Holds
  <2>3. \A o \in Operations : (Reached(o) => Reached(o)') /\ (Passed(o) => Passed(o)')
    BY <1>0, <2>2, PageKeeps DEF PageRow
  <2>4. Passed(Op(w))'
    BY <1>0, <1>2, <2>1, <2>2 DEF Passed, Holds, Steps, Op, PageRow, Operations
  <2>5. WriteTypeOK'
    BY <1>0, <2>1, <2>2 DEF WriteTypeOK, Steps, PageRow, WriterRow, WriterPcs
  <2>6. \A o \in Operations : Passed(o) => Reached(o)
    BY <1>0 DEF Passed, Reached, PageRow, Operations
  <2>7. OpsKnown'
    <3> SUFFICES ASSUME NEW v \in Processes, Busy(v)'
                 PROVE  /\ Op(v)' \in Operations /\ Reached(Op(v))'
                        /\ Op(v)'.lease = page'.lease => page'.holder = v
                        /\ writer'[v].pc = "advanced" => Passed(Op(v))'
      BY DEF OpsKnown, Op
    <3>1. CASE v = w
      BY <1>0, <2>1, <2>2, <2>4, <3>1 DEF Steps, Op, Passed, Reached, PageRow, Operations
    <3>2. CASE v # w
      <4>1. Op(v)' = Op(v) /\ Busy(v) /\ writer'[v] = writer[v]
        BY <2>1, <3>2 DEF Steps, Op, Busy
      <4> QED BY <2>2, <2>3, <4>1 DEF OpsKnown, Reached, Passed
    <3> QED BY <3>1, <3>2
  <2>8. OpsApart'
    BY <1>0, <2>1 DEF OpsApart, Steps, Op, Busy
  <2>9. RowsTrue' /\ Counted'
    BY <1>0, <2>1, <2>3 DEF RowsTrue, Counted
  <2>10. ClaimsKnown'
    BY <1>0, <2>1 DEF ClaimsKnown, Steps, Op
  <2>11. Alone'
    BY <1>0, <2>1, <2>2 DEF Alone, Steps, Op, Armed, Holds, AdvanceWritten
  <2>12. PageHeld'
    BY <2>2 DEF PageHeld
  <2> QED BY <2>5, <2>7, <2>8, <2>9, <2>10, <2>11, <2>12
<1> QED BY <1>1, <1>2

-----------------------------------------------------------------------------
(* The theorems *)

\* An attempt starts with an empty journal.
LEMMA WriteStart == WriteInit => WriteInvariant
<1> SUFFICES ASSUME WriteInit PROVE WriteInvariant
  OBVIOUS
<1>1. WriteTypeOK
  <2>1. [state |-> "none", count |-> 0, called |-> FALSE] \in JournalRow
    BY DEF JournalRow, States
  <2>2. [holder |-> None, lease |-> 0, epoch |-> 0] \in PageRow
    BY WriteAssumption DEF PageRow
  <2>3. [pc |-> "idle", op |-> None, count |-> 0] \in WriterRow
    BY DEF WriterRow, WriterPcs
  <2> QED BY <2>1, <2>2, <2>3 DEF WriteInit, WriteTypeOK, JournalRow, PageRow, WriterRow, WriterPcs
<1>2. PageHeld /\ OpsKnown /\ OpsApart /\ ClaimsKnown /\ Alone
  BY DEF WriteInit, PageHeld, OpsKnown, OpsApart, ClaimsKnown, Alone, Busy, Armed
<1>3. RowsTrue /\ Counted
  BY DEF WriteInit, RowsTrue, Counted
<1> QED BY <1>1, <1>2, <1>3 DEF WriteInvariant

\* Every step keeps the invariant.
LEMMA WriteStepKeeps ==
  WriteInvariant /\ [WriteNext]_<<now, writeVars>> => WriteInvariant'
<1> SUFFICES ASSUME WriteInvariant, [WriteNext]_<<now, writeVars>> PROVE WriteInvariant'
  OBVIOUS
<1>1. ASSUME NEW w \in Processes, WriterStep(w) PROVE WriteInvariant'
  BY <1>1, PassKeeps, OpenKeeps, LooksKeep, ClaimKeeps, CallKeeps, TailKeeps, AdvanceKeeps, CrashKeeps
     DEF WriterStep
<1>2. CASE UNCHANGED <<now, writeVars>>
  BY <1>2 DEF writeVars, WriteInvariant, WriteTypeOK, PageHeld, OpsKnown, OpsApart, RowsTrue, ClaimsKnown,
     Alone, Counted, Busy, Armed, Op, Holds, Reached, Passed
<1> QED BY <1>1, <1>2 DEF WriteNext

\* Every behaviour of the uploads keeps the invariant.
LEMMA WritesHold == WriteSpec => []WriteInvariant
BY WriteStart, WriteStepKeeps, PTL DEF WriteSpec

\* The upload driver is called at most once for an attempt, a call is never recorded as without
\* effect, and an upload is verified only past its own page, however many processes take the
\* page over from each other and wherever they crash.
THEOREM UploadsAreOnce == WriteSpec => []UploadsAgree
<1>1. WriteInvariant => UploadsAgree
  BY DEF WriteInvariant, Counted, RowsTrue, UploadsAgree, UploadedOnce, JournalIsTrue, Passed
<1> QED BY <1>1, WritesHold, PTL

\* The agent is given the upload only while the driver was not called.
THEOREM LegacyComesFirst == WriteSpec => LegacyBeforeUpload
<1>1. WriteSpec => []WriteInvariant
  BY WritesHold
<1>2. WriteInvariant /\ [WriteNext]_<<now, writeVars>> => [legacy' # legacy => uploads = 0]_writeVars
  <2> SUFFICES ASSUME WriteInvariant, WriteNext, legacy' # legacy PROVE uploads = 0
    BY DEF writeVars
  <2>1. PICK w \in Processes : Fallback(w)
    BY DEF WriteNext, WriterStep, PassLease, BatchAdvance, Open, LookAndStop, LookAndGo, Begin,
       ClaimDispatch, Validate, Observe, UploadFails, Upload, MarkEffect, AdvanceWritten,
       MarkVerified, WriterCrash
  <2>2. Dispatched = {}
    BY <2>1 DEF Fallback
  <2> QED BY <2>2 DEF WriteInvariant, Counted, RowsTrue, Dispatched
<1> QED BY <1>1, <1>2, PTL DEF WriteSpec, LegacyBeforeUpload

------------------------------------------------------------------------------
(* Batches of controls *)

FillerRow ==
  [pc : {"out", "entered", "fresh", "begun", "filling", "touching", "noting",
         "failed", "filled", "torn", "clearing", "parking"},
   batch : Batches \cup {None}, lease : Nat, epoch : Nat, fields : FieldSets \cup {{}},
   left : Nat, effects : Nat]

BatchRow ==
  [state : BatchStates, fields : FieldSets \cup {{}}, lease : Nat, epoch : Nat,
   dispatched : BOOLEAN, effects : Nat, result : Nat, touched : Nat]

Begun(b) == batch[b].state # "free"
Idle == {"out", "entered", "fresh"}

\* The page was given to somebody else, or has moved on, since the batch was bound to it.
Past(b) ==
  \/ tab.lease > batch[b].lease
  \/ tab.lease = batch[b].lease /\ tab.epoch > batch[b].epoch

\* No batch of the same fields was or will be begun under a later lease of the page.
Leads(b) ==
  /\ Begun(b)
  /\ \A c \in Batches : Begun(c) /\ batch[c].fields = batch[b].fields =>
       batch[c].lease <= batch[b].lease
  /\ \A q \in Processes : Mode(q) = "fresh" /\ filler[q].fields = batch[b].fields =>
       filler[q].lease < batch[b].lease

\* A call keeps the lease it was made under, and no two calls have the same one.
FillersKnow ==
  /\ \A p \in Processes : Mode(p) # "out" =>
       /\ filler[p].fields \in FieldSets
       /\ filler[p].lease <= tab.lease
       /\ filler[p].lease = tab.lease => tab.holder = p
  /\ \A p, q \in Processes : p # q /\ Mode(p) # "out" /\ Mode(q) # "out" =>
       filler[p].lease # filler[q].lease

\* What a call knows of its batch.
CallFits(p) ==
  LET b == Batch(p) IN
  /\ Mode(p) \in {"fresh", "entered", "begun"} => filler[p].effects = 0
  /\ Mode(p) \notin Idle =>
       /\ b \in Batches /\ batch[b].state = "started"
       /\ batch[b].fields = filler[p].fields /\ batch[b].lease = filler[p].lease
       /\ Mode(p) # "begun" => batch[b].dispatched
       /\ Mode(p) \in {"touching", "noting"} => filler[p].left > 0
       /\ Mode(p) = "clearing" => batch[b].touched = 0
       /\ Mode(p) \notin {"clearing", "parking"} => batch[b].epoch = filler[p].epoch
       /\ Mode(p) \in {"filling", "touching", "filled"} =>
            batch[b].touched = filler[p].effects /\ batch[b].effects = filler[p].effects
       /\ Mode(p) = "noting" =>
            batch[b].touched = filler[p].effects /\ batch[b].effects + 1 = filler[p].effects
       /\ Mode(p) = "filled" => batch[b].touched = 0 \/ Past(b)

CallsFit == \A p \in Processes : CallFits(p)

RowFits(b) ==
  /\ Begun(b) => batch[b].lease <= tab.lease
  /\ batch[b].state = "free" => ~batch[b].dispatched
  /\ ~batch[b].dispatched => batch[b].touched = 0 /\ batch[b].effects = 0
  /\ batch[b].state = "failed_no_effect" => batch[b].touched = 0
  /\ batch[b].state = "verified" =>
       batch[b].effects = batch[b].touched /\ (batch[b].touched = 0 \/ Past(b))

RowsFit == \A b \in Batches : RowFits(b)

\* Batches of the same fields have different leases, and only the last one may write.
LeasesApart ==
  /\ \A b, c \in Batches :
       b # c /\ Begun(b) /\ Begun(c) /\ batch[b].fields = batch[c].fields =>
         batch[b].lease # batch[c].lease
  /\ \A q \in Processes, b \in Batches :
       Mode(q) = "fresh" /\ Begun(b) /\ batch[b].fields = filler[q].fields =>
         batch[b].lease # filler[q].lease

WritersLead ==
  /\ \A b \in Batches : batch[b].touched > 0 => Leads(b)
  /\ \A p \in Processes : Mode(p) = "touching" => Leads(Batch(p))
  /\ \A p \in Processes, b \in Batches :
       /\ Mode(p) \in {"entered", "clearing", "parking"}
       /\ Begun(b) /\ batch[b].fields = filler[p].fields /\ batch[b].lease = filler[p].lease
       => Leads(b)

GrantsLead ==
  \A F \in granted : \E b \in Batches :
    batch[b].fields = F /\ batch[b].state = "failed_no_effect" /\ Leads(b)

\* Batches, calls and grants fit each other and the page.
BatchInvariant ==
  /\ BatchTypeOK /\ FillersKnow /\ CallsFit /\ RowsFit /\ LeasesApart /\ WritersLead /\ GrantsLead

\* A set of fields has a size.
LEMMA FieldSetsCounted ==
  \A F \in FieldSets : Cardinality(F) \in Nat
BY FS_CardinalityType

\* The types, in the form the provers need.
LEMMA BatchTypes ==
  ASSUME BatchInvariant
  PROVE  /\ filler \in [Processes -> FillerRow] /\ batch \in [Batches -> BatchRow]
         /\ tab \in [holder : Processes \cup {None}, lease : 0..MaxTabLease, epoch : Nat]
         /\ granted \subseteq FieldSets
BY DEF BatchInvariant, BatchTypeOK, FillerRow, BatchRow

\* A step of p changes no other call, keeps what a batch was begun with, and leaves the
\* batches alone that were begun under another lease.
OwnStep(p) ==
  /\ filler' \in [Processes -> FillerRow] /\ batch' \in [Batches -> BatchRow]
  /\ \A q \in Processes : q # p => filler'[q] = filler[q]
  /\ \A b \in Batches : Begun(b) =>
       /\ batch'[b].state # "free" /\ batch'[b].fields = batch[b].fields
       /\ batch'[b].lease = batch[b].lease
       /\ batch[b].state = "failed_no_effect" => batch'[b].state = "failed_no_effect"
       /\ filler[p].pc = "out" \/ batch[b].lease # filler[p].lease => batch'[b] = batch[b]
  /\ \A b \in Batches : ~Begun(b) /\ batch'[b].state # "free" =>
       filler[p].pc = "fresh" /\ batch'[b].lease = filler[p].lease
  /\ \A b \in Batches : batch'[b].touched > 0 =>
       batch[b].touched > 0 \/ (filler[p].pc = "touching" /\ b = filler[p].batch)

\* A page only moves forward.
TabMoves ==
  /\ tab' \in [holder : Processes \cup {None}, lease : 0..MaxTabLease, epoch : Nat]
  /\ \/ tab'.lease > tab.lease
     \/ tab'.lease = tab.lease /\ tab'.epoch >= tab.epoch

\* Who has left a page cannot get back to it.
LEMMA PastStays ==
  ASSUME BatchInvariant, TabMoves, NEW b \in Batches, batch'[b].lease = batch[b].lease,
         batch'[b].epoch = batch[b].epoch, Past(b)
  PROVE  Past(b)'
<1>1. /\ tab.lease \in Nat /\ tab'.lease \in Nat /\ tab.epoch \in Nat /\ tab'.epoch \in Nat
      /\ batch[b].lease \in Nat /\ batch[b].epoch \in Nat
  BY BatchTypes DEF TabMoves, BatchRow
<1> QED BY <1>1 DEF TabMoves, Past

\* What the other calls know of their batches stays true.
LEMMA OthersFit ==
  ASSUME BatchInvariant, NEW p \in Processes, OwnStep(p), TabMoves, NEW q \in Processes, q # p
  PROVE  CallFits(q)'
<1>1. filler'[q] = filler[q] /\ CallFits(q)
  BY DEF OwnStep, BatchInvariant, CallsFit
<1>2. CASE filler[q].pc \in Idle
  BY <1>1, <1>2 DEF CallFits, Mode, Idle
<1>3. CASE filler[q].pc \notin Idle
  <2>1. PICK b \in Batches : b = filler[q].batch /\ Begun(b) /\ batch[b].lease = filler[q].lease
    BY <1>1, <1>3 DEF CallFits, Mode, Batch, Begun
  <2>2. filler[p].pc # "out" => filler[p].lease # filler[q].lease
    BY <1>3 DEF BatchInvariant, FillersKnow, Mode, Idle
  <2>3. batch'[b] = batch[b]
    BY <2>1, <2>2 DEF OwnStep
  <2>4. Past(b) => Past(b)'
    BY <2>1, <2>3, PastStays
  <2> QED BY <1>1, <1>3, <2>1, <2>3, <2>4 DEF CallFits, Mode, Batch, Idle
<1> QED BY <1>2, <1>3

\* Rows that a step does not change stay as they should be.
LEMMA RowsStay ==
  ASSUME BatchInvariant, TabMoves, NEW b \in Batches, batch'[b] = batch[b]
  PROVE  RowFits(b)'
<1>1. RowFits(b) /\ (Past(b) => Past(b)')
  BY PastStays DEF BatchInvariant, RowsFit
<1>2. tab.lease \in Nat /\ tab'.lease \in Nat /\ tab'.lease >= tab.lease /\ batch[b].lease \in Nat
  BY BatchTypes DEF TabMoves, BatchRow
<1> QED BY <1>1, <1>2 DEF RowFits, Begun

\* No batch is begun and no call finds that there was none.
Quiet(p) ==
  /\ \A b \in Batches : batch'[b].state # "free" => Begun(b)
  /\ filler'[p].pc # "fresh"

\* Then what leads still does, and the leases stay apart.
LEMMA LeadsStay ==
  ASSUME BatchInvariant, NEW p \in Processes, OwnStep(p), Quiet(p)
  PROVE  /\ \A b \in Batches : Leads(b) => Leads(b)'
         /\ LeasesApart'
<1>1. \A b \in Batches : (batch'[b].state # "free" <=> Begun(b)) /\
        (Begun(b) => batch'[b].fields = batch[b].fields /\ batch'[b].lease = batch[b].lease)
  BY DEF OwnStep, Quiet
<1>2. \A q \in Processes : filler'[q].pc = "fresh" => q # p /\ filler'[q] = filler[q]
  BY DEF OwnStep, Quiet
<1>3. ASSUME NEW b \in Batches, Leads(b) PROVE Leads(b)'
  BY <1>1, <1>2, <1>3 DEF Leads, Begun, Mode
<1>4. LeasesApart'
  BY <1>1, <1>2 DEF BatchInvariant, LeasesApart, Begun, Mode
<1> QED BY <1>3, <1>4

\* A batch of the page that is held leads.
LEMMA PageLeads ==
  ASSUME BatchInvariant, NEW p \in Processes, tab.holder = p, Mode(p) # "fresh",
         NEW b \in Batches, Begun(b), batch[b].lease = tab.lease
  PROVE  Leads(b)
<1>1. \A c \in Batches : batch[c].lease \in Nat /\ (Begun(c) => batch[c].lease <= tab.lease)
  BY BatchTypes DEF BatchInvariant, RowsFit, RowFits, BatchRow
<1>2. \A q \in Processes : Mode(q) = "fresh" => filler[q].lease <= tab.lease /\ filler[q].lease # tab.lease
  BY DEF BatchInvariant, FillersKnow
<1>3. \A q \in Processes : filler[q].lease \in Nat
  BY BatchTypes DEF FillerRow
<1>4. tab.lease \in Nat
  BY BatchTypes
<1>5. \A c \in Batches : Begun(c) => batch[c].lease <= batch[b].lease
  BY <1>1
<1>6. \A q \in Processes : Mode(q) = "fresh" => filler[q].lease < batch[b].lease
  BY <1>2, <1>3, <1>4
<1> QED BY <1>5, <1>6 DEF Leads

\* What a step of p has to show of its own call and its own batch.
Leading(p) ==
  /\ \A b \in Batches : Leads(b) => Leads(b)'
  /\ filler'[p].pc = "touching" => filler'[p].batch \in Batches /\ Leads(filler'[p].batch)
  /\ filler'[p].pc \in {"entered", "clearing", "parking"} =>
       \A b \in Batches : /\ Begun(b) /\ batch[b].fields = filler'[p].fields
                          /\ batch[b].lease = filler'[p].lease
                          => Leads(b)

\* Who may write, or wrote, has the last word on its fields, and keeps it.
LEMMA WritersStay ==
  ASSUME BatchInvariant, NEW p \in Processes, OwnStep(p), Leading(p),
         filler'[p].pc \in {"entered", "clearing", "parking"} => filler[p].pc # "fresh"
  PROVE  WritersLead'
<1>0. \A b \in Batches : batch[b].touched \in Nat /\ batch'[b].touched \in Nat
  BY BatchTypes DEF OwnStep, BatchRow
<1>1. ASSUME NEW b \in Batches, batch'[b].touched > 0 PROVE Leads(b)'
  <2>1. batch[b].touched > 0 \/ (filler[p].pc = "touching" /\ b = filler[p].batch)
    BY <1>1 DEF OwnStep
  <2>2. Leads(b)
    BY <2>1 DEF BatchInvariant, WritersLead, Mode, Batch
  <2> QED BY <2>2 DEF Leading
<1>2. ASSUME NEW q \in Processes, filler'[q].pc = "touching"
      PROVE  \E b \in Batches : b = filler'[q].batch /\ Leads(b)'
  <2>1. CASE q = p
    <3>1. PICK b \in Batches : b = filler'[p].batch /\ Leads(b)
      BY <1>2, <2>1 DEF Leading
    <3> QED BY <2>1, <3>1 DEF Leading
  <2>2. CASE q # p
    <3>1. filler'[q] = filler[q]
      BY <2>2 DEF OwnStep
    <3>2. PICK b \in Batches : b = filler[q].batch /\ Leads(b)
      BY ZenonT(60), <1>2, <3>1 DEF BatchInvariant, WritersLead, CallsFit, CallFits, Idle, Mode, Batch
    <3> QED BY <3>1, <3>2 DEF Leading
  <2> QED BY <2>1, <2>2
<1>3. ASSUME NEW q \in Processes, NEW b \in Batches,
             filler'[q].pc \in {"entered", "clearing", "parking"}, batch'[b].state # "free",
             batch'[b].fields = filler'[q].fields, batch'[b].lease = filler'[q].lease
      PROVE  Leads(b)'
  <2>1. CASE q = p
    <3>1. Begun(b)
      BY <1>3, <2>1 DEF OwnStep
    <3> QED BY <1>3, <2>1, <3>1 DEF Leading, OwnStep
  <2>2. CASE q # p
    <3>1. filler'[q] = filler[q]
      BY <2>2 DEF OwnStep
    <3>2. filler[p].pc # "out" => filler[p].lease # filler[q].lease
      BY <1>3, <2>2, <3>1 DEF BatchInvariant, FillersKnow, Mode
    <3>3. Begun(b)
      BY <1>3, <3>1, <3>2 DEF OwnStep
    <3>4. Leads(b)
      BY <1>3, <3>1, <3>3 DEF BatchInvariant, WritersLead, OwnStep, Mode
    <3> QED BY <3>4 DEF Leading
  <2> QED BY <2>1, <2>2
<1>4. \A q \in Processes : filler'[q].pc = "touching" => Leads(filler[q].batch)'
  BY <1>2 DEF Leads, Begun, Mode
<1> QED BY <1>1, <1>3, <1>4 DEF WritersLead, Mode, Batch, Begun

\* A set of fields that was left to the agent stays free of writes.
LEMMA GrantsStay ==
  ASSUME BatchInvariant, NEW p \in Processes, OwnStep(p), Leading(p),
         \A F \in granted' : F \notin granted => \E b \in Batches :
           batch'[b].fields = F /\ batch'[b].state = "failed_no_effect" /\ Leads(b)
  PROVE  GrantsLead'
<1> SUFFICES ASSUME NEW F \in granted'
             PROVE  \E b \in Batches : /\ batch'[b].fields = F
                                       /\ batch'[b].state = "failed_no_effect" /\ Leads(b)'
  BY DEF GrantsLead
<1>1. CASE F \notin granted
  BY <1>1 DEF Leading
<1>2. CASE F \in granted
  <2>1. PICK b \in Batches : batch[b].fields = F /\ batch[b].state = "failed_no_effect" /\ Leads(b)
    BY <1>2 DEF BatchInvariant, GrantsLead
  <2>2. batch'[b].fields = F /\ batch'[b].state = "failed_no_effect"
    BY <2>1 DEF OwnStep, Begun
  <2> QED BY <2>1, <2>2 DEF Leading
<1> QED BY <1>1, <1>2

\* The call ends, or goes on under its lease; the page keeps its holder, but for one that is gone.
Departs(p) ==
  /\ filler'[p].pc # "out" => /\ filler[p].pc # "out"
                              /\ filler'[p].lease = filler[p].lease
                              /\ filler'[p].fields = filler[p].fields
  /\ tab'.lease = tab.lease
  /\ tab'.holder = tab.holder \/ (tab.holder = p /\ filler'[p].pc = "out")

\* Calls keep apart while the page only moves forward.
LEMMA FillersStay ==
  ASSUME BatchInvariant, NEW p \in Processes, OwnStep(p), Departs(p)
  PROVE  FillersKnow'
<1>1. \A q \in Processes : filler'[q].pc # "out" => /\ filler[q].pc # "out"
                                                    /\ filler'[q].lease = filler[q].lease
                                                    /\ filler'[q].fields = filler[q].fields
  BY DEF OwnStep, Departs
<1>2. \A q \in Processes : filler'[q].pc # "out" => \/ tab'.holder = tab.holder
                                                    \/ q # p /\ tab.holder = p
  BY DEF Departs
<1> QED BY <1>1, <1>2 DEF BatchInvariant, FillersKnow, Mode, Departs

\* What a step has to show.
LEMMA StepKeeps ==
  ASSUME BatchInvariant, NEW p \in Processes, OwnStep(p), TabMoves, Leading(p),
         FillersKnow', LeasesApart', CallFits(p)',
         \A b \in Batches : batch'[b] = batch[b] \/ RowFits(b)',
         filler'[p].pc \in {"entered", "clearing", "parking"} => filler[p].pc # "fresh",
         granted' \subseteq FieldSets,
         \A F \in granted' : F \notin granted => \E b \in Batches :
           batch'[b].fields = F /\ batch'[b].state = "failed_no_effect" /\ Leads(b)
  PROVE  BatchInvariant'
<1>1. BatchTypeOK'
  BY DEF BatchTypeOK, OwnStep, TabMoves, FillerRow, BatchRow
<1>2. CallsFit'
  BY OthersFit DEF CallsFit
<1>3. RowsFit'
  BY RowsStay DEF RowsFit
<1> QED BY <1>1, <1>2, <1>3, WritersStay, GrantsStay DEF BatchInvariant

\* A step that begins no batch and finds none missing.
LEMMA QuietKeeps ==
  ASSUME BatchInvariant, NEW p \in Processes, OwnStep(p), TabMoves, Quiet(p), Departs(p),
         CallFits(p)', \A b \in Batches : batch'[b] = batch[b] \/ RowFits(b)',
         granted' \subseteq FieldSets,
         filler'[p].pc = "touching" => filler'[p].batch \in Batches /\ Leads(filler'[p].batch),
         filler'[p].pc \in {"clearing", "parking"} => filler[p].pc = "entered",
         filler'[p].pc # "entered",
         \A F \in granted' : F \notin granted => \E b \in Batches :
           batch'[b].fields = F /\ batch'[b].state = "failed_no_effect" /\ Leads(b)
  PROVE  BatchInvariant'
<1>1. \A b \in Batches : Leads(b) => Leads(b)'
  BY LeadsStay
<1>2. filler'[p].pc \in {"entered", "clearing", "parking"} =>
        \A b \in Batches : /\ Begun(b) /\ batch[b].fields = filler'[p].fields
                           /\ batch[b].lease = filler'[p].lease
                           => Leads(b)
  BY DEF Departs, BatchInvariant, WritersLead, Mode
<1>3. Leading(p)
  BY <1>1, <1>2 DEF Leading
<1> QED BY <1>3, LeadsStay, FillersStay, StepKeeps

\* The batch of a call that is at work.
LEMMA CallsBatch ==
  ASSUME BatchInvariant, NEW p \in Processes, Mode(p) \notin Idle
  PROVE  \E b \in Batches :
           /\ b = filler[p].batch /\ Begun(b) /\ batch[b].state = "started"
           /\ batch[b].fields = filler[p].fields /\ batch[b].lease = filler[p].lease
           /\ CallFits(p) /\ RowFits(b)
           /\ filler[p].fields \in FieldSets
           /\ filler[p] \in FillerRow /\ batch[b] \in BatchRow
BY BatchTypes DEF BatchInvariant, CallsFit, CallFits, RowsFit, FillersKnow, Mode, Batch, Begun, Idle

\* A call that is at work on batch b does its step: r and row are what it leaves of both.
BusyStep(p, b, r, row) ==
  /\ filler' = [filler EXCEPT ![p] = r] /\ batch' = [batch EXCEPT ![b] = row]
  /\ row.state # "free" /\ row.fields = batch[b].fields /\ row.lease = batch[b].lease
  /\ row.touched > 0 => batch[b].touched > 0 \/ Mode(p) = "touching"
  /\ r.pc \notin {"entered", "fresh", "clearing", "parking"}
  /\ r.pc # "out" => r.lease = filler[p].lease /\ r.fields = filler[p].fields
  /\ r.pc = "touching" => r.batch = b /\ Leads(b)
  /\ TabMoves /\ tab'.lease = tab.lease
  /\ tab'.holder = tab.holder \/ (tab.holder = p /\ r.pc = "out")
  /\ CallFits(p)' /\ RowFits(b)'
  /\ granted' # granted =>
       granted' = granted \cup {filler[p].fields} /\ row.state = "failed_no_effect" /\ Leads(b)

\* A step of a call that is at work, from what it does to its own batch.
LEMMA FillerKeeps ==
  ASSUME BatchInvariant, NEW p \in Processes, Mode(p) \notin Idle,
         NEW b \in Batches, b = filler[p].batch,
         NEW r \in FillerRow, NEW row \in BatchRow, BusyStep(p, b, r, row)
  PROVE  BatchInvariant'
<1>1. PICK c \in Batches :
        /\ c = filler[p].batch /\ Begun(c) /\ batch[c].state = "started"
        /\ batch[c].fields = filler[p].fields /\ batch[c].lease = filler[p].lease
        /\ filler[p].fields \in FieldSets
  BY CallsBatch
<1>2. /\ filler' \in [Processes -> FillerRow] /\ batch' \in [Batches -> BatchRow]
      /\ filler'[p] = r /\ batch'[b] = row
      /\ \A q \in Processes : q # p => filler'[q] = filler[q]
      /\ \A d \in Batches : d # b => batch'[d] = batch[d]
  BY BatchTypes DEF BusyStep
<1>3. OwnStep(p)
  BY <1>1, <1>2 DEF BusyStep, OwnStep, Begun, Mode, Idle
<1>4. Quiet(p) /\ Departs(p)
  BY <1>1, <1>2 DEF BusyStep, Quiet, Departs, Begun, Mode, Idle
<1>5. \A d \in Batches : batch'[d] = batch[d] \/ RowFits(d)'
  BY <1>2 DEF BusyStep
<1>6. granted' \subseteq FieldSets
  BY <1>1, BatchTypes DEF BusyStep
<1>7. \A F \in granted' : F \notin granted => \E d \in Batches :
        batch'[d].fields = F /\ batch'[d].state = "failed_no_effect" /\ Leads(d)
  BY <1>1, <1>2 DEF BusyStep
<1>8. r.pc = "touching" => r.batch = b /\ Leads(b)
  BY DEF BusyStep
<1> QED BY <1>2, <1>3, <1>4, <1>5, <1>6, <1>7, <1>8, QuietKeeps DEF BusyStep

\* The driver is called.
LEMMA KeepsDispatch ==
  ASSUME BatchInvariant, NEW p \in Processes, Dispatch(p)
  PROVE  BatchInvariant'
<1>1. PICK b \in Batches :
        /\ b = filler[p].batch /\ Begun(b) /\ batch[b].state = "started"
        /\ batch[b].fields = filler[p].fields /\ batch[b].lease = filler[p].lease
        /\ CallFits(p) /\ RowFits(b) /\ filler[p] \in FillerRow /\ batch[b] \in BatchRow
  BY CallsBatch DEF Dispatch, Idle
<1>2. PICK r \in FillerRow, row \in BatchRow :
        /\ r = [filler[p] EXCEPT !.pc = "filling"]
        /\ row = [batch[b] EXCEPT !.dispatched = TRUE]
        /\ filler' = [filler EXCEPT ![p] = r] /\ batch' = [batch EXCEPT ![b] = row]
  <2> DEFINE r == [filler[p] EXCEPT !.pc = "filling"]
  <2> DEFINE row == [batch[b] EXCEPT !.dispatched = TRUE]
  <2>0. /\ filler[p].effects + 1 \in Nat /\ batch[b].touched + 1 \in Nat
        /\ filler[p].epoch + (IF filler[p].effects > 0 THEN 1 ELSE 0) \in Nat
    BY <1>1 DEF FillerRow, BatchRow
  <2>1. r \in FillerRow /\ row \in BatchRow
    BY <1>1, <2>0 DEF Out, FillerRow, BatchRow, BatchStates
  <2>2. filler' = [filler EXCEPT ![p] = r] /\ batch' = [batch EXCEPT ![b] = row]
    BY <1>1, BatchTypes DEF Dispatch, Moves, Batch
  <2> QED BY <2>1, <2>2
<1>3. TabMoves /\ tab'.lease = tab.lease /\ (tab'.holder = tab.holder \/ (tab.holder = p /\ r.pc = "out"))
  BY <1>2, BatchTypes DEF Dispatch, Moves, TabMoves
<1>4. filler'[p] = r /\ batch'[b] = row /\ Mode(p) \notin Idle
  BY <1>2, BatchTypes DEF Dispatch, Idle
<1>5. CallFits(p)'
  BY SMTT(30), <1>1, <1>2, <1>3, <1>4 DEF Dispatch, CallFits, RowFits, Mode, Batch, BatchRow
<1>6. RowFits(b)'
  BY <1>1, <1>2, <1>3, <1>4, BatchTypes DEF RowFits
<1>8. /\ row.state # "free" /\ row.fields = batch[b].fields /\ row.lease = batch[b].lease
      /\ row.touched > 0 => batch[b].touched > 0 \/ Mode(p) = "touching"
      /\ r.pc \notin {"entered", "fresh", "clearing", "parking"}
      /\ r.pc # "out" => r.lease = filler[p].lease /\ r.fields = filler[p].fields
      /\ r.pc # "touching"
      /\ granted' = granted
  BY <1>1, <1>2 DEF Dispatch, Moves, Mode, Batch, Begun, FillerRow, BatchRow
<1>9. BusyStep(p, b, r, row)
  BY <1>2, <1>3, <1>5, <1>6, <1>8 DEF BusyStep
<1> QED BY <1>1, <1>4, <1>9, FillerKeeps

\* A control is written, or the page is found changed.
LEMMA KeepsPerform ==
  ASSUME BatchInvariant, NEW p \in Processes, Perform(p)
  PROVE  BatchInvariant'
<1>1. PICK b \in Batches :
        /\ b = filler[p].batch /\ Begun(b) /\ batch[b].state = "started"
        /\ batch[b].fields = filler[p].fields /\ batch[b].lease = filler[p].lease
        /\ CallFits(p) /\ RowFits(b) /\ filler[p] \in FillerRow /\ batch[b] \in BatchRow
  BY CallsBatch DEF Perform, Idle
<1>2. PICK r \in FillerRow, row \in BatchRow :
        /\ r = [filler[p] EXCEPT !.pc = "noting", !.effects = filler[p].effects + 1]
        /\ row = [batch[b] EXCEPT !.touched = batch[b].touched + 1]
        /\ filler' = [filler EXCEPT ![p] = r] /\ batch' = [batch EXCEPT ![b] = row]
  <2> DEFINE r == [filler[p] EXCEPT !.pc = "noting", !.effects = filler[p].effects + 1]
  <2> DEFINE row == [batch[b] EXCEPT !.touched = batch[b].touched + 1]
  <2>0. /\ filler[p].effects + 1 \in Nat /\ batch[b].touched + 1 \in Nat
        /\ filler[p].epoch + (IF filler[p].effects > 0 THEN 1 ELSE 0) \in Nat
    BY <1>1 DEF FillerRow, BatchRow
  <2>1. r \in FillerRow /\ row \in BatchRow
    BY <1>1, <2>0 DEF Out, FillerRow, BatchRow, BatchStates
  <2>2. filler' = [filler EXCEPT ![p] = r] /\ batch' = [batch EXCEPT ![b] = row]
    BY <1>1, BatchTypes DEF Perform, Batch
  <2> QED BY <2>1, <2>2
<1>3. TabMoves /\ tab'.lease = tab.lease /\ (tab'.holder = tab.holder \/ (tab.holder = p /\ r.pc = "out"))
  BY <1>2, BatchTypes DEF Perform, TabMoves
<1>4. filler'[p] = r /\ batch'[b] = row /\ Mode(p) \notin Idle
  BY <1>2, BatchTypes DEF Perform, Idle
<1>5. CallFits(p)'
  <2>1. /\ batch[b].touched = filler[p].effects /\ batch[b].effects = filler[p].effects
        /\ batch[b].epoch = filler[p].epoch /\ batch[b].dispatched /\ filler[p].left > 0
    BY <1>1 DEF Perform, CallFits, Mode, Batch, Idle
  <2>2. /\ r.pc = "noting" /\ r.effects = filler[p].effects + 1 /\ r.left = filler[p].left /\ r.batch = b
        /\ r.fields = filler[p].fields /\ r.lease = filler[p].lease /\ r.epoch = filler[p].epoch
    BY <1>1, <1>2 DEF FillerRow
  <2>3. /\ row.touched = batch[b].touched + 1 /\ row.effects = batch[b].effects /\ row.state = "started"
        /\ row.fields = batch[b].fields /\ row.lease = batch[b].lease /\ row.epoch = batch[b].epoch
        /\ row.dispatched = batch[b].dispatched
    BY <1>1, <1>2 DEF BatchRow
  <2>4. /\ row.touched = r.effects /\ row.effects + 1 = r.effects /\ row.fields = r.fields
        /\ row.lease = r.lease /\ row.epoch = r.epoch /\ row.dispatched /\ row.state = "started" /\ r.left > 0
    BY <1>1, <2>1, <2>2, <2>3
  <2>5. filler'[p].batch = b
    BY <1>4, <2>2
  <2> QED BY <1>4, <2>2, <2>4, <2>5 DEF CallFits, Mode, Batch, Idle
<1>6. RowFits(b)'
  BY SMTT(30), <1>1, <1>2, <1>3, <1>4, BatchTypes DEF Perform, CallFits, Idle, Mode, FillerRow
<1>8. /\ row.state # "free" /\ row.fields = batch[b].fields /\ row.lease = batch[b].lease
      /\ row.touched > 0 => batch[b].touched > 0 \/ Mode(p) = "touching"
      /\ r.pc \notin {"entered", "fresh", "clearing", "parking"}
      /\ r.pc # "out" => r.lease = filler[p].lease /\ r.fields = filler[p].fields
      /\ r.pc # "touching"
      /\ granted' = granted
  BY <1>1, <1>2 DEF Perform, Mode, Batch, Begun, FillerRow, BatchRow
<1>9. BusyStep(p, b, r, row)
  BY <1>2, <1>3, <1>5, <1>6, <1>8 DEF BusyStep
<1> QED BY <1>1, <1>4, <1>9, FillerKeeps

\* The page cannot be given back.
LEMMA KeepsReleaseFails ==
  ASSUME BatchInvariant, NEW p \in Processes, ReleaseFails(p)
  PROVE  BatchInvariant'
<1>1. PICK b \in Batches :
        /\ b = filler[p].batch /\ Begun(b) /\ batch[b].state = "started"
        /\ batch[b].fields = filler[p].fields /\ batch[b].lease = filler[p].lease
        /\ CallFits(p) /\ RowFits(b) /\ filler[p] \in FillerRow /\ batch[b] \in BatchRow
  BY CallsBatch DEF ReleaseFails, Idle
<1>2. PICK r \in FillerRow, row \in BatchRow :
        /\ r = [filler[p] EXCEPT !.pc = "torn"]
        /\ row = batch[b]
        /\ filler' = [filler EXCEPT ![p] = r] /\ batch' = [batch EXCEPT ![b] = row]
  <2> DEFINE r == [filler[p] EXCEPT !.pc = "torn"]
  <2> DEFINE row == batch[b]
  <2>0. /\ filler[p].effects + 1 \in Nat /\ batch[b].touched + 1 \in Nat
        /\ filler[p].epoch + (IF filler[p].effects > 0 THEN 1 ELSE 0) \in Nat
    BY <1>1 DEF FillerRow, BatchRow
  <2>1. r \in FillerRow /\ row \in BatchRow
    BY <1>1, <2>0 DEF Out, FillerRow, BatchRow, BatchStates
  <2>2. filler' = [filler EXCEPT ![p] = r] /\ batch' = [batch EXCEPT ![b] = row]
    BY <1>1, BatchTypes DEF ReleaseFails, Moves, Batch
  <2> QED BY <2>1, <2>2
<1>3. TabMoves /\ tab'.lease = tab.lease /\ (tab'.holder = tab.holder \/ (tab.holder = p /\ r.pc = "out"))
  BY <1>2, BatchTypes DEF ReleaseFails, Moves, TabMoves
<1>4. filler'[p] = r /\ batch'[b] = row /\ Mode(p) \notin Idle
  BY <1>2, BatchTypes DEF ReleaseFails, Idle
<1>5. CallFits(p)'
  BY <1>1, <1>2, <1>3, <1>4 DEF ReleaseFails, Moves, CallFits, RowFits, Past, Idle, Mode, Batch, FillerRow, BatchRow
<1>6. RowFits(b)'
  BY <1>1, <1>2, <1>3, <1>4, BatchTypes DEF RowFits
<1>8. /\ row.state # "free" /\ row.fields = batch[b].fields /\ row.lease = batch[b].lease
      /\ row.touched > 0 => batch[b].touched > 0 \/ Mode(p) = "touching"
      /\ r.pc \notin {"entered", "fresh", "clearing", "parking"}
      /\ r.pc # "out" => r.lease = filler[p].lease /\ r.fields = filler[p].fields
      /\ r.pc # "touching"
      /\ granted' = granted
  BY <1>1, <1>2 DEF ReleaseFails, Moves, Mode, Batch, Begun, FillerRow, BatchRow
<1>9. BusyStep(p, b, r, row)
  BY <1>2, <1>3, <1>5, <1>6, <1>8 DEF BusyStep
<1> QED BY <1>1, <1>4, <1>9, FillerKeeps

\* A batch ends verified.
LEMMA KeepsFinishVerified ==
  ASSUME BatchInvariant, NEW p \in Processes, FinishVerified(p)
  PROVE  BatchInvariant'
<1>1. PICK b \in Batches :
        /\ b = filler[p].batch /\ Begun(b) /\ batch[b].state = "started"
        /\ batch[b].fields = filler[p].fields /\ batch[b].lease = filler[p].lease
        /\ CallFits(p) /\ RowFits(b) /\ filler[p] \in FillerRow /\ batch[b] \in BatchRow
  BY CallsBatch DEF FinishVerified, Idle
<1>2. PICK r \in FillerRow, row \in BatchRow :
        /\ r = Out
        /\ row = [batch[b] EXCEPT !.state = "verified", !.result = filler[p].epoch + (IF filler[p].effects > 0 THEN 1 ELSE 0)]
        /\ filler' = [filler EXCEPT ![p] = r] /\ batch' = [batch EXCEPT ![b] = row]
  <2> DEFINE r == Out
  <2> DEFINE row == [batch[b] EXCEPT !.state = "verified", !.result = filler[p].epoch + (IF filler[p].effects > 0 THEN 1 ELSE 0)]
  <2>0. /\ filler[p].effects + 1 \in Nat /\ batch[b].touched + 1 \in Nat
        /\ filler[p].epoch + (IF filler[p].effects > 0 THEN 1 ELSE 0) \in Nat
    BY <1>1 DEF FillerRow, BatchRow
  <2>1. r \in FillerRow /\ row \in BatchRow
    BY <1>1, <2>0 DEF Out, FillerRow, BatchRow, BatchStates
  <2>2. filler' = [filler EXCEPT ![p] = r] /\ batch' = [batch EXCEPT ![b] = row]
    BY <1>1, BatchTypes DEF FinishVerified, Finishes, Leave, Out, Batch
  <2> QED BY <2>1, <2>2
<1>3. TabMoves /\ tab'.lease = tab.lease /\ (tab'.holder = tab.holder \/ (tab.holder = p /\ r.pc = "out"))
  BY <1>2, BatchTypes DEF FinishVerified, Finishes, Leave, Out, TabMoves
<1>4. filler'[p] = r /\ batch'[b] = row /\ Mode(p) \notin Idle
  BY <1>2, BatchTypes DEF FinishVerified, Idle
<1>5. CallFits(p)'
  BY SMTT(30), <1>1, <1>2, <1>3, <1>4 DEF Out, CallFits, Idle, Mode
<1>6. RowFits(b)'
  BY <1>1, <1>2, <1>3, <1>4, BatchTypes DEF FinishVerified, Finishes, CallFits, RowFits, Past
<1>8. /\ row.state # "free" /\ row.fields = batch[b].fields /\ row.lease = batch[b].lease
      /\ row.touched > 0 => batch[b].touched > 0 \/ Mode(p) = "touching"
      /\ r.pc \notin {"entered", "fresh", "clearing", "parking"}
      /\ r.pc # "out" => r.lease = filler[p].lease /\ r.fields = filler[p].fields
      /\ r.pc # "touching"
      /\ granted' = granted
  BY <1>1, <1>2 DEF FinishVerified, Finishes, Leave, Out, Mode, Batch, Begun, FillerRow, BatchRow
<1>9. BusyStep(p, b, r, row)
  BY <1>2, <1>3, <1>5, <1>6, <1>8 DEF BusyStep
<1> QED BY <1>1, <1>4, <1>9, FillerKeeps

\* A batch ends without an effect, before its driver was called.
LEMMA KeepsFinishPristine ==
  ASSUME BatchInvariant, NEW p \in Processes, FinishPristine(p)
  PROVE  BatchInvariant'
<1>1. PICK b \in Batches :
        /\ b = filler[p].batch /\ Begun(b) /\ batch[b].state = "started"
        /\ batch[b].fields = filler[p].fields /\ batch[b].lease = filler[p].lease
        /\ CallFits(p) /\ RowFits(b) /\ filler[p] \in FillerRow /\ batch[b] \in BatchRow
  BY CallsBatch DEF FinishPristine, Idle
<1>2. PICK r \in FillerRow, row \in BatchRow :
        /\ r = Out
        /\ row = [batch[b] EXCEPT !.state = "failed_no_effect", !.result = 0]
        /\ filler' = [filler EXCEPT ![p] = r] /\ batch' = [batch EXCEPT ![b] = row]
  <2> DEFINE r == Out
  <2> DEFINE row == [batch[b] EXCEPT !.state = "failed_no_effect", !.result = 0]
  <2>0. /\ filler[p].effects + 1 \in Nat /\ batch[b].touched + 1 \in Nat
        /\ filler[p].epoch + (IF filler[p].effects > 0 THEN 1 ELSE 0) \in Nat
    BY <1>1 DEF FillerRow, BatchRow
  <2>1. r \in FillerRow /\ row \in BatchRow
    BY <1>1, <2>0 DEF Out, FillerRow, BatchRow, BatchStates
  <2>2. filler' = [filler EXCEPT ![p] = r] /\ batch' = [batch EXCEPT ![b] = row]
    BY <1>1, BatchTypes DEF FinishPristine, Finishes, Leave, Out, Bound, Batch
  <2> QED BY <2>1, <2>2
<1>3. TabMoves /\ tab'.lease = tab.lease /\ (tab'.holder = tab.holder \/ (tab.holder = p /\ r.pc = "out"))
  BY <1>2, BatchTypes DEF FinishPristine, Finishes, Leave, Out, Bound, TabMoves
<1>4. filler'[p] = r /\ batch'[b] = row /\ Mode(p) \notin Idle
  BY <1>2, BatchTypes DEF FinishPristine, Idle
<1>5. CallFits(p)'
  BY SMTT(30), <1>1, <1>2, <1>3, <1>4 DEF Out, CallFits, Idle, Mode
<1>6. RowFits(b)'
  BY <1>1, <1>2, <1>3, <1>4, BatchTypes DEF FinishPristine, RowFits, Batch
<1>7. Leads(b)
  BY <1>1, PageLeads DEF BatchInvariant, FillersKnow, FinishPristine, Bound, Mode
<1>8. /\ row.state # "free" /\ row.fields = batch[b].fields /\ row.lease = batch[b].lease
      /\ row.touched > 0 => batch[b].touched > 0 \/ Mode(p) = "touching"
      /\ r.pc \notin {"entered", "fresh", "clearing", "parking"}
      /\ r.pc # "out" => r.lease = filler[p].lease /\ r.fields = filler[p].fields
      /\ r.pc # "touching"
      /\ granted' = granted \cup {filler[p].fields} /\ row.state = "failed_no_effect"
  BY <1>1, <1>2 DEF FinishPristine, Finishes, Leave, Out, Bound, Mode, Batch, Begun, FillerRow, BatchRow
<1>9. BusyStep(p, b, r, row)
  BY <1>2, <1>3, <1>5, <1>6, <1>7, <1>8 DEF BusyStep
<1> QED BY <1>1, <1>4, <1>9, FillerKeeps

\* A batch ends without an effect, after what it wrote was looked for.
LEMMA KeepsFinishCleared ==
  ASSUME BatchInvariant, NEW p \in Processes, FinishCleared(p)
  PROVE  BatchInvariant'
<1>1. PICK b \in Batches :
        /\ b = filler[p].batch /\ Begun(b) /\ batch[b].state = "started"
        /\ batch[b].fields = filler[p].fields /\ batch[b].lease = filler[p].lease
        /\ CallFits(p) /\ RowFits(b) /\ filler[p] \in FillerRow /\ batch[b] \in BatchRow
  BY CallsBatch DEF FinishCleared, Idle
<1>2. PICK r \in FillerRow, row \in BatchRow :
        /\ r = Out
        /\ row = [batch[b] EXCEPT !.state = "failed_no_effect", !.result = 0]
        /\ filler' = [filler EXCEPT ![p] = r] /\ batch' = [batch EXCEPT ![b] = row]
  <2> DEFINE r == Out
  <2> DEFINE row == [batch[b] EXCEPT !.state = "failed_no_effect", !.result = 0]
  <2>0. /\ filler[p].effects + 1 \in Nat /\ batch[b].touched + 1 \in Nat
        /\ filler[p].epoch + (IF filler[p].effects > 0 THEN 1 ELSE 0) \in Nat
    BY <1>1 DEF FillerRow, BatchRow
  <2>1. r \in FillerRow /\ row \in BatchRow
    BY <1>1, <2>0 DEF Out, FillerRow, BatchRow, BatchStates
  <2>2. filler' = [filler EXCEPT ![p] = r] /\ batch' = [batch EXCEPT ![b] = row]
    BY <1>1, BatchTypes DEF FinishCleared, Finishes, Leave, Out, Batch
  <2> QED BY <2>1, <2>2
<1>3. TabMoves /\ tab'.lease = tab.lease /\ (tab'.holder = tab.holder \/ (tab.holder = p /\ r.pc = "out"))
  BY <1>2, BatchTypes DEF FinishCleared, Finishes, Leave, Out, TabMoves
<1>4. filler'[p] = r /\ batch'[b] = row /\ Mode(p) \notin Idle
  BY <1>2, BatchTypes DEF FinishCleared, Idle
<1>5. CallFits(p)'
  BY SMTT(30), <1>1, <1>2, <1>3, <1>4 DEF Out, CallFits, Idle, Mode
<1>6. RowFits(b)'
  BY <1>1, <1>2, <1>3, <1>4, BatchTypes DEF FinishCleared, CallFits, RowFits, Batch
<1>7. Leads(b)
  BY <1>1 DEF BatchInvariant, WritersLead, FinishCleared, Mode
<1>8. /\ row.state # "free" /\ row.fields = batch[b].fields /\ row.lease = batch[b].lease
      /\ row.touched > 0 => batch[b].touched > 0 \/ Mode(p) = "touching"
      /\ r.pc \notin {"entered", "fresh", "clearing", "parking"}
      /\ r.pc # "out" => r.lease = filler[p].lease /\ r.fields = filler[p].fields
      /\ r.pc # "touching"
      /\ granted' = granted \cup {filler[p].fields} /\ row.state = "failed_no_effect"
  BY <1>1, <1>2 DEF FinishCleared, Finishes, Leave, Out, Mode, Batch, Begun, FillerRow, BatchRow
<1>9. BusyStep(p, b, r, row)
  BY <1>2, <1>3, <1>5, <1>6, <1>7, <1>8 DEF BusyStep
<1> QED BY <1>1, <1>4, <1>9, FillerKeeps

\* A batch ends with an unknown effect, at a failure.
LEMMA KeepsFinishInterrupted ==
  ASSUME BatchInvariant, NEW p \in Processes, FinishInterrupted(p)
  PROVE  BatchInvariant'
<1>1. PICK b \in Batches :
        /\ b = filler[p].batch /\ Begun(b) /\ batch[b].state = "started"
        /\ batch[b].fields = filler[p].fields /\ batch[b].lease = filler[p].lease
        /\ CallFits(p) /\ RowFits(b) /\ filler[p] \in FillerRow /\ batch[b] \in BatchRow
  BY CallsBatch DEF FinishInterrupted, Idle
<1>2. PICK r \in FillerRow, row \in BatchRow :
        /\ r = Out
        /\ row = [batch[b] EXCEPT !.state = "parked_side_effect_unknown", !.result = 0]
        /\ filler' = [filler EXCEPT ![p] = r] /\ batch' = [batch EXCEPT ![b] = row]
  <2> DEFINE r == Out
  <2> DEFINE row == [batch[b] EXCEPT !.state = "parked_side_effect_unknown", !.result = 0]
  <2>0. /\ filler[p].effects + 1 \in Nat /\ batch[b].touched + 1 \in Nat
        /\ filler[p].epoch + (IF filler[p].effects > 0 THEN 1 ELSE 0) \in Nat
    BY <1>1 DEF FillerRow, BatchRow
  <2>1. r \in FillerRow /\ row \in BatchRow
    BY <1>1, <2>0 DEF Out, FillerRow, BatchRow, BatchStates
  <2>2. filler' = [filler EXCEPT ![p] = r] /\ batch' = [batch EXCEPT ![b] = row]
    BY <1>1, BatchTypes DEF FinishInterrupted, Finishes, Leave, Out, Batch
  <2> QED BY <2>1, <2>2
<1>3. TabMoves /\ tab'.lease = tab.lease /\ (tab'.holder = tab.holder \/ (tab.holder = p /\ r.pc = "out"))
  BY <1>2, BatchTypes DEF FinishInterrupted, Finishes, Leave, Out, TabMoves
<1>4. filler'[p] = r /\ batch'[b] = row /\ Mode(p) \notin Idle
  BY <1>2, BatchTypes DEF FinishInterrupted, Idle
<1>5. CallFits(p)'
  BY SMTT(30), <1>1, <1>2, <1>3, <1>4 DEF Out, CallFits, Idle, Mode
<1>6. RowFits(b)'
  BY <1>1, <1>2, <1>3, <1>4, BatchTypes DEF RowFits
<1>8. /\ row.state # "free" /\ row.fields = batch[b].fields /\ row.lease = batch[b].lease
      /\ row.touched > 0 => batch[b].touched > 0 \/ Mode(p) = "touching"
      /\ r.pc \notin {"entered", "fresh", "clearing", "parking"}
      /\ r.pc # "out" => r.lease = filler[p].lease /\ r.fields = filler[p].fields
      /\ r.pc # "touching"
      /\ granted' = granted
  BY <1>1, <1>2 DEF FinishInterrupted, Finishes, Leave, Out, Mode, Batch, Begun, FillerRow, BatchRow
<1>9. BusyStep(p, b, r, row)
  BY <1>2, <1>3, <1>5, <1>6, <1>8 DEF BusyStep
<1> QED BY <1>1, <1>4, <1>9, FillerKeeps

\* A batch ends with an unknown effect, after a search.
LEMMA KeepsFinishParked ==
  ASSUME BatchInvariant, NEW p \in Processes, FinishParked(p)
  PROVE  BatchInvariant'
<1>1. PICK b \in Batches :
        /\ b = filler[p].batch /\ Begun(b) /\ batch[b].state = "started"
        /\ batch[b].fields = filler[p].fields /\ batch[b].lease = filler[p].lease
        /\ CallFits(p) /\ RowFits(b) /\ filler[p] \in FillerRow /\ batch[b] \in BatchRow
  BY CallsBatch DEF FinishParked, Idle
<1>2. PICK r \in FillerRow, row \in BatchRow :
        /\ r = Out
        /\ row = [batch[b] EXCEPT !.state = IF filler[p].effects > 0 THEN "parked_stale_after_effect" ELSE "parked_side_effect_unknown", !.result = 0]
        /\ filler' = [filler EXCEPT ![p] = r] /\ batch' = [batch EXCEPT ![b] = row]
  <2> DEFINE r == Out
  <2> DEFINE row == [batch[b] EXCEPT !.state = IF filler[p].effects > 0 THEN "parked_stale_after_effect" ELSE "parked_side_effect_unknown", !.result = 0]
  <2>0. /\ filler[p].effects + 1 \in Nat /\ batch[b].touched + 1 \in Nat
        /\ filler[p].epoch + (IF filler[p].effects > 0 THEN 1 ELSE 0) \in Nat
    BY <1>1 DEF FillerRow, BatchRow
  <2>1. r \in FillerRow /\ row \in BatchRow
    BY <1>1, <2>0 DEF Out, FillerRow, BatchRow, BatchStates
  <2>2. filler' = [filler EXCEPT ![p] = r] /\ batch' = [batch EXCEPT ![b] = row]
    BY <1>1, BatchTypes DEF FinishParked, Finishes, Leave, Out, Batch
  <2> QED BY <2>1, <2>2
<1>3. TabMoves /\ tab'.lease = tab.lease /\ (tab'.holder = tab.holder \/ (tab.holder = p /\ r.pc = "out"))
  BY <1>2, BatchTypes DEF FinishParked, Finishes, Leave, Out, TabMoves
<1>4. filler'[p] = r /\ batch'[b] = row /\ Mode(p) \notin Idle
  BY <1>2, BatchTypes DEF FinishParked, Idle
<1>5. CallFits(p)'
  BY SMTT(30), <1>1, <1>2, <1>3, <1>4 DEF Out, CallFits, Idle, Mode
<1>6. RowFits(b)'
  BY <1>1, <1>2, <1>3, <1>4, BatchTypes DEF RowFits
<1>8. /\ row.state # "free" /\ row.fields = batch[b].fields /\ row.lease = batch[b].lease
      /\ row.touched > 0 => batch[b].touched > 0 \/ Mode(p) = "touching"
      /\ r.pc \notin {"entered", "fresh", "clearing", "parking"}
      /\ r.pc # "out" => r.lease = filler[p].lease /\ r.fields = filler[p].fields
      /\ r.pc # "touching"
      /\ granted' = granted
  BY <1>1, <1>2 DEF FinishParked, Finishes, Leave, Out, Mode, Batch, Begun, FillerRow, BatchRow
<1>9. BusyStep(p, b, r, row)
  BY <1>2, <1>3, <1>5, <1>6, <1>8 DEF BusyStep
<1> QED BY <1>1, <1>4, <1>9, FillerKeeps

\* The next control is validated.
LEMMA KeepsValidateControl ==
  ASSUME BatchInvariant, NEW p \in Processes, ValidateControl(p)
  PROVE  BatchInvariant'
<1>1. PICK b \in Batches :
        /\ b = filler[p].batch /\ Begun(b) /\ batch[b].state = "started"
        /\ batch[b].fields = filler[p].fields /\ batch[b].lease = filler[p].lease
        /\ CallFits(p) /\ RowFits(b) /\ filler[p] \in FillerRow /\ batch[b] \in BatchRow
  BY CallsBatch DEF ValidateControl, Idle
<1>2. PICK r \in FillerRow, row \in BatchRow :
        /\ \/ r = [filler[p] EXCEPT !.pc = "failed"]
           \/ r = [filler[p] EXCEPT !.left = filler[p].left - 1]
           \/ r = [filler[p] EXCEPT !.pc = "touching"] /\ Bound(p)
        /\ row = batch[b]
        /\ filler' = [filler EXCEPT ![p] = r] /\ batch' = [batch EXCEPT ![b] = row]
  <2>1. batch' = [batch EXCEPT ![b] = batch[b]] /\ filler[p].left \in Nat
    BY <1>1, BatchTypes DEF ValidateControl, FillerRow
  <2>2. CASE Moves(p, "failed")
    <3> DEFINE r == [filler[p] EXCEPT !.pc = "failed"]
    <3>1. r \in FillerRow
      BY <1>1 DEF FillerRow
    <3>2. filler' = [filler EXCEPT ![p] = r]
      BY <2>2, BatchTypes DEF Moves
    <3> QED BY <1>1, <2>1, <3>1, <3>2
  <2>3. CASE filler' = [filler EXCEPT ![p].left = @ - 1]
    <3> DEFINE r == [filler[p] EXCEPT !.left = filler[p].left - 1]
    <3>1. filler[p].left - 1 \in Nat
      BY <2>1 DEF ValidateControl
    <3>2. r \in FillerRow
      BY <1>1, <3>1 DEF FillerRow
    <3>3. filler' = [filler EXCEPT ![p] = r]
      BY <2>3, BatchTypes
    <3> QED BY <1>1, <2>1, <3>2, <3>3
  <2>4. CASE Bound(p) /\ Moves(p, "touching")
    <3> DEFINE r == [filler[p] EXCEPT !.pc = "touching"]
    <3>1. r \in FillerRow
      BY <1>1 DEF FillerRow
    <3>2. filler' = [filler EXCEPT ![p] = r]
      BY <2>4, BatchTypes DEF Moves
    <3> QED BY <1>1, <2>1, <2>4, <3>1, <3>2
  <2> QED BY <2>2, <2>3, <2>4 DEF ValidateControl
<1>3. TabMoves /\ tab'.lease = tab.lease /\ (tab'.holder = tab.holder \/ (tab.holder = p /\ r.pc = "out"))
  BY <1>2, BatchTypes DEF ValidateControl, Moves, TabMoves
<1>4. filler'[p] = r /\ batch'[b] = row /\ Mode(p) \notin Idle
  BY <1>2, BatchTypes DEF ValidateControl, Idle
<1>5. CallFits(p)'
  BY SMTT(30), <1>1, <1>2, <1>3, <1>4 DEF ValidateControl, CallFits, Mode, Batch, FillerRow
<1>6. RowFits(b)'
  BY <1>1, <1>2, <1>3, <1>4, BatchTypes DEF RowFits
<1>7. r.pc = "touching" => r.batch = b /\ Leads(b)
  <2>1. CASE r = [filler[p] EXCEPT !.pc = "touching"] /\ Bound(p)
    BY <1>1, <2>1, PageLeads DEF ValidateControl, Bound, Mode, FillerRow
  <2>2. CASE r.pc # "touching"
    BY <2>2
  <2>3. filler[p].pc = "filling"
    BY DEF ValidateControl, Mode
  <2> QED BY <1>1, <1>2, <2>1, <2>2, <2>3 DEF FillerRow
<1>8. /\ row.state # "free" /\ row.fields = batch[b].fields /\ row.lease = batch[b].lease
      /\ row.touched > 0 => batch[b].touched > 0 \/ Mode(p) = "touching"
      /\ r.pc \notin {"entered", "fresh", "clearing", "parking"}
      /\ r.pc # "out" => r.lease = filler[p].lease /\ r.fields = filler[p].fields
      /\ granted' = granted
  BY <1>1, <1>2 DEF ValidateControl, Moves, Mode, Batch, Begun, FillerRow, BatchRow
<1>9. BusyStep(p, b, r, row)
  BY <1>2, <1>3, <1>5, <1>6, <1>7, <1>8 DEF BusyStep
<1> QED BY <1>1, <1>4, <1>9, FillerKeeps

\* A control may have been written when its write fails.
LEMMA KeepsPerformFails ==
  ASSUME BatchInvariant, NEW p \in Processes, PerformFails(p)
  PROVE  BatchInvariant'
<1>1. PICK b \in Batches :
        /\ b = filler[p].batch /\ Begun(b) /\ batch[b].state = "started"
        /\ batch[b].fields = filler[p].fields /\ batch[b].lease = filler[p].lease
        /\ CallFits(p) /\ RowFits(b) /\ filler[p] \in FillerRow /\ batch[b] \in BatchRow
  BY CallsBatch DEF PerformFails, Idle
<1>2. PICK r \in FillerRow, row \in BatchRow :
        /\ r = [filler[p] EXCEPT !.pc = "failed"]
        /\ row \in {batch[b], [batch[b] EXCEPT !.touched = batch[b].touched + 1]}
        /\ filler' = [filler EXCEPT ![p] = r] /\ batch' = [batch EXCEPT ![b] = row]
  <2> DEFINE r == [filler[p] EXCEPT !.pc = "failed"]
  <2>1. r \in FillerRow /\ filler' = [filler EXCEPT ![p] = r]
    BY <1>1, BatchTypes DEF PerformFails, Moves, FillerRow
  <2>2. batch[b].touched \in Nat
    BY <1>1 DEF BatchRow
  <2>3. PICK wrote \in {0, 1} : batch' = [batch EXCEPT ![b].touched = @ + wrote]
    BY <1>1 DEF PerformFails, Batch
  <2>4. CASE wrote = 0
    <3>1. batch[b] = [batch[b] EXCEPT !.touched = batch[b].touched + 0]
      BY <1>1, <2>2 DEF BatchRow
    <3>2. batch' = [batch EXCEPT ![b] = batch[b]]
      BY <2>3, <2>4, <3>1, BatchTypes
    <3> QED BY <1>1, <2>1, <3>2
  <2>5. CASE wrote = 1
    <3> DEFINE row == [batch[b] EXCEPT !.touched = batch[b].touched + 1]
    <3>1. row \in BatchRow
      BY <1>1, <2>2 DEF BatchRow
    <3>2. batch' = [batch EXCEPT ![b] = row]
      BY <2>3, <2>5, BatchTypes
    <3> QED BY <1>1, <2>1, <3>1, <3>2
  <2> QED BY <2>4, <2>5
<1>3. TabMoves /\ tab'.lease = tab.lease /\ (tab'.holder = tab.holder \/ (tab.holder = p /\ r.pc = "out"))
  BY <1>2, BatchTypes DEF PerformFails, Moves, TabMoves
<1>4. filler'[p] = r /\ batch'[b] = row /\ Mode(p) \notin Idle
  BY <1>2, BatchTypes DEF PerformFails, Idle
<1>5. CallFits(p)'
  BY SMTT(30), <1>1, <1>2, <1>3, <1>4 DEF PerformFails, CallFits, Mode, Batch, FillerRow
<1>6. RowFits(b)'
  BY <1>1, <1>2, <1>3, <1>4, BatchTypes DEF PerformFails, CallFits, RowFits
<1>8. /\ row.state # "free" /\ row.fields = batch[b].fields /\ row.lease = batch[b].lease
      /\ row.touched > 0 => batch[b].touched > 0 \/ Mode(p) = "touching"
      /\ r.pc \notin {"entered", "fresh", "clearing", "parking"}
      /\ r.pc # "out" => r.lease = filler[p].lease /\ r.fields = filler[p].fields
      /\ r.pc # "touching"
      /\ granted' = granted
  BY <1>1, <1>2 DEF PerformFails, Moves, Mode, Batch, Begun, FillerRow, BatchRow
<1>9. BusyStep(p, b, r, row)
  BY <1>2, <1>3, <1>5, <1>6, <1>8 DEF BusyStep
<1> QED BY <1>1, <1>4, <1>9, FillerKeeps

\* The write of a control is journalled.
LEMMA KeepsNoteEffect ==
  ASSUME BatchInvariant, NEW p \in Processes, NoteEffect(p)
  PROVE  BatchInvariant'
<1>1. PICK b \in Batches :
        /\ b = filler[p].batch /\ Begun(b) /\ batch[b].state = "started"
        /\ batch[b].fields = filler[p].fields /\ batch[b].lease = filler[p].lease
        /\ CallFits(p) /\ RowFits(b) /\ filler[p] \in FillerRow /\ batch[b] \in BatchRow
  BY CallsBatch DEF NoteEffect, Idle
<1>2. PICK r \in FillerRow, row \in BatchRow :
        /\ \/ r = [filler[p] EXCEPT !.pc = "failed"]
           \/ r = [filler[p] EXCEPT !.pc = "filling", !.left = filler[p].left - 1]
        /\ row = [batch[b] EXCEPT !.effects = batch[b].effects + 1]
        /\ filler' = [filler EXCEPT ![p] = r] /\ batch' = [batch EXCEPT ![b] = row]
  <2>1. /\ batch[b].dispatched /\ batch[b].effects + 1 = filler[p].effects /\ filler[p].left > 0
        /\ filler[p].left \in Nat /\ batch[b].effects \in Nat
    BY <1>1 DEF NoteEffect, CallFits, Mode, Batch, Idle, FillerRow, BatchRow
  <2>2. batch[b].effects = filler[p].effects - 1
    BY <2>1
  <2> DEFINE row == [batch[b] EXCEPT !.effects = batch[b].effects + 1]
  <2>3. row \in BatchRow
    BY <1>1, <2>1 DEF BatchRow
  <2>4. batch' = [batch EXCEPT ![b] = row]
    BY <1>1, <2>1, <2>2, BatchTypes DEF NoteEffect, Batch
  <2>5. CASE Moves(p, "failed")
    <3> DEFINE r == [filler[p] EXCEPT !.pc = "failed"]
    <3>1. r \in FillerRow
      BY <1>1 DEF FillerRow
    <3>2. filler' = [filler EXCEPT ![p] = r]
      BY <2>5, BatchTypes DEF Moves
    <3> QED BY <1>1, <2>3, <2>4, <3>1, <3>2
  <2>6. CASE filler' = [filler EXCEPT ![p].pc = "filling", ![p].left = @ - 1]
    <3> DEFINE r == [filler[p] EXCEPT !.pc = "filling", !.left = filler[p].left - 1]
    <3>1. filler[p].left - 1 \in Nat
      BY <2>1
    <3>2. r \in FillerRow
      BY <1>1, <3>1 DEF FillerRow
    <3>3. filler' = [filler EXCEPT ![p] = r]
      BY <2>6, BatchTypes
    <3> QED BY <1>1, <2>3, <2>4, <3>2, <3>3
  <2> QED BY <2>5, <2>6 DEF NoteEffect
<1>3. TabMoves /\ tab'.lease = tab.lease /\ (tab'.holder = tab.holder \/ (tab.holder = p /\ r.pc = "out"))
  BY <1>2, BatchTypes DEF NoteEffect, Moves, Bound, TabMoves
<1>4. filler'[p] = r /\ batch'[b] = row /\ Mode(p) \notin Idle
  BY <1>2, BatchTypes DEF NoteEffect, Idle
<1>5. CallFits(p)'
  <2>1. /\ batch[b].touched = filler[p].effects /\ batch[b].effects + 1 = filler[p].effects
        /\ batch[b].epoch = filler[p].epoch /\ batch[b].dispatched
    BY <1>1 DEF NoteEffect, CallFits, Mode, Batch, Idle
  <2>2. /\ r.pc \in {"failed", "filling"} /\ r.effects = filler[p].effects /\ r.batch = b
        /\ r.fields = filler[p].fields /\ r.lease = filler[p].lease /\ r.epoch = filler[p].epoch
    BY ZenonT(60), <1>1, <1>2 DEF FillerRow
  <2>3. /\ row.touched = batch[b].touched /\ row.effects = batch[b].effects + 1 /\ row.state = "started"
        /\ row.fields = batch[b].fields /\ row.lease = batch[b].lease /\ row.epoch = batch[b].epoch
        /\ row.dispatched = batch[b].dispatched
    BY <1>1, <1>2 DEF BatchRow
  <2>4. /\ row.touched = r.effects /\ row.effects = r.effects /\ row.fields = r.fields
        /\ row.lease = r.lease /\ row.epoch = r.epoch /\ row.dispatched /\ row.state = "started"
    BY <1>1, <2>1, <2>2, <2>3
  <2>5. filler'[p].batch = b
    BY <1>4, <2>2
  <2> QED BY <1>4, <2>2, <2>4, <2>5 DEF CallFits, Mode, Batch, Idle
<1>6. RowFits(b)'
  BY SMTT(30), <1>1, <1>2, <1>3, <1>4, BatchTypes DEF NoteEffect, Moves, Bound, CallFits, RowFits, Idle, Mode, Batch, Begun, FillerRow
<1>8. /\ row.state # "free" /\ row.fields = batch[b].fields /\ row.lease = batch[b].lease
      /\ row.touched > 0 => batch[b].touched > 0 \/ Mode(p) = "touching"
      /\ r.pc \notin {"entered", "fresh", "clearing", "parking"}
      /\ r.pc # "out" => r.lease = filler[p].lease /\ r.fields = filler[p].fields
      /\ r.pc # "touching"
      /\ granted' = granted
  BY ZenonT(60), <1>1, <1>2 DEF NoteEffect, Moves, Bound, Mode, Batch, Begun, FillerRow, BatchRow
<1>9. BusyStep(p, b, r, row)
  BY <1>2, <1>3, <1>5, <1>6, <1>8 DEF BusyStep
<1> QED BY <1>1, <1>4, <1>9, FillerKeeps

\* The page moves on, or its holder finds that it lost it.
LEMMA KeepsAdvanceTab ==
  ASSUME BatchInvariant, NEW p \in Processes, AdvanceTab(p)
  PROVE  BatchInvariant'
<1>1. PICK b \in Batches :
        /\ b = filler[p].batch /\ Begun(b) /\ batch[b].state = "started"
        /\ batch[b].fields = filler[p].fields /\ batch[b].lease = filler[p].lease
        /\ CallFits(p) /\ RowFits(b) /\ filler[p] \in FillerRow /\ batch[b] \in BatchRow
  BY CallsBatch DEF AdvanceTab, Idle
<1>2. PICK r \in FillerRow, row \in BatchRow :
        /\ \/ r = [filler[p] EXCEPT !.pc = "failed"]
           \/ /\ r = [filler[p] EXCEPT !.pc = "filled"]
              /\ \/ filler[p].effects = 0
                 \/ Bound(p) /\ tab' = [tab EXCEPT !.epoch = tab.epoch + 1]
        /\ row = batch[b]
        /\ filler' = [filler EXCEPT ![p] = r] /\ batch' = [batch EXCEPT ![b] = row]
  <2>1. batch' = [batch EXCEPT ![b] = batch[b]]
    BY <1>1, BatchTypes DEF AdvanceTab
  <2>2. CASE Moves(p, "failed")
    <3> DEFINE r == [filler[p] EXCEPT !.pc = "failed"]
    <3>1. r \in FillerRow
      BY <1>1 DEF FillerRow
    <3>2. filler' = [filler EXCEPT ![p] = r]
      BY <2>2, BatchTypes DEF Moves
    <3> QED BY <1>1, <2>1, <3>1, <3>2
  <2>3. CASE Moves(p, "filled") /\ (filler[p].effects = 0 \/ (Bound(p) /\ tab' = [tab EXCEPT !.epoch = @ + 1]))
    <3> DEFINE r == [filler[p] EXCEPT !.pc = "filled"]
    <3>1. r \in FillerRow
      BY <1>1 DEF FillerRow
    <3>2. filler' = [filler EXCEPT ![p] = r]
      BY <2>3, BatchTypes DEF Moves
    <3> QED BY <1>1, <2>1, <2>3, <3>1, <3>2
  <2> QED BY <2>2, <2>3 DEF AdvanceTab
<1>3. TabMoves /\ tab'.lease = tab.lease /\ (tab'.holder = tab.holder \/ (tab.holder = p /\ r.pc = "out"))
  BY <1>2, BatchTypes DEF AdvanceTab, Moves, Bound, TabMoves
<1>4. filler'[p] = r /\ batch'[b] = row /\ Mode(p) \notin Idle
  BY <1>2, BatchTypes DEF AdvanceTab, Idle
<1>5. CallFits(p)'
  <2>1. /\ batch[b].touched = filler[p].effects /\ batch[b].effects = filler[p].effects
        /\ batch[b].epoch = filler[p].epoch /\ batch[b].dispatched
    BY <1>1 DEF AdvanceTab, CallFits, Mode, Batch, Idle
  <2>2. /\ r.pc \in {"failed", "filled"} /\ r.effects = filler[p].effects /\ r.batch = b
        /\ r.fields = filler[p].fields /\ r.lease = filler[p].lease /\ r.epoch = filler[p].epoch
    BY <1>1, <1>2 DEF FillerRow
  <2>3. row = batch[b]
    BY <1>2
  <2>4. r.pc = "filled" => batch[b].touched = 0 \/ Past(b)'
    <3>1. CASE r.pc = "filled" /\ filler[p].effects # 0
      <4>1. Bound(p) /\ tab' = [tab EXCEPT !.epoch = tab.epoch + 1]
        BY <1>1, <1>2, <3>1 DEF FillerRow
      <4>2. tab'.lease = tab.lease /\ tab'.epoch = tab.epoch + 1 /\ tab.epoch \in Nat
        BY <4>1, BatchTypes
      <4> QED BY <1>1, <1>4, <2>1, <2>3, <4>1, <4>2 DEF Past, Bound
    <3> QED BY <2>1, <3>1
  <2>5. filler'[p].batch = b
    BY <1>4, <2>2
  <2>6. Past(b)' => Past(filler[p].batch)'
    BY <1>1, <2>5 DEF Past
  <2> QED BY <1>1, <1>4, <2>1, <2>2, <2>3, <2>4, <2>5, <2>6 DEF CallFits, Mode, Batch, Idle
<1>6. RowFits(b)'
  BY <1>1, <1>2, <1>3, <1>4, BatchTypes DEF RowFits
<1>8. /\ row.state # "free" /\ row.fields = batch[b].fields /\ row.lease = batch[b].lease
      /\ row.touched > 0 => batch[b].touched > 0 \/ Mode(p) = "touching"
      /\ r.pc \notin {"entered", "fresh", "clearing", "parking"}
      /\ r.pc # "out" => r.lease = filler[p].lease /\ r.fields = filler[p].fields
      /\ r.pc # "touching"
      /\ granted' = granted
  BY <1>1, <1>2 DEF AdvanceTab, Moves, Bound, Mode, Batch, Begun, FillerRow, BatchRow
<1>9. BusyStep(p, b, r, row)
  BY <1>2, <1>3, <1>5, <1>6, <1>8 DEF BusyStep
<1> QED BY <1>1, <1>4, <1>9, FillerKeeps

\* A call that ends and leaves the batches as they are.
LEMMA EndKeeps ==
  ASSUME BatchInvariant, NEW p \in Processes, Mode(p) # "out", Leave(p), batch' = batch, TabMoves,
         tab'.lease = tab.lease, tab'.holder = tab.holder \/ tab.holder = p,
         granted' # granted =>
           /\ granted' = granted \cup {filler[p].fields}
           /\ \E b \in Batches : /\ batch[b].fields = filler[p].fields
                                 /\ batch[b].state = "failed_no_effect" /\ Leads(b)
  PROVE  BatchInvariant'
<1>1. Out \in FillerRow /\ Out.pc = "out" /\ Out.effects = 0
  BY DEF Out, FillerRow
<1>2. /\ filler' \in [Processes -> FillerRow] /\ filler'[p] = Out
      /\ \A q \in Processes : q # p => filler'[q] = filler[q]
  BY <1>1, BatchTypes DEF Leave
<1>3. OwnStep(p)
  BY <1>2, BatchTypes DEF OwnStep, Begun
<1>4. Quiet(p) /\ Departs(p)
  BY <1>1, <1>2 DEF Quiet, Departs, Begun
<1>5. CallFits(p)'
  BY <1>1, <1>2 DEF CallFits, Mode, Idle
<1>6. granted' \subseteq FieldSets
  BY BatchTypes DEF BatchInvariant, FillersKnow
<1> QED BY <1>1, <1>2, <1>3, <1>4, <1>5, <1>6, QuietKeeps

\* A call finds a batch that is not its own.
LEMMA KeepsFindsOther ==
  ASSUME BatchInvariant, NEW p \in Processes, FindsOther(p)
  PROVE  BatchInvariant'
BY EndKeeps, BatchTypes DEF FindsOther, TabMoves, Mode

\* A call finds a batch without an effect, and leaves the fields to the agent.
LEMMA KeepsFindsNoEffect ==
  ASSUME BatchInvariant, NEW p \in Processes, FindsNoEffect(p)
  PROVE  BatchInvariant'
<1>1. PICK b \in Batches : IsPrior(p, b) /\ SameAuthority(p, b) /\ batch[b].state = "failed_no_effect"
  BY DEF FindsNoEffect
<1>2. Begun(b) /\ batch[b].fields = filler[p].fields /\ batch[b].lease = filler[p].lease
  BY <1>1 DEF IsPrior, Priors, SameAuthority, Begun
<1>3. Leads(b)
  BY <1>2 DEF FindsNoEffect, BatchInvariant, WritersLead, Mode
<1>4. TabMoves
  BY BatchTypes DEF FindsNoEffect, TabMoves
<1> QED BY <1>1, <1>2, <1>3, <1>4, EndKeeps DEF FindsNoEffect, Mode

\* A call breaks.
LEMMA KeepsCallBreaks ==
  ASSUME BatchInvariant, NEW p \in Processes, CallBreaks(p)
  PROVE  BatchInvariant'
<1>1. TabMoves /\ tab'.lease = tab.lease /\ (tab'.holder = tab.holder \/ tab.holder = p)
  BY BatchTypes DEF CallBreaks, TabMoves
<1> QED BY <1>1, EndKeeps DEF CallBreaks

\* A call takes up a batch that another one left.
LEMMA KeepsFindsStarted ==
  ASSUME BatchInvariant, NEW p \in Processes, FindsStarted(p)
  PROVE  BatchInvariant'
<1>1. PICK b \in Batches :
        /\ IsPrior(p, b) /\ SameAuthority(p, b) /\ batch[b].state = "started"
        /\ batch' = [batch EXCEPT ![b].dispatched = TRUE]
        /\ filler' = [filler EXCEPT ![p] = [@ EXCEPT
             !.pc = IF batch[b].dispatched THEN "parking" ELSE "clearing",
             !.batch = b, !.effects = batch[b].effects]]
  BY DEF FindsStarted
<1>2. /\ Mode(p) = "entered" /\ filler[p] \in FillerRow /\ batch[b] \in BatchRow
      /\ Begun(b) /\ batch[b].fields = filler[p].fields /\ batch[b].lease = filler[p].lease
      /\ RowFits(b) /\ tab' = tab /\ granted' = granted
  BY <1>1, BatchTypes DEF FindsStarted, IsPrior, Priors, SameAuthority, Begun, BatchInvariant, RowsFit
<1> DEFINE row == [batch[b] EXCEPT !.dispatched = TRUE]
           r == [filler[p] EXCEPT !.pc = IF batch[b].dispatched THEN "parking" ELSE "clearing",
                                  !.batch = b, !.effects = batch[b].effects]
<1>3. row \in BatchRow /\ r \in FillerRow
  BY <1>2 DEF FillerRow, BatchRow
<1>4. /\ filler' \in [Processes -> FillerRow] /\ batch' \in [Batches -> BatchRow]
      /\ filler'[p] = r /\ batch'[b] = row
      /\ \A q \in Processes : q # p => filler'[q] = filler[q]
      /\ \A c \in Batches : c # b => batch'[c] = batch[c]
  BY <1>1, <1>3, BatchTypes
<1>5. /\ row.state = "started" /\ row.fields = batch[b].fields /\ row.lease = batch[b].lease
      /\ row.touched = batch[b].touched /\ row.effects = batch[b].effects /\ row.dispatched
      /\ r.pc \in {"clearing", "parking"} /\ r.fields = filler[p].fields /\ r.lease = filler[p].lease
      /\ r.batch = b /\ (r.pc = "clearing" => ~batch[b].dispatched)
  BY <1>1, <1>2 DEF FillerRow, BatchRow
<1>6. OwnStep(p) /\ Quiet(p) /\ Departs(p) /\ TabMoves
  BY <1>1, <1>2, <1>4, <1>5, BatchTypes DEF OwnStep, Quiet, Departs, TabMoves, Begun, Mode
<1>7. CallFits(p)'
  <2>1. r.pc = "clearing" => batch[b].touched = 0
    BY <1>2, <1>5 DEF RowFits
  <2>2. filler'[p].batch = b /\ row.fields = r.fields /\ row.lease = r.lease
    BY <1>2, <1>4, <1>5
  <2> QED BY <1>4, <1>5, <2>1, <2>2 DEF CallFits, Mode, Batch, Idle
<1>8. RowFits(b)'
  BY <1>2, <1>4, <1>5 DEF RowFits, Begun
<1>9. \A c \in Batches : batch'[c] = batch[c] \/ RowFits(c)'
  BY <1>4, <1>8
<1> QED BY <1>2, <1>4, <1>5, <1>6, <1>7, <1>9, BatchTypes, QuietKeeps DEF Mode

\* A call finds no batch.
LEMMA KeepsFindsNone ==
  ASSUME BatchInvariant, NEW p \in Processes, FindsNone(p)
  PROVE  BatchInvariant'
<1> DEFINE r == [filler[p] EXCEPT !.pc = "fresh"]
<1>1. /\ Mode(p) = "entered" /\ filler[p] \in FillerRow /\ batch' = batch /\ tab' = tab /\ granted' = granted
      /\ \A b \in Batches : Begun(b) => batch[b].fields # filler[p].fields
  BY BatchTypes DEF FindsNone, Priors, Begun
<1>2. r \in FillerRow
  BY <1>1 DEF FillerRow
<1>3. /\ filler' \in [Processes -> FillerRow] /\ filler'[p] = r
      /\ \A q \in Processes : q # p => filler'[q] = filler[q]
  BY <1>2, BatchTypes DEF FindsNone, Moves
<1>4. /\ r.pc = "fresh" /\ r.fields = filler[p].fields /\ r.lease = filler[p].lease
      /\ r.effects = filler[p].effects
  BY <1>1 DEF FillerRow
<1>5. OwnStep(p) /\ Departs(p) /\ TabMoves
  BY <1>1, <1>3, <1>4, BatchTypes DEF OwnStep, Departs, TabMoves, Begun, Mode
<1>6. CallFits(p)'
  BY <1>1, <1>3, <1>4 DEF BatchInvariant, CallsFit, CallFits, Mode, Idle
<1>7. ASSUME NEW b \in Batches, Leads(b) PROVE Leads(b)'
  <2>1. filler'[p].fields # batch[b].fields
    BY <1>1, <1>3, <1>4, <1>7 DEF Leads
  <2>2. \A q \in Processes : filler'[q].pc = "fresh" /\ filler'[q].fields = batch[b].fields =>
          filler[q].pc = "fresh" /\ filler'[q] = filler[q]
    BY <1>3, <2>1
  <2> QED BY <1>1, <1>7, <2>2 DEF Leads, Begun, Mode
<1>8. LeasesApart'
  <2>1. \A q \in Processes, b \in Batches :
          filler'[q].pc = "fresh" /\ Begun(b) /\ batch[b].fields = filler'[q].fields =>
            filler[q].pc = "fresh" /\ filler'[q] = filler[q]
    BY ZenonT(60), <1>1, <1>3, <1>4
  <2> QED BY <1>1, <2>1 DEF BatchInvariant, LeasesApart, Begun, Mode
<1>9. Leading(p)
  BY <1>3, <1>4, <1>7 DEF Leading
<1> QED BY <1>1, <1>3, <1>4, <1>5, <1>6, <1>8, <1>9, BatchTypes, FillersStay, StepKeeps

\* A batch is begun.
LEMMA KeepsBeginBatch ==
  ASSUME BatchInvariant, NEW p \in Processes, BeginBatch(p)
  PROVE  BatchInvariant'
<1>1. PICK b \in Batches :
        /\ \A c \in Batches : (batch[c].state = "free") <=> (b <= c)
        /\ batch' = [batch EXCEPT ![b] = [@ EXCEPT !.state = "started",
             !.fields = filler[p].fields, !.lease = filler[p].lease, !.epoch = filler[p].epoch]]
        /\ filler' = [filler EXCEPT ![p] = [@ EXCEPT !.pc = "begun", !.batch = b]]
  BY DEF BeginBatch
<1>2. /\ Mode(p) = "fresh" /\ filler[p] \in FillerRow /\ batch[b] \in BatchRow
      /\ ~Begun(b) /\ RowFits(b) /\ CallFits(p) /\ tab' = tab /\ granted' = granted
      /\ filler[p].lease <= tab.lease
  <2>1. b <= b
    OBVIOUS
  <2> QED BY <1>1, <2>1, BatchTypes DEF BeginBatch, Begun, BatchInvariant, RowsFit, CallsFit, FillersKnow, Mode
<1> DEFINE row == [batch[b] EXCEPT !.state = "started", !.fields = filler[p].fields,
                                   !.lease = filler[p].lease, !.epoch = filler[p].epoch]
           r == [filler[p] EXCEPT !.pc = "begun", !.batch = b]
<1>3. row \in BatchRow /\ r \in FillerRow
  BY <1>2 DEF FillerRow, BatchRow, BatchStates
<1>4. /\ filler' \in [Processes -> FillerRow] /\ batch' \in [Batches -> BatchRow]
      /\ filler'[p] = r /\ batch'[b] = row
      /\ \A q \in Processes : q # p => filler'[q] = filler[q]
      /\ \A c \in Batches : c # b => batch'[c] = batch[c]
  BY <1>1, <1>3, BatchTypes
<1>5. /\ row.state = "started" /\ row.fields = filler[p].fields /\ row.lease = filler[p].lease
      /\ row.epoch = filler[p].epoch /\ row.touched = batch[b].touched /\ row.effects = batch[b].effects
      /\ row.dispatched = batch[b].dispatched
      /\ r.pc = "begun" /\ r.fields = filler[p].fields /\ r.lease = filler[p].lease
      /\ r.epoch = filler[p].epoch /\ r.effects = filler[p].effects /\ r.batch = b
  BY <1>2 DEF FillerRow, BatchRow
<1> HIDE DEF row, r
<1>6. ~batch[b].dispatched /\ batch[b].touched = 0 /\ batch[b].effects = 0
  BY <1>2 DEF RowFits, Begun
<1>7. OwnStep(p) /\ Departs(p) /\ TabMoves
  <2>1. \A c \in Batches : Begun(c) => batch'[c] = batch[c]
    BY <1>2, <1>4
  <2>2. \A c \in Batches : ~Begun(c) /\ batch'[c].state # "free" => c = b
    BY <1>4 DEF Begun
  <2>3. \A c \in Batches : batch'[c].touched > 0 => batch[c].touched > 0
    BY <1>4, <1>5
  <2>4. batch'[b].lease = filler[p].lease /\ filler[p].pc = "fresh"
    BY <1>2, <1>4, <1>5 DEF Mode
  <2>5. OwnStep(p)
    BY <1>4, <2>1, <2>2, <2>3, <2>4 DEF OwnStep, Begun
  <2> QED BY <1>2, <1>4, <1>5, <2>5, BatchTypes DEF Departs, TabMoves, Mode
<1>8. CallFits(p)'
  <2>1. filler'[p].batch = b /\ row.fields = r.fields /\ row.lease = r.lease /\ row.epoch = r.epoch
    BY <1>4, <1>5
  <2>2. r.effects = 0
    BY <1>2, <1>5 DEF CallFits, Mode
  <2> QED BY <1>4, <1>5, <2>1, <2>2 DEF CallFits, Mode, Batch, Idle
<1>9. RowFits(b)'
  BY <1>2, <1>4, <1>5, <1>6 DEF RowFits, Begun
<1>10. ASSUME NEW c \in Batches, Leads(c) PROVE Leads(c)'
  <2>1. c # b /\ batch'[c] = batch[c]
    BY <1>2, <1>4, <1>10 DEF Leads
  <2>2. batch[c].lease \in Nat /\ filler[p].lease \in Nat
    BY <1>2, BatchTypes DEF FillerRow, BatchRow
  <2>3. row.fields = batch[c].fields => row.lease <= batch[c].lease
    <3>1. filler[p].fields = batch[c].fields => filler[p].lease < batch[c].lease
      BY <1>2, <1>10 DEF Leads
    <3>2. row.fields = filler[p].fields /\ row.lease = filler[p].lease
      BY <1>5
    <3> QED BY <2>2, <3>1, <3>2
  <2>4. \A d \in Batches : batch'[d].state # "free" /\ batch'[d].fields = batch[c].fields =>
          batch'[d].lease <= batch[c].lease
    BY <1>4, <1>10, <2>3 DEF Leads, Begun
  <2>5. \A q \in Processes : filler'[q].pc = "fresh" => filler'[q] = filler[q]
    BY <1>4, <1>5
  <2> QED BY <1>10, <2>1, <2>4, <2>5 DEF Leads, Begun, Mode
<1>11. LeasesApart'
  <2>1. \A c \in Batches : c # b /\ Begun(c) /\ batch[c].fields = row.fields => batch[c].lease # row.lease
    BY <1>2, <1>5 DEF BatchInvariant, LeasesApart
  <2>2. \A q \in Processes : q # p /\ Mode(q) = "fresh" => filler[q].lease # row.lease
    BY <1>2, <1>5 DEF BatchInvariant, FillersKnow
  <2>3. \A q \in Processes : filler'[q].pc = "fresh" => q # p /\ filler'[q] = filler[q]
    BY <1>4, <1>5
  <2>4. \A c, d \in Batches :
          c # d /\ batch'[c].state # "free" /\ batch'[d].state # "free" /\ batch'[c].fields = batch'[d].fields =>
            batch'[c].lease # batch'[d].lease
    <3> SUFFICES ASSUME NEW c \in Batches, NEW d \in Batches, c # d, batch'[c].state # "free",
                        batch'[d].state # "free", batch'[c].fields = batch'[d].fields
                 PROVE  batch'[c].lease # batch'[d].lease
      OBVIOUS
    <3>1. CASE c = b
      <4>1. batch'[c] = row /\ batch'[d] = batch[d]
        BY <1>4, <3>1
      <4> QED BY <2>1, <3>1, <4>1 DEF Begun
    <3>2. CASE d = b
      <4>1. batch'[d] = row /\ batch'[c] = batch[c]
        BY <1>4, <3>2
      <4> QED BY <2>1, <3>2, <4>1 DEF Begun
    <3>3. CASE c # b /\ d # b
      <4>1. batch'[c] = batch[c] /\ batch'[d] = batch[d]
        BY <1>4, <3>3
      <4> QED BY <4>1 DEF BatchInvariant, LeasesApart, Begun
    <3> QED BY <3>1, <3>2, <3>3
  <2>5. \A q \in Processes, c \in Batches :
          filler'[q].pc = "fresh" /\ batch'[c].state # "free" /\ batch'[c].fields = filler'[q].fields =>
            batch'[c].lease # filler'[q].lease
    <3> SUFFICES ASSUME NEW q \in Processes, NEW c \in Batches, filler'[q].pc = "fresh",
                        batch'[c].state # "free", batch'[c].fields = filler'[q].fields
                 PROVE  batch'[c].lease # filler'[q].lease
      OBVIOUS
    <3>1. CASE c = b
      BY <1>4, <2>2, <2>3, <3>1 DEF Mode
    <3>2. CASE c # b
      BY <1>4, <2>3, <3>2 DEF BatchInvariant, LeasesApart, Begun, Mode
    <3> QED BY <3>1, <3>2
  <2> QED BY <2>4, <2>5 DEF LeasesApart, Begun, Mode
<1>12. Leading(p)
  BY <1>4, <1>5, <1>10 DEF Leading
<1>13. \A c \in Batches : batch'[c] = batch[c] \/ RowFits(c)'
  BY <1>4, <1>9
<1> QED BY <1>2, <1>4, <1>5, <1>7, <1>8, <1>11, <1>12, <1>13, BatchTypes, FillersStay, StepKeeps

\* A call begins, bound to the page it holds.
LEMMA KeepsEnter ==
  ASSUME BatchInvariant, NEW p \in Processes, NEW F \in FieldSets, Enter(p, F)
  PROVE  BatchInvariant'
<1> DEFINE r == [Out EXCEPT !.pc = "entered", !.fields = F, !.left = Cardinality(F),
                            !.lease = tab.lease, !.epoch = tab.epoch]
<1>1. /\ Mode(p) = "out" /\ tab.holder = p /\ batch' = batch /\ tab' = tab /\ granted' = granted
  BY DEF Enter
<1>2. r \in FillerRow
  <2>1. Cardinality(F) \in Nat /\ tab.lease \in Nat /\ tab.epoch \in Nat
    BY FieldSetsCounted, BatchTypes
  <2> QED BY <2>1 DEF Out, FillerRow
<1>3. /\ filler' \in [Processes -> FillerRow] /\ filler'[p] = r
      /\ \A q \in Processes : q # p => filler'[q] = filler[q]
  BY <1>2, BatchTypes DEF Enter
<1>4. r.pc = "entered" /\ r.fields = F /\ r.lease = tab.lease /\ r.effects = 0
  BY DEF Out
<1> HIDE DEF r
<1>5. OwnStep(p) /\ Quiet(p) /\ TabMoves
  BY <1>1, <1>3, <1>4, BatchTypes DEF OwnStep, Quiet, TabMoves, Begun, Mode
<1>6. CallFits(p)'
  BY <1>3, <1>4 DEF CallFits, Mode, Idle
<1>7. FillersKnow'
  <2>1. \A q \in Processes : q # p /\ Mode(q) # "out" => filler[q].lease # tab.lease
    BY <1>1 DEF BatchInvariant, FillersKnow
  <2>2. tab.lease \in Nat
    BY BatchTypes
  <2>3. \A q \in Processes : filler[q].pc # "out" => /\ filler[q].fields \in FieldSets
                                                     /\ filler[q].lease <= tab.lease
    BY DEF BatchInvariant, FillersKnow, Mode
  <2>4. ASSUME NEW q \in Processes, filler'[q].pc # "out"
        PROVE  /\ filler'[q].fields \in FieldSets /\ filler'[q].lease <= tab.lease
               /\ filler'[q].lease = tab.lease => q = p
    <3>1. CASE q = p
      <4>1. filler'[q].fields = F /\ filler'[q].lease = tab.lease
        BY <1>3, <1>4, <3>1
      <4> QED BY <2>2, <3>1, <4>1
    <3>2. CASE q # p
      BY <1>3, <2>1, <2>3, <2>4, <3>2 DEF Mode
    <3> QED BY <3>1, <3>2
  <2>5. ASSUME NEW q \in Processes, NEW s \in Processes, q # s, filler'[q].pc # "out", filler'[s].pc # "out"
        PROVE  filler'[q].lease # filler'[s].lease
    <3>1. CASE q = p
      <4>1. filler'[q].lease = tab.lease /\ filler'[s] = filler[s]
        BY <1>3, <1>4, <2>5, <3>1
      <4>2. filler[s].lease # tab.lease
        BY <2>1, <2>5, <3>1, <4>1 DEF Mode
      <4> QED BY <4>1, <4>2
    <3>2. CASE s = p
      BY <1>3, <1>4, <2>4, <2>5, <3>2
    <3>3. CASE q # p /\ s # p
      <4>1. filler'[q] = filler[q] /\ filler'[s] = filler[s]
        BY <1>3, <3>3
      <4> QED BY <2>5, <4>1 DEF BatchInvariant, FillersKnow, Mode
    <3> QED BY <3>1, <3>2, <3>3
  <2> QED BY <1>1, <2>4, <2>5 DEF FillersKnow, Mode
<1>8. \A b \in Batches : Begun(b) /\ batch[b].lease = tab.lease => Leads(b)
  BY <1>1, PageLeads
<1>9. Leading(p)
  BY <1>3, <1>4, <1>5, <1>8, LeadsStay DEF Leading
<1> QED BY <1>1, <1>3, <1>4, <1>5, <1>6, <1>7, <1>9, BatchTypes, LeadsStay, StepKeeps DEF Mode

\* The page is acquired.
LEMMA KeepsAcquireTab ==
  ASSUME BatchInvariant, NEW p \in Processes, AcquireTab(p)
  PROVE  BatchInvariant'
<1>1. /\ filler[p].pc = "out" /\ batch' = batch /\ filler' = filler /\ granted' = granted
      /\ tab'.lease = tab.lease + 1 /\ TabMoves
  BY BatchTypes DEF AcquireTab, TabMoves, Mode
<1>2. OwnStep(p) /\ Quiet(p)
  BY <1>1, BatchTypes DEF OwnStep, Quiet, Begun
<1>3. CallFits(p)'
  BY <1>1 DEF BatchInvariant, CallsFit, CallFits, Mode, Idle
<1>4. FillersKnow'
  <2>1. \A q \in Processes : filler[q].lease \in Nat
    BY BatchTypes DEF FillerRow
  <2>2. tab.lease \in Nat
    BY BatchTypes
  <2> QED BY <1>1, <2>1, <2>2 DEF BatchInvariant, FillersKnow, Mode
<1>5. Leading(p)
  BY <1>1, <1>2, LeadsStay DEF Leading
<1> QED BY <1>1, <1>2, <1>3, <1>4, <1>5, BatchTypes, LeadsStay, StepKeeps

\* Every behaviour of the batches keeps the invariant.
LEMMA BatchesHold == BatchSpec => []BatchInvariant
<1>1. BatchInit => BatchInvariant
  <2> SUFFICES ASSUME BatchInit PROVE BatchInvariant
    OBVIOUS
  <2>1. /\ \A b \in Batches : /\ batch[b].state = "free" /\ ~batch[b].dispatched
                              /\ batch[b].touched = 0 /\ batch[b].effects = 0
        /\ \A p \in Processes : filler[p].pc = "out" /\ filler[p].effects = 0
        /\ granted = {}
    BY DEF BatchInit, Out
  <2>2. BatchTypeOK
    BY DEF BatchInit, BatchTypeOK, BatchStates, Out
  <2> QED BY <2>1, <2>2 DEF BatchInvariant, FillersKnow, CallsFit, CallFits, RowsFit, RowFits, LeasesApart,
          WritersLead, GrantsLead, Begun, Mode, Idle
<1>2. BatchInvariant /\ [BatchNext]_<<now, batchVars>> => BatchInvariant'
  <2> SUFFICES ASSUME BatchInvariant, [BatchNext]_<<now, batchVars>>
               PROVE  BatchInvariant'
    OBVIOUS
  <2>1. CASE UNCHANGED batchVars
    BY SMTT(30), <2>1 DEF batchVars, BatchInvariant, BatchTypeOK, FillersKnow, CallsFit, CallFits, RowsFit, RowFits,
       LeasesApart, WritersLead, GrantsLead, Begun, Mode, Batch, Leads, Past
  <2>2. ASSUME NEW p \in Processes, FillerStep(p) PROVE BatchInvariant'
    BY <2>2, KeepsAcquireTab, KeepsEnter, KeepsFindsOther, KeepsFindsNoEffect, KeepsFindsStarted, KeepsFindsNone,
       KeepsBeginBatch, KeepsDispatch, KeepsValidateControl, KeepsPerform, KeepsPerformFails, KeepsNoteEffect,
       KeepsAdvanceTab, KeepsReleaseFails, KeepsFinishVerified, KeepsFinishPristine, KeepsFinishParked,
       KeepsFinishCleared, KeepsFinishInterrupted, KeepsCallBreaks DEF FillerStep
  <2> QED BY <2>1, <2>2 DEF BatchNext
<1> QED BY <1>1, <1>2, PTL DEF BatchSpec

\* What is told of a batch is true, for any processes, fields and batches.
THEOREM BatchesAreExact == BatchSpec => []BatchIsExact
<1>1. BatchInvariant => BatchIsExact
  <2> SUFFICES ASSUME BatchInvariant, NEW b \in Batches
               PROVE  /\ batch[b].fields \in granted => batch[b].touched = 0
                      /\ batch[b].state = "verified" =>
                           batch[b].effects = batch[b].touched /\ (batch[b].touched = 0 \/ Past(b))
    BY DEF BatchIsExact, Past
  <2>1. CASE batch[b].touched > 0 /\ batch[b].fields \in granted
    <3>1. Leads(b)
      BY <2>1 DEF BatchInvariant, WritersLead
    <3>2. PICK c \in Batches : /\ batch[c].fields = batch[b].fields /\ Leads(c)
                               /\ batch[c].state = "failed_no_effect"
      BY <2>1 DEF BatchInvariant, GrantsLead
    <3>3. batch[b].lease \in Nat /\ batch[c].lease \in Nat
      BY BatchTypes DEF BatchRow
    <3>4. batch[b].lease = batch[c].lease
      <4>1. Begun(b) /\ Begun(c)
        BY <3>1, <3>2 DEF Leads
      <4>2. batch[c].lease <= batch[b].lease
        BY <3>1, <3>2, <4>1 DEF Leads
      <4>3. batch[b].lease <= batch[c].lease
        BY <3>2, <4>1 DEF Leads
      <4> QED BY <3>3, <4>2, <4>3
    <3>5. b = c
      BY <3>1, <3>2, <3>4 DEF BatchInvariant, LeasesApart, Leads
    <3> QED BY <2>1, <3>2, <3>5 DEF BatchInvariant, RowsFit, RowFits
  <2>2. batch[b].touched \in Nat
    BY BatchTypes DEF BatchRow
  <2> QED BY <2>1, <2>2 DEF BatchInvariant, RowsFit, RowFits
<1> QED BY <1>1, BatchesHold, PTL

==============================================================================
