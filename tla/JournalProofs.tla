---------------------------- MODULE JournalProofs ----------------------------
(***************************************************************************)
(* What is journalled is done once and told once.  Recovery: the effect of *)
(* a command that puts an attempt back in order happens at most once.      *)
(* Verdicts: an exception is closed by one command, or expires.  Tasks: a  *)
(* cancellation is never overruled, an effect is claimed once, and retries *)
(* and faults bound what a task costs.                                     *)
(***************************************************************************)
EXTENDS TaskJournal, RecoveryCommands, OperatorCommands, TLAPS

-----------------------------------------------------------------------------
(* Recovery *)

\* The effect of the command is in place.
EffectDone ==
  /\ effectKind = "handler" => effects = 1
  /\ effectKind = "queue" => queued = "own"

\* Whoever stored the start, and nobody else, may bring the effect about, once.
EffectInvariant ==
  /\ RecoveryTypeOK
  /\ \A p \in Processes : In(p, "effect") \/ In(p, "executed") => Stored("started")
  /\ \A p, q \in Processes :
       (In(p, "effect") \/ In(p, "executed")) /\ (In(q, "effect") \/ In(q, "executed")) => p = q
  /\ ~Stored("started") => effects = 0 /\ ~Stored("executed")
  /\ \A p \in Processes : In(p, "effect") => effects = 0 /\ ~Stored("executed")
  /\ \A p \in Processes : In(p, "executed") => EffectDone
  /\ \A p \in Processes : In(p, "verify") \/ In(p, "conclude") => Stored("executed")
  /\ Stored("executed") => EffectDone
  /\ Stored("verified") => Stored("executed")
  /\ effects <= 1

PerformerRow ==
  [pc : {"idle", "starting", "effect", "executed", "verify", "conclude", "fail", "park"},
   role : Roles]

\* Every step of a caller keeps the invariant.
LEMMA PerformerKeeps ==
  ASSUME EffectInvariant, NEW p \in Processes, PerformerStep(p)
  PROVE  EffectInvariant'
<1> USE DEF EffectInvariant, RecoveryTypeOK, In, Stored, EffectDone, PerformerRow, Roles, Stages, Away,
            Leaves, Keeps, Proceeds
<1>0. /\ performer \in [Processes -> PerformerRow] /\ history \in [Stages -> {"none"} \cup Roles]
      /\ effects \in Nat /\ performer[p] \in PerformerRow
  OBVIOUS
<1>1. CASE ReadHistory(p)
  BY <1>0, <1>1 DEF ReadHistory
<1>2. CASE StartRecovery(p)
  BY <1>0, <1>2 DEF StartRecovery
<1>3. CASE ApplyEffect(p)
  BY <1>0, <1>3 DEF ApplyEffect
<1>4. CASE StoreExecuted(p)
  BY <1>0, <1>4 DEF StoreExecuted
<1>5. CASE VerifyEffect(p)
  BY <1>0, <1>5 DEF VerifyEffect
<1>6. CASE Conclude(p)
  BY <1>0, <1>6 DEF Conclude
<1>7. CASE StoreFailed(p)
  BY <1>0, <1>7 DEF StoreFailed
<1>8. CASE Park(p) \/ PerformerDies(p)
  BY <1>0, <1>8 DEF Park, PerformerDies
<1> HIDE DEF EffectInvariant
<1> QED BY <1>1, <1>2, <1>3, <1>4, <1>5, <1>6, <1>7, <1>8 DEF PerformerStep

\* Every behaviour of the recovery commands keeps the invariant.
LEMMA EffectsHold == RecoverySpec => []EffectInvariant
<1>1. RecoveryInit => EffectInvariant
  <2> SUFFICES ASSUME RecoveryInit PROVE EffectInvariant
    OBVIOUS
  <2>1. /\ RecoveryTypeOK /\ effects = 0 /\ \A s \in Stages : ~Stored(s)
        /\ \A p \in Processes : In(p, "idle")
    BY DEF RecoveryInit, RecoveryTypeOK, In, Stored, Stages, Roles, Away
  <2> QED BY <2>1 DEF EffectInvariant, In, Stages
<1>2. EffectInvariant /\ [RecoveryNext]_<<now, recoveryVars>> => EffectInvariant'
  <2> SUFFICES ASSUME EffectInvariant, [RecoveryNext]_<<now, recoveryVars>>
               PROVE  EffectInvariant'
    OBVIOUS
  <2>1. CASE GrowsStale \/ UNCHANGED recoveryVars
    BY <2>1 DEF GrowsStale, recoveryVars, EffectInvariant, RecoveryTypeOK, In, Stored, EffectDone
  <2>2. ASSUME NEW p \in Processes, PerformerStep(p) PROVE EffectInvariant'
    BY <2>2, PerformerKeeps
  <2> QED BY <2>1, <2>2 DEF RecoveryNext, recoveryVars
<1> QED BY <1>1, <1>2, PTL DEF RecoverySpec

\* The effect is done at most once whoever dies, is late or collides, for any callers.
THEOREM EffectsAreExact == RecoverySpec => []EffectsExact
<1>1. EffectInvariant => EffectsExact
  BY DEF EffectInvariant, EffectsExact, EffectDone
<1> QED BY <1>1, EffectsHold, PTL

-----------------------------------------------------------------------------
(* Verdicts *)

USE OperatorAssumption

CallerRow ==
  [pc : {"idle", "resolving", "requesting", "starting", "started", "executed", "rejected",
         "trusted", "waiting", "loaded", "consuming", "resumed", "expiring", "expire",
         "ended", "dead"},
   order : Orders \cup {None}, retried : BOOLEAN]

ResultNames == {"requested", "started", "failed", "verified"}

Verified(c) == "verified" \in stages[c]
IsResume(c) == envelope[c] = "resume" /\ "requested" \in stages[c]

\* The owner executes the one resume command, never twice, and does not wait again.
OwnerAt(pc, c) ==
  /\ pc \notin {"idle", "resolving", "requesting"}
  /\ pc # "ended" => lane = "human_only"
  /\ pc \in {"loaded", "starting", "started", "executed", "rejected", "trusted", "consuming"} =>
       c \in Orders /\ IsResume(c)
  /\ pc = "expire" => IF c = None THEN \A d \in Orders : ~HasStarted(d)
                                  ELSE c \in Orders /\ IsResume(c)
  /\ pc = "trusted" => child = "completed"
  /\ pc = "consuming" => Verified(c)
  /\ pc \in {"waiting", "loaded", "starting", "started", "executed", "rejected", "trusted"} =>
       \A d \in Orders : envelope[d] = "resume" => ~Verified(d)

OwnerKnows == OwnerAt(caller[Owner].pc, caller[Owner].order)

\* An operator that executes a command reconciles a receipt, and the command is its own.
OperatorAt(pc, c) ==
  /\ pc \in {"idle", "resolving", "requesting", "starting", "started", "executed", "rejected",
             "trusted"}
  /\ pc # "idle" => c \in Orders
  /\ pc \in {"starting", "started", "executed", "rejected", "trusted"} =>
       lane = "receipt_reconciliation"
  /\ pc \in {"started", "executed", "rejected", "trusted"} => envelope[c] = "reconcile"
  /\ pc = "trusted" => receipt

OperatorsKnow == \A p \in Processes : OperatorAt(caller[p].pc, caller[p].order)

RowsKnow ==
  /\ request = "none" <=> lane = "receipt_reconciliation"
  /\ \A c, d \in Orders : envelope[c] = "resume" /\ envelope[d] = "resume" => c = d
  /\ \A c \in Orders : envelope[c] = "none" => ~Verified(c)
  /\ lane = "human_only" => \A c \in Orders : HasStarted(c) => IsResume(c)
  /\ item = "expired" => Is(Owner, "ended")

\* VerdictsAgree, with the set of verified commands spelt out.
Agreed ==
  /\ item = "resolved" <=> \E c \in Orders : Verified(c)
  /\ \A c, d \in Orders : Verified(c) /\ Verified(d) => c = d
  /\ \A c \in Orders : Verified(c) => /\ envelope[c] = "resume" => child = "completed"
                                      /\ envelope[c] = "reconcile" => receipt
  /\ item = "expired" <=> request = "expired"
  /\ item = "expired" => \A c \in Orders : HasStarted(c) => "failed" \in stages[c]
  /\ request = "consumed" => \E c \in Orders : Verified(c) /\ envelope[c] = "resume"
  /\ Is(Owner, "ended") /\ item = "open" /\ request = "open" => \E c \in Orders : Unknown(c)

VerdictInvariant ==
  OperatorTypeOK /\ OwnerKnows /\ OperatorsKnow /\ RowsKnow /\ Agreed

\* The types, in the form the provers need.
LEMMA VerdictTypes ==
  ASSUME VerdictInvariant
  PROVE  /\ caller \in [Callers -> CallerRow] /\ Owner \in Callers /\ Owner \notin Processes
         /\ Processes \subseteq Callers
         /\ \A a \in Callers : a # Owner => a \in Processes
         /\ envelope \in [Orders -> {"none", "resolve", "resume", "reconcile"}]
         /\ stages \in [Orders -> SUBSET ResultNames]
BY DEF VerdictInvariant, OperatorTypeOK, CallerRow, Callers, ResultNames

\* Only the caller itself moves, to another place or also to another command.
CallerMoved(a, pc, c) ==
  /\ caller' \in [Callers -> CallerRow]
  /\ \A b \in Callers : b # a => caller'[b] = caller[b]
  /\ caller'[a].pc = pc /\ caller'[a].order = c

\* One more result is stored for a command.
Added(c, result) ==
  /\ stages' \in [Orders -> SUBSET ResultNames]
  /\ \A d \in Orders, r \in ResultNames :
       r \in stages'[d] <=> r \in stages[d] \/ (d = c /\ r = result)

\* The action of a command is stored.
Kept(c, action) ==
  /\ envelope' \in [Orders -> {"none", "resolve", "resume", "reconcile"}]
  /\ \A d \in Orders : envelope'[d] = IF d = c THEN action ELSE envelope[d]

\* What storing does.
LEMMA Storing ==
  ASSUME VerdictInvariant, NEW c \in Orders
  PROVE  /\ \A r \in ResultNames :
              stages' = [stages EXCEPT ![c] = @ \cup {r}] => Added(c, r)
         /\ \A r \in ResultNames,
                action \in {"resolve", "resume", "reconcile"} :
              Stores(c, action, r) => Added(c, r) /\ Kept(c, action)
<1>0. /\ envelope \in [Orders -> {"none", "resolve", "resume", "reconcile"}]
      /\ stages \in [Orders -> SUBSET ResultNames]
  BY VerdictTypes
<1>1. ASSUME NEW r \in ResultNames,
             stages' = [stages EXCEPT ![c] = @ \cup {r}]
      PROVE  Added(c, r)
  <2>1. \A d \in Orders : stages'[d] = IF d = c THEN stages[d] \cup {r} ELSE stages[d]
    BY <1>0, <1>1
  <2>2. \A d \in Orders : stages'[d] \in SUBSET ResultNames
    BY <1>0, <2>1
  <2>9. \A d \in Orders : \A e : e \in stages'[d] <=> e \in stages[d] \/ (d = c /\ e = r)
    BY <2>1
  <2>3. stages' \in [Orders -> SUBSET ResultNames]
    BY <1>0, <1>1, <2>2
  <2> QED BY <2>3, <2>9 DEF Added
<1>2. ASSUME NEW action \in {"resolve", "resume", "reconcile"},
             envelope' = [envelope EXCEPT ![c] = action]
      PROVE  Kept(c, action)
  BY <1>0, <1>2 DEF Kept
<1> QED BY <1>1, <1>2 DEF Stores

\* Ended, without the intersection.
LEMMA EndedIs ==
  /\ \A c \in Orders : HasEnded(c) <=> "verified" \in stages[c] \/ "failed" \in stages[c]
  /\ \A c \in Orders : HasEnded(c)' <=> "verified" \in stages'[c] \/ "failed" \in stages'[c]
BY DEF HasEnded

\* The ways in which a caller moves.
LEMMA Movements ==
  ASSUME VerdictInvariant, NEW a \in Callers
  PROVE  /\ \A pc \in {"resolving", "requesting", "starting", "started", "executed", "rejected",
                       "trusted", "waiting", "loaded", "consuming", "resumed", "expiring", "expire"} :
              Enters(a, pc) => CallerMoved(a, pc, caller[a].order)
         /\ \A pc \in {"resolving", "requesting", "starting", "loaded", "expire"}, c \in Orders \cup {None} :
              With(a, pc, c) => CallerMoved(a, pc, c)
         /\ \A pc \in {"idle", "ended", "dead", "expiring"} :
              caller' = [caller EXCEPT ![a] = At(pc)] => CallerMoved(a, pc, None)
         /\ Raises(a) => CallerMoved(a, IF a = Owner THEN "expiring" ELSE "idle", None)
         /\ a = Owner /\ ExpiryRaises =>
              CallerMoved(a, IF caller[Owner].retried THEN "ended" ELSE "expiring", None)
<1>1. caller \in [Callers -> CallerRow]
  BY VerdictTypes
<1>2. ASSUME NEW r \in CallerRow, caller' = [caller EXCEPT ![a] = r]
      PROVE  CallerMoved(a, r.pc, r.order)
  BY <1>1, <1>2 DEF CallerMoved
<1>3. ASSUME NEW pc \in {"resolving", "requesting", "starting", "started", "executed", "rejected",
                         "trusted", "waiting", "loaded", "consuming", "resumed", "expiring", "expire"},
             Enters(a, pc)
      PROVE  CallerMoved(a, pc, caller[a].order)
  <2>1. /\ [caller[a] EXCEPT !.pc = pc] \in CallerRow
        /\ caller' = [caller EXCEPT ![a] = [caller[a] EXCEPT !.pc = pc]]
        /\ [caller[a] EXCEPT !.pc = pc].pc = pc
        /\ [caller[a] EXCEPT !.pc = pc].order = caller[a].order
    BY <1>1, <1>3 DEF Enters, CallerRow
  <2> QED BY <1>2, <2>1
<1>4. ASSUME NEW pc \in {"resolving", "requesting", "starting", "loaded", "expire"},
             NEW c \in Orders \cup {None}, With(a, pc, c)
      PROVE  CallerMoved(a, pc, c)
  <2> DEFINE r == [caller[a] EXCEPT !.pc = pc, !.order = c]
  <2>1. r \in CallerRow /\ r.pc = pc /\ r.order = c
    BY <1>1 DEF CallerRow
  <2>2. caller' = [caller EXCEPT ![a] = r]
    BY <1>1, <1>4 DEF With, CallerRow
  <2> QED BY <1>2, <2>1, <2>2
<1>5. ASSUME NEW pc \in {"idle", "ended", "dead", "expiring"}
      PROVE  /\ At(pc) \in CallerRow /\ At(pc).pc = pc /\ At(pc).order = None
             /\ [At(pc) EXCEPT !.retried = TRUE] \in CallerRow
             /\ [At(pc) EXCEPT !.retried = TRUE].pc = pc
             /\ [At(pc) EXCEPT !.retried = TRUE].order = None
  BY DEF At, CallerRow
<1>6. Raises(a) => CallerMoved(a, IF a = Owner THEN "expiring" ELSE "idle", None)
  <2> HIDE DEF CallerMoved, At, CallerRow
  <2> QED BY <1>2, <1>5 DEF Raises
<1>7. a = Owner /\ ExpiryRaises => CallerMoved(a, IF caller[Owner].retried THEN "ended" ELSE "expiring", None)
  BY <1>2, <1>5 DEF ExpiryRaises
<1>8. \A pc \in {"idle", "ended", "dead", "expiring"} :
        caller' = [caller EXCEPT ![a] = At(pc)] => CallerMoved(a, pc, None)
  BY ZenonT(60), <1>2, <1>5
<1> QED BY <1>3, <1>4, <1>6, <1>7, <1>8

\* A step that moves one caller and touches no row needs only that the caller knows enough
\* where it arrives.
LEMMA MoveKeeps ==
  ASSUME VerdictInvariant, NEW a \in Callers, NEW pc, NEW c, CallerMoved(a, pc, c),
         UNCHANGED <<lane, item, request, answered, child, receipt, envelope, stages>>,
         a = Owner => /\ caller[Owner].pc # "ended" /\ OwnerAt(pc, c)
                      /\ pc = "ended" => ~(item = "open" /\ request = "open")
                                         \/ \E d \in Orders : Unknown(d),
         a # Owner => OperatorAt(pc, c)
  PROVE  VerdictInvariant'
<1>0. /\ caller \in [Callers -> CallerRow] /\ Owner \in Callers /\ Owner \notin Processes
      /\ Processes \subseteq Callers /\ OperatorTypeOK
      /\ \A b \in Callers : b # Owner => b \in Processes
  BY VerdictTypes DEF VerdictInvariant
<1>1. OperatorTypeOK'
  BY <1>0 DEF OperatorTypeOK, CallerMoved, CallerRow
<1>2. OwnerKnows'
  BY <1>0 DEF VerdictInvariant, OwnerKnows, OwnerAt, CallerMoved, HasStarted, IsResume, Verified
<1>3. OperatorsKnow'
  BY <1>0 DEF VerdictInvariant, OperatorsKnow, OperatorAt, CallerMoved
<1>4. RowsKnow'
  BY <1>0 DEF VerdictInvariant, RowsKnow, CallerMoved, Is, HasStarted, IsResume, Verified
<1>5. Agreed'
  BY <1>0 DEF VerdictInvariant, Agreed, CallerMoved, Is, Verified, HasStarted, HasEnded, Unknown
<1> QED BY <1>1, <1>2, <1>3, <1>4, <1>5 DEF VerdictInvariant

\* What the owner knows survives a step that leaves it where it is and resumes nothing.
LEMMA OwnerStays ==
  ASSUME VerdictInvariant, caller'[Owner] = caller[Owner], lane' = lane, child' = child,
         \A d \in Orders : /\ IsResume(d) => IsResume(d)'
                           /\ Verified(d) => Verified(d)'
                           /\ envelope'[d] = "resume" /\ Verified(d)' => envelope[d] = "resume" /\ Verified(d),
         lane = "human_only" => \A d \in Orders : HasStarted(d)' => HasStarted(d)
  PROVE  OwnerKnows'
BY DEF VerdictInvariant, OwnerKnows, OwnerAt

\* Every step of an operator keeps the invariant.
LEMMA OperatorKeeps ==
  ASSUME VerdictInvariant, NEW p \in Processes, OperatorStep(p)
  PROVE  VerdictInvariant'
<1>0. /\ caller \in [Callers -> CallerRow] /\ Owner \in Callers /\ Owner \notin Processes
      /\ Processes \subseteq Callers /\ OperatorTypeOK
      /\ \A b \in Callers : b # Owner => b \in Processes
  BY VerdictTypes DEF VerdictInvariant
<1>1. ASSUME NEW c \in Orders, CheckResolve(p, c) \/ CheckRequest(p, c) \/ CheckReconcile(p, c)
      PROVE  VerdictInvariant'
  <2>1. /\ UNCHANGED <<lane, item, request, answered, child, receipt, envelope, stages>>
        /\ \E pc \in {"resolving", "requesting", "starting"} :
             CallerMoved(p, pc, c) /\ (pc = "starting" => lane = "receipt_reconciliation")
    BY <1>0, <1>1, Movements DEF CheckResolve, CheckRequest, CheckReconcile, evidence
  <2> QED BY <1>0, <2>1, MoveKeeps DEF OperatorAt
<1>2. CASE WriteResolve(p)
  <2> DEFINE c == caller[p].order
  <2>1. /\ c \in Orders /\ UNCHANGED <<lane, request, answered, child, receipt>>
        /\ CallerMoved(p, "idle", None)
    BY <1>0, <1>2, Movements DEF WriteResolve, Is, evidence, VerdictInvariant, OperatorsKnow, OperatorAt
  <2>2. CASE UNCHANGED <<item, envelope, stages>>
    BY <1>0, <2>1, <2>2, MoveKeeps DEF OperatorAt
  <2>3. CASE envelope[c] = "none" /\ item = "open" /\ item' = "resolved" /\ Kept(c, "resolve")
             /\ Added(c, "verified")
    <3>1. \A d \in Orders : /\ Verified(d)' <=> Verified(d) \/ d = c
                            /\ HasStarted(d)' <=> HasStarted(d)
                            /\ IsResume(d)' <=> IsResume(d)
                            /\ envelope'[d] = IF d = c THEN "resolve" ELSE envelope[d]
      BY <2>1, <2>3 DEF Added, Kept, ResultNames, Verified, HasStarted, IsResume
    <3>2. caller'[Owner] = caller[Owner]
      BY <1>0, <2>1 DEF CallerMoved
    <3>3. OwnerKnows'
      BY <2>1, <2>3, <3>1, <3>2, OwnerStays
    <3>4. OperatorTypeOK'
      BY <1>0, <2>1, <2>3 DEF OperatorTypeOK, CallerMoved, Added, Kept, CallerRow, ResultNames
    <3>5. OperatorsKnow'
      BY <1>0, <2>1, <2>3, <3>1 DEF VerdictInvariant, OperatorsKnow, OperatorAt, CallerMoved
    <3>6. RowsKnow'
      BY <1>0, <2>1, <2>3, <3>1, <3>2 DEF VerdictInvariant, RowsKnow, Is
    <3>7. Agreed'
      BY <1>0, <2>1, <2>3, <3>1, <3>2 DEF VerdictInvariant, RowsKnow, Agreed, Is
    <3> QED BY <3>3, <3>4, <3>5, <3>6, <3>7 DEF VerdictInvariant
  <2> QED BY <1>2, <2>1, <2>2, <2>3, Storing DEF WriteResolve, ResultNames
<1>3. CASE WriteRequest(p)
  <2> DEFINE c == caller[p].order
  <2>1. /\ c \in Orders /\ UNCHANGED <<lane, item, request, answered, child, receipt>>
        /\ CallerMoved(p, "idle", None)
    BY <1>0, <1>3, Movements DEF WriteRequest, Is, evidence, VerdictInvariant, OperatorsKnow, OperatorAt
  <2>2. CASE UNCHANGED <<envelope, stages>>
    BY <1>0, <2>1, <2>2, MoveKeeps DEF OperatorAt
  <2>3. CASE envelope[c] = "none" /\ (\A d \in Orders : envelope[d] # "resume") /\ Kept(c, "resume")
             /\ Added(c, "requested")
    <3>1. \A d \in Orders : /\ Verified(d)' <=> Verified(d)
                            /\ HasStarted(d)' <=> HasStarted(d)
                            /\ Unknown(d)' <=> Unknown(d)
                            /\ IsResume(d)' <=> d = c
                            /\ ~IsResume(d) /\ ~Verified(c)
                            /\ "failed" \in stages[d] => "failed" \in stages'[d]
                            /\ envelope'[d] = IF d = c THEN "resume" ELSE envelope[d]
      BY <2>1, <2>3, EndedIs DEF Added, Kept, ResultNames, Verified, HasStarted, IsResume, Unknown, VerdictInvariant,
         RowsKnow
    <3>2. caller'[Owner] = caller[Owner]
      BY <1>0, <2>1 DEF CallerMoved
    <3>3. OwnerKnows'
      BY <2>1, <2>3, <3>1, <3>2, OwnerStays
    <3>4. OperatorTypeOK'
      BY <1>0, <2>1, <2>3 DEF OperatorTypeOK, CallerMoved, Added, Kept, CallerRow, ResultNames
    <3>5. OperatorsKnow'
      BY <1>0, <2>1, <2>3, <3>1 DEF VerdictInvariant, OperatorsKnow, OperatorAt, CallerMoved
    <3>6. RowsKnow'
      BY <1>0, <2>1, <2>3, <3>1, <3>2 DEF VerdictInvariant, RowsKnow, Is
    <3>7. Agreed'
      BY <1>0, <2>1, <2>3, <3>1, <3>2 DEF VerdictInvariant, RowsKnow, Agreed, Is
    <3> QED BY <3>3, <3>4, <3>5, <3>6, <3>7 DEF VerdictInvariant
  <2> QED BY <1>3, <2>1, <2>2, <2>3, Storing DEF WriteRequest, ResultNames
<1>4. CASE RepeatResume(p)
  <2>1. /\ \E c \in Orders : envelope[c] = "resume" /\ Verified(c)
        /\ request = "open" /\ request' = "consumed"
        /\ UNCHANGED <<lane, item, answered, child, receipt, envelope, stages, caller>>
    BY <1>4 DEF RepeatResume, Verified, evidence
  <2>2. OperatorTypeOK' /\ OwnerKnows' /\ OperatorsKnow' /\ RowsKnow'
    BY <2>1 DEF VerdictInvariant, OperatorTypeOK, OwnerKnows, OwnerAt, OperatorsKnow, OperatorAt, RowsKnow, Is,
       HasStarted, IsResume, Verified
  <2>3. Agreed'
    BY <2>1 DEF VerdictInvariant, Agreed, Verified, HasStarted, Is
  <2> QED BY <2>2, <2>3 DEF VerdictInvariant
<1>5. CASE ReconcileReceipt(p)
  <2>1. /\ caller[p].pc = "started" /\ UNCHANGED <<lane, item, request, answered, child, envelope, stages>>
        /\ \/ \E pc \in {"executed", "rejected"} : CallerMoved(p, pc, caller[p].order)
           \/ CallerMoved(p, "idle", None)
    BY <1>0, <1>5, Movements DEF ReconcileReceipt, Is
  <2>2. receipt' \in BOOLEAN /\ (receipt => receipt')
    <3>1. receipt \in BOOLEAN
      BY <1>0 DEF VerdictInvariant, OperatorTypeOK
    <3>2. receipt' = TRUE \/ receipt' = receipt
      BY <1>5, Zenon DEF ReconcileReceipt
    <3>3. CASE receipt' = TRUE
      BY <3>3, Zenon
    <3>4. CASE receipt' = receipt
      BY <3>1, <3>4, Zenon
    <3> QED BY <3>2, <3>3, <3>4
  <2>3. OperatorTypeOK'
    BY <1>0, <2>1, <2>2 DEF OperatorTypeOK, CallerMoved, CallerRow
  <2>4. OwnerKnows'
    <3>1. caller'[Owner] = caller[Owner]
      BY <1>0, <2>1 DEF CallerMoved
    <3> QED BY <2>1, <3>1, OwnerStays DEF IsResume, Verified, HasStarted
  <2>5. OperatorsKnow'
    BY <1>0, <2>1, <2>2 DEF VerdictInvariant, OperatorsKnow, OperatorAt, CallerMoved
  <2>6. RowsKnow'
    BY <1>0, <2>1 DEF VerdictInvariant, RowsKnow, CallerMoved, Is, HasStarted, IsResume, Verified
  <2>7. Agreed'
    BY <1>0, <2>1, <2>2 DEF VerdictInvariant, Agreed, CallerMoved, Is, Verified, HasStarted, HasEnded, Unknown
  <2> QED BY <2>3, <2>4, <2>5, <2>6, <2>7 DEF VerdictInvariant
<1> QED BY <1>1, <1>2, <1>3, <1>4, <1>5 DEF OperatorStep

\* So does every step of an executor.
LEMMA ExecutorKeeps ==
  ASSUME VerdictInvariant, NEW a \in Callers, ExecutorStep(a)
  PROVE  VerdictInvariant'
<1>0. /\ caller \in [Callers -> CallerRow] /\ Owner \in Callers /\ Owner \notin Processes
      /\ Processes \subseteq Callers /\ OperatorTypeOK
      /\ \A b \in Callers : b # Owner => b \in Processes
  BY VerdictTypes DEF VerdictInvariant
<1> DEFINE c == caller[a].order
<1>9. ASSUME caller[a].pc \in {"starting", "executed", "rejected", "trusted"}
      PROVE  /\ c \in Orders
             /\ a # Owner => lane = "receipt_reconciliation" /\ caller[Owner].pc = "ended"
             /\ a = Owner => lane = "human_only" /\ IsResume(c)
             /\ a # Owner /\ caller[a].pc # "starting" => envelope[c] = "reconcile"
  BY <1>0, <1>9 DEF VerdictInvariant, OwnerKnows, OwnerAt, OperatorsKnow, OperatorAt
<1>8. Raises(a) => CallerMoved(a, IF a = Owner THEN "expiring" ELSE "idle", None)
  BY Movements
<1>7. ASSUME caller[a].pc \in {"starting", "executed", "rejected", "trusted"}
      PROVE  /\ a = Owner => OwnerAt("expiring", None)
             /\ a # Owner => OperatorAt("idle", None)
  BY <1>7, <1>9 DEF OwnerAt, OperatorAt
<1>1. CASE StartOrder(a)
  <2>1. caller[a].pc = "starting" /\ UNCHANGED <<lane, item, request, answered, child, receipt>>
    BY <1>1 DEF StartOrder, Is, evidence
  <2>2. CASE UNCHANGED <<envelope, stages>> /\ Raises(a)
    BY <1>7, <1>8, <1>9, <2>1, <2>2, MoveKeeps
  <2>3. CASE /\ a = Owner \/ envelope[c] = "none"
             /\ Kept(c, IF a = Owner THEN "resume" ELSE "reconcile")
             /\ Added(c, "started") /\ CallerMoved(a, "started", c)
    <3>1. \A d \in Orders : /\ Verified(d)' <=> Verified(d)
                            /\ HasStarted(d)' <=> HasStarted(d) \/ d = c
                            /\ "failed" \in stages[d] => "failed" \in stages'[d]
                            /\ envelope'[d] = IF d = c /\ a # Owner THEN "reconcile" ELSE envelope[d]
                            /\ IsResume(d)' <=> IsResume(d)
      BY <1>9, <2>1, <2>3 DEF Added, Kept, ResultNames, Verified, HasStarted, IsResume
    <3>2. OperatorTypeOK'
      BY <1>0, <2>1, <2>3 DEF OperatorTypeOK, CallerMoved, Added, Kept, CallerRow, ResultNames
    <3>3. OwnerKnows'
      <4>1. CASE a = Owner
        BY <1>0, <1>9, <2>1, <2>3, <3>1, <4>1 DEF VerdictInvariant, OwnerKnows, OwnerAt, CallerMoved
      <4>2. CASE a # Owner
        BY <1>0, <1>9, <2>1, <2>3, <4>2 DEF OwnerKnows, OwnerAt, CallerMoved
      <4> QED BY <4>1, <4>2
    <3>4. OperatorsKnow'
      BY <1>0, <1>9, <2>1, <2>3, <3>1 DEF VerdictInvariant, OperatorsKnow, OperatorAt, CallerMoved
    <3>5. RowsKnow'
      BY <1>0, <1>9, <2>1, <2>3, <3>1 DEF VerdictInvariant, OwnerKnows, OwnerAt, RowsKnow, CallerMoved, Is
    <3>6. Agreed'
      <4>1. item # "expired"
        BY <1>9, <2>1 DEF VerdictInvariant, RowsKnow, Agreed, Is
      <4>2. caller'[Owner].pc = "ended" => request = "none"
        BY <1>0, <1>9, <2>1, <2>3 DEF VerdictInvariant, RowsKnow, CallerMoved
      <4>3. \A d \in Orders : Verified(d) => d # c \/ a = Owner
        BY <1>9, <2>1, <2>3 DEF VerdictInvariant, RowsKnow
      <4> QED BY <1>0, <1>9, <2>1, <2>3, <3>1, <4>1, <4>2, <4>3 DEF VerdictInvariant, Agreed, Is
    <3> QED BY <3>2, <3>3, <3>4, <3>5, <3>6 DEF VerdictInvariant
  <2>4. c \in Orders
    BY <1>9, <2>1
  <2>5. Enters(a, "started") => CallerMoved(a, "started", c)
    BY Movements
  <2> QED BY <1>1, <2>2, <2>3, <2>4, <2>5, Storing DEF StartOrder, ResultNames
<1>2. CASE Verify(a)
  <2>1. /\ caller[a].pc = "executed"
        /\ UNCHANGED <<lane, item, request, answered, child, receipt, envelope, stages>>
        /\ \/ (IF a = Owner THEN child = "completed" ELSE receipt) /\ CallerMoved(a, "trusted", c)
           \/ CallerMoved(a, "rejected", c)
           \/ CallerMoved(a, IF a = Owner THEN "expiring" ELSE "idle", None)
    BY <1>2, Movements DEF Verify, Is, evidence
  <2>2. a = Owner => OwnerAt("rejected", c) /\ (child = "completed" => OwnerAt("trusted", c))
    BY <2>1 DEF VerdictInvariant, OwnerKnows, OwnerAt
  <2>3. a # Owner => OperatorAt("rejected", c) /\ (receipt => OperatorAt("trusted", c))
    BY <1>0, <2>1 DEF VerdictInvariant, OperatorsKnow, OperatorAt
  <2> QED BY <1>7, <2>1, <2>2, <2>3, MoveKeeps
<1>3. CASE FailOrder(a)
  <2>1. /\ caller[a].pc = "rejected" /\ c \in Orders /\ Added(c, "failed")
        /\ UNCHANGED <<lane, item, request, answered, child, receipt, envelope>>
        /\ CallerMoved(a, IF a = Owner THEN "expiring" ELSE "idle", None)
    BY <1>3, <1>9, Movements, Storing DEF FailOrder, Is, evidence, ResultNames
  <2>2. \A d \in Orders : /\ Verified(d)' <=> Verified(d)
                          /\ HasStarted(d)' <=> HasStarted(d)
                          /\ IsResume(d)' <=> IsResume(d)
                          /\ "failed" \in stages[d] => "failed" \in stages'[d]
    BY <2>1 DEF Added, ResultNames, Verified, HasStarted, IsResume
  <2>3. OperatorTypeOK'
    BY <1>0, <2>1 DEF OperatorTypeOK, CallerMoved, Added, CallerRow, ResultNames
  <2>4. OwnerKnows'
    <3>1. CASE a = Owner
      BY <1>9, <2>1, <3>1 DEF OwnerKnows, OwnerAt, CallerMoved
    <3>2. CASE a # Owner
      BY <1>0, <1>9, <2>1, <3>2 DEF OwnerKnows, OwnerAt, CallerMoved
    <3> QED BY <3>1, <3>2
  <2>5. OperatorsKnow'
    BY <1>0, <2>1 DEF VerdictInvariant, OperatorsKnow, OperatorAt, CallerMoved
  <2>6. RowsKnow'
    BY <1>0, <1>9, <2>1, <2>2 DEF VerdictInvariant, RowsKnow, CallerMoved, Is
  <2>7. Agreed'
    <3>1. caller'[Owner].pc = "ended" => request = "none"
      BY <1>0, <1>9, <2>1 DEF VerdictInvariant, RowsKnow, CallerMoved
    <3> QED BY <2>1, <2>2, <3>1 DEF VerdictInvariant, Agreed, Is
  <2> QED BY <2>3, <2>4, <2>5, <2>6, <2>7 DEF VerdictInvariant
<1>4. CASE FinishOrder(a)
  <2>1. caller[a].pc = "trusted" /\ UNCHANGED <<lane, request, answered, child, receipt, envelope>>
    BY <1>4 DEF FinishOrder, Is, evidence
  <2>2. CASE UNCHANGED <<item, stages>> /\ Raises(a)
    BY <1>7, <1>8, <2>1, <2>2, MoveKeeps
  <2>3. CASE /\ item = "open" /\ item' = "resolved" /\ Added(c, "verified")
             /\ IF a = Owner THEN CallerMoved(a, "consuming", c) ELSE CallerMoved(a, "idle", None)
    <3>1. \A d \in Orders : /\ Verified(d)' <=> Verified(d) \/ d = c
                            /\ HasStarted(d)' <=> HasStarted(d)
                            /\ IsResume(d)' <=> IsResume(d)
      BY <1>9, <2>1, <2>3 DEF Added, ResultNames, Verified, HasStarted, IsResume
    <3>2. OperatorTypeOK'
      BY <1>0, <2>1, <2>3 DEF OperatorTypeOK, CallerMoved, Added, CallerRow, ResultNames
    <3>3. OwnerKnows'
      <4>1. CASE a = Owner
        BY <1>9, <2>1, <2>3, <3>1, <4>1 DEF OwnerKnows, OwnerAt, CallerMoved
      <4>2. CASE a # Owner
        BY <1>0, <1>9, <2>1, <2>3, <4>2 DEF OwnerKnows, OwnerAt, CallerMoved
      <4> QED BY <4>1, <4>2
    <3>4. OperatorsKnow'
      BY <1>0, <2>1, <2>3 DEF VerdictInvariant, OperatorsKnow, OperatorAt, CallerMoved
    <3>5. RowsKnow'
      BY <1>0, <1>9, <2>1, <2>3, <3>1 DEF VerdictInvariant, RowsKnow, CallerMoved, Is, IsResume
    <3>6. Agreed'
      <4>1. /\ a = Owner => child = "completed" /\ envelope[c] = "resume"
            /\ a # Owner => receipt /\ envelope[c] = "reconcile"
        BY <1>0, <1>9, <2>1 DEF VerdictInvariant, OwnerKnows, OwnerAt, OperatorsKnow, OperatorAt, IsResume
      <4> QED BY <1>9, <2>1, <2>3, <3>1, <4>1 DEF VerdictInvariant, Agreed, Is
    <3> QED BY <3>2, <3>3, <3>4, <3>5, <3>6 DEF VerdictInvariant
  <2>4. c \in Orders
    BY <1>9, <2>1
  <2>5. /\ Enters(a, "consuming") => CallerMoved(a, "consuming", c)
        /\ caller' = [caller EXCEPT ![a] = At("idle")] => CallerMoved(a, "idle", None)
    BY Movements
  <2> QED BY <1>4, <2>2, <2>3, <2>4, <2>5, Storing DEF FinishOrder, ResultNames
<1>5. CASE CallerDies(a)
  <2>1. /\ UNCHANGED <<lane, item, request, answered, child, receipt, envelope, stages>>
        /\ caller[a].pc # "ended"
        /\ CallerMoved(a, IF a = Owner THEN "dead" ELSE "idle", None)
    BY <1>5, Movements DEF CallerDies, evidence
  <2>2. a = Owner => OwnerAt("dead", None)
    BY <2>1 DEF VerdictInvariant, OwnerKnows, OwnerAt
  <2> QED BY <2>1, <2>2, MoveKeeps DEF OperatorAt
<1> QED BY <1>1, <1>2, <1>3, <1>4, <1>5 DEF ExecutorStep

\* And every step of the owner.
LEMMA OwnerKeeps ==
  ASSUME VerdictInvariant, OwnerStep
  PROVE  VerdictInvariant'
<1>0. /\ caller \in [Callers -> CallerRow] /\ Owner \in Callers /\ Owner \notin Processes
      /\ Processes \subseteq Callers /\ OperatorTypeOK
      /\ \A b \in Callers : b # Owner => b \in Processes
  BY VerdictTypes DEF VerdictInvariant
<1>9. OwnerAt(caller[Owner].pc, caller[Owner].order) /\ caller[Owner].order \in Orders \cup {None}
  BY <1>0 DEF VerdictInvariant, OwnerKnows, CallerRow
<1>1. CASE StopWaiting \/ LoadRequest \/ PrepareResume
  <2>1. /\ caller[Owner].pc \in {"waiting", "loaded"}
        /\ UNCHANGED <<lane, item, request, answered, child, receipt, envelope, stages>>
    BY <1>1 DEF StopWaiting, LoadRequest, PrepareResume, Is, evidence
  <2>2. \/ \E c \in Orders \cup {None} : CallerMoved(Owner, "expiring", c)
        \/ caller[Owner].pc = "waiting" /\ \E c \in Orders : IsResume(c) /\ CallerMoved(Owner, "loaded", c)
        \/ caller[Owner].pc = "loaded" /\ CallerMoved(Owner, "starting", caller[Owner].order)
    BY <1>0, <1>1, <1>9, Movements DEF StopWaiting, LoadRequest, PrepareResume, Is, Requested, IsResume
  <2> QED BY <1>0, <1>9, <2>1, <2>2, MoveKeeps DEF OwnerAt
<1>2. CASE RunChild
  <2>1. /\ caller[Owner].pc = "started"
        /\ UNCHANGED <<lane, item, request, answered, receipt, envelope, stages>>
        /\ child' \in {"none", "failed", "completed"}
        /\ \/ child' = "completed" /\ CallerMoved(Owner, "executed", caller[Owner].order)
           \/ CallerMoved(Owner, "expiring", None)
    BY <1>0, <1>2, Movements DEF RunChild, Is
  <2>2. OperatorTypeOK'
    BY <1>0, <2>1 DEF OperatorTypeOK, CallerMoved, CallerRow
  <2>3. OwnerKnows'
    BY <1>9, <2>1 DEF OwnerKnows, OwnerAt, CallerMoved, HasStarted, IsResume, Verified
  <2>4. OperatorsKnow'
    BY <1>0, <2>1 DEF VerdictInvariant, OperatorsKnow, OperatorAt, CallerMoved
  <2>5. RowsKnow'
    BY <2>1 DEF VerdictInvariant, RowsKnow, CallerMoved, Is, HasStarted, IsResume, Verified
  <2>6. Agreed'
    <3>1. \A d \in Orders : envelope[d] = "resume" => ~Verified(d)
      BY <1>9, <2>1 DEF OwnerAt
    <3> QED BY <2>1, <3>1 DEF VerdictInvariant, Agreed, CallerMoved, Is, Verified, HasStarted
  <2> QED BY <2>2, <2>3, <2>4, <2>5, <2>6 DEF VerdictInvariant
<1>3. CASE ConsumeRequest
  <2>1. /\ caller[Owner].pc = "consuming"
        /\ UNCHANGED <<lane, item, answered, child, receipt, envelope, stages>>
        /\ request' = IF request = "open" THEN "consumed" ELSE request
        /\ CallerMoved(Owner, "resumed", caller[Owner].order) \/ CallerMoved(Owner, "expiring", None)
    BY <1>0, <1>3, Movements DEF ConsumeRequest, Is, evidence
  <2>2. OperatorTypeOK'
    BY <1>0, <2>1 DEF OperatorTypeOK, CallerMoved, CallerRow
  <2>3. OwnerKnows'
    BY <1>9, <2>1 DEF OwnerKnows, OwnerAt, CallerMoved
  <2>4. OperatorsKnow'
    BY <1>0, <2>1 DEF VerdictInvariant, OperatorsKnow, OperatorAt, CallerMoved
  <2>5. RowsKnow'
    BY <2>1 DEF VerdictInvariant, RowsKnow, CallerMoved, Is, HasStarted, IsResume, Verified
  <2>6. Agreed'
    <3>1. \E d \in Orders : Verified(d) /\ envelope[d] = "resume"
      BY <1>9, <2>1 DEF OwnerAt, IsResume
    <3> QED BY <2>1, <3>1 DEF VerdictInvariant, Agreed, CallerMoved, Is, Verified, HasStarted
  <2> QED BY <2>2, <2>3, <2>4, <2>5, <2>6 DEF VerdictInvariant
<1>4. CASE ReadExpiry
  <2>1. /\ caller[Owner].pc = "expiring" /\ lane = "human_only"
        /\ UNCHANGED <<lane, item, request, answered, child, receipt, envelope, stages>>
    BY <1>4, <1>9 DEF ReadExpiry, Is, evidence, OwnerAt
  <2>2. \/ /\ item = "open" /\ request = "open"
           /\ \E c \in IF Requested = {} THEN {None} ELSE Requested : CallerMoved(Owner, "expire", c)
        \/ /\ ~(item = "open" /\ request = "open")
           /\ CallerMoved(Owner, "ended", None) \/ CallerMoved(Owner, "expiring", None)
    BY <1>0, <1>4, Movements DEF ReadExpiry, Requested
  <2>3. CASE Requested = {} /\ CallerMoved(Owner, "expire", None)
    <3>1. \A d \in Orders : ~HasStarted(d)
      BY <2>1, <2>3 DEF VerdictInvariant, RowsKnow, Requested, IsResume
    <3> QED BY <1>0, <2>1, <2>3, <3>1, MoveKeeps DEF OwnerAt
  <2>4. ASSUME NEW c \in Requested, CallerMoved(Owner, "expire", c) PROVE VerdictInvariant'
    <3>1. c \in Orders /\ IsResume(c) /\ c # None
      BY <2>4 DEF Requested, IsResume
    <3> QED BY <1>0, <2>1, <2>4, <3>1, MoveKeeps DEF OwnerAt
  <2>5. CASE /\ ~(item = "open" /\ request = "open")
             /\ CallerMoved(Owner, "ended", None) \/ CallerMoved(Owner, "expiring", None)
    BY <1>0, <2>1, <2>5, MoveKeeps DEF OwnerAt
  <2> QED BY <2>2, <2>3, <2>4, <2>5
<1>5. CASE WriteExpiry
  <2> DEFINE c == caller[Owner].order
  <2>1. /\ caller[Owner].pc = "expire" /\ lane = "human_only"
        /\ UNCHANGED <<lane, answered, child, receipt, envelope>>
        /\ c # None => c \in Orders /\ IsResume(c)
    BY <1>5, <1>9 DEF WriteExpiry, Is, evidence, OwnerAt
  <2>2. CASE /\ ~(item = "open" /\ request = "open" /\ (c = None \/ ~Unknown(c)))
             /\ UNCHANGED <<item, request, stages>>
             /\ CallerMoved(Owner, "ended", None) \/ CallerMoved(Owner, "expiring", None)
    BY <1>0, <2>1, <2>2, MoveKeeps DEF OwnerAt
  <2>3. CASE /\ item = "open" /\ request = "open" /\ item' = "expired" /\ request' = "expired"
             /\ IF c = None THEN stages' = stages ELSE Added(c, "failed")
             /\ CallerMoved(Owner, "ended", None)
    <3>1. /\ stages' \in [Orders -> SUBSET ResultNames]
          /\ \A d \in Orders : /\ Verified(d)' <=> Verified(d)
                               /\ HasStarted(d)' <=> HasStarted(d)
                               /\ IsResume(d)' <=> IsResume(d)
                               /\ "failed" \in stages'[d] <=> "failed" \in stages[d] \/ d = c
      BY <2>1, <2>3, VerdictTypes DEF Added, ResultNames, Verified, HasStarted, IsResume
    <3>2. OperatorTypeOK'
      BY <1>0, <2>1, <2>3, <3>1 DEF OperatorTypeOK, CallerMoved, CallerRow, ResultNames
    <3>3. OwnerKnows'
      BY <2>3 DEF OwnerKnows, OwnerAt, CallerMoved
    <3>4. OperatorsKnow'
      BY <1>0, <2>1, <2>3 DEF VerdictInvariant, OperatorsKnow, OperatorAt, CallerMoved
    <3>5. RowsKnow'
      BY <2>1, <2>3, <3>1 DEF VerdictInvariant, RowsKnow, CallerMoved, Is
    <3>6. Agreed'
      <4>1. \A d \in Orders : HasStarted(d) => d = c
        BY <1>9, <2>1 DEF OwnerAt, VerdictInvariant, RowsKnow, IsResume
      <4> QED BY <2>1, <2>3, <3>1, <4>1 DEF VerdictInvariant, Agreed
    <3> QED BY <3>2, <3>3, <3>4, <3>5, <3>6 DEF VerdictInvariant
  <2>4. /\ ExpiryRaises => CallerMoved(Owner, "ended", None) \/ CallerMoved(Owner, "expiring", None)
        /\ caller' = [caller EXCEPT ![Owner] = At("ended")] => CallerMoved(Owner, "ended", None)
    BY <1>0, Movements
  <2>5. \A d \in Orders : stages' = [stages EXCEPT ![d] = @ \cup {"failed"}] => Added(d, "failed")
    BY Storing DEF ResultNames
  <2> QED BY <1>5, <2>1, <2>2, <2>3, <2>4, <2>5 DEF WriteExpiry
<1> QED BY <1>1, <1>2, <1>3, <1>4, <1>5 DEF OwnerStep

\* Every behaviour of the operators' commands keeps the invariant.
LEMMA VerdictsHold == OperatorSpec => []VerdictInvariant
<1>1. OperatorInit => VerdictInvariant
  <2> SUFFICES ASSUME OperatorInit PROVE VerdictInvariant
    OBVIOUS
  <2>1. /\ OperatorTypeOK /\ item = "open" /\ request \in {"none", "open"}
        /\ request = "none" <=> lane = "receipt_reconciliation"
        /\ \A c \in Orders : envelope[c] = "none" /\ stages[c] = {}
        /\ \A p \in Processes : caller[p].pc = "idle"
        /\ caller[Owner].pc = IF lane = "human_only" THEN "waiting" ELSE "ended"
    BY DEF OperatorInit, OperatorTypeOK, Callers, At
  <2> QED BY <2>1 DEF VerdictInvariant, OwnerKnows, OwnerAt, OperatorsKnow, OperatorAt, RowsKnow, Agreed,
          Verified, IsResume, HasStarted, Is, OperatorTypeOK
<1>2. VerdictInvariant /\ [OperatorNext]_<<now, operatorVars>> => VerdictInvariant'
  <2> SUFFICES ASSUME VerdictInvariant, [OperatorNext]_<<now, operatorVars>>
               PROVE  VerdictInvariant'
    OBVIOUS
  <2>1. CASE Answer \/ UNCHANGED operatorVars
    <3>1. /\ UNCHANGED <<lane, item, request, envelope, stages, child, receipt, caller>>
          /\ answered' \in BOOLEAN
      BY <2>1 DEF Answer, operatorVars, VerdictInvariant, OperatorTypeOK
    <3>2. OperatorTypeOK' /\ OwnerKnows' /\ OperatorsKnow'
      BY <3>1 DEF VerdictInvariant, OperatorTypeOK, OwnerKnows, OwnerAt, OperatorsKnow, OperatorAt,
         Verified, IsResume, HasStarted
    <3>3. RowsKnow' /\ Agreed'
      BY <3>1 DEF VerdictInvariant, RowsKnow, Agreed, Verified, IsResume, HasStarted, HasEnded, Unknown, Is
    <3> QED BY <3>2, <3>3 DEF VerdictInvariant
  <2> QED BY <2>1, OperatorKeeps, ExecutorKeeps, OwnerKeeps DEF OperatorNext, operatorVars
<1> QED BY <1>1, <1>2, PTL DEF OperatorSpec

\* An exception gets one verdict, and its rows agree, for any operators and commands.
THEOREM OneVerdict == OperatorSpec => []VerdictsAgree
<1>1. VerdictInvariant => VerdictsAgree
  BY DEF VerdictInvariant, VerdictsAgree, Agreed, Verified
<1> QED BY <1>1, VerdictsHold, PTL

-----------------------------------------------------------------------------
(* Tasks *)

HIDE OperatorAssumption
USE JournalAssumption, BaseAssumption DEF Results, Terminal

TaskRow == [status : {"free", "pending", "running"} \cup Terminal, epoch : Nat,
            cancel : BOOLEAN, expired : BOOLEAN, due : BOOLEAN, late : BOOLEAN]

PoolRow == [pc : {"idle", "claimed", "running", "finishing", "retrying", "acking"},
            task : Tasks \cup {None}, epoch : Nat, outcome : Results \cup {"none"}]

\* What a worker knows of the task it executes at each point.
WorkerKnows(w) ==
  /\ pool[w].pc # "idle" => pool[w].task \in Tasks
  /\ pool[w].pc = "idle" => pool[w].task = None
  /\ pool[w].pc \notin {"idle", "claimed"} => pool[w].task \in Runnable
  /\ pool[w].pc = "finishing" => pool[w].outcome \in Results
  /\ pool[w].pc = "retrying" => pool[w].epoch <= RetryBudget

\* An effect goes through its statuses once.
EffectClaimed(t) ==
  t \notin Reads => task[t].epoch <= IF task[t].status \in {"free", "pending"} THEN 0 ELSE 1

\* Whoever may claim a task next leaves room for the claim.
MayBeClaimed(t) ==
  \/ task[t].status = "pending"
  \/ task[t].status = "running" /\ (task[t].expired \/ ~\E w \in Processes : HeldBy(w, t))

ClaimBound(t) ==
  /\ task[t].status = "free" => task[t].epoch = 0
  /\ task[t].epoch <= 1 + RetryBudget + faults
  /\ MayBeClaimed(t) => task[t].epoch <= RetryBudget + faults

TaskInvariant ==
  /\ JournalTypeOK
  /\ \A w \in Processes : WorkerKnows(w)
  /\ CancelHolds
  /\ \A t \in Tasks : EffectClaimed(t) /\ ClaimBound(t)

-----------------------------------------------------------------------------
(* Steps *)

LEMMA TaskInit == JournalInit => TaskInvariant
<1> SUFFICES ASSUME JournalInit PROVE TaskInvariant
  OBVIOUS
<1>1. JournalTypeOK
  BY DEF JournalInit, JournalTypeOK, AtRest
<1>2. \A w \in Processes : WorkerKnows(w)
  BY DEF JournalInit, WorkerKnows, AtRest
<1>3. CancelHolds /\ \A t \in Tasks : EffectClaimed(t) /\ ClaimBound(t)
  BY DEF JournalInit, CancelHolds, EffectClaimed, ClaimBound, MayBeClaimed
<1> QED BY <1>1, <1>2, <1>3 DEF TaskInvariant

\* One task changes its row, and not in the claim that is in force.
OneRow(t) ==
  /\ task' = [task EXCEPT ![t] = task'[t]]
  /\ task'[t] \in TaskRow

\* What happens to a task beside its workers.
LEMMA TaskStepInvariant ==
  ASSUME TaskInvariant, NEW t \in Tasks, TaskStep(t)
  PROVE  TaskInvariant'
<1> DEFINE old == task[t]
           new == task'[t]
<1>0. /\ task \in [Tasks -> TaskRow] /\ pool \in [Processes -> PoolRow] /\ faults \in 0..MaxFaults
      /\ old \in TaskRow
  BY DEF TaskInvariant, JournalTypeOK, TaskRow, PoolRow
<1>1. /\ UNCHANGED pool
      /\ OneRow(t)
      /\ new.epoch = old.epoch
      /\ faults' \in 0..MaxFaults
      /\ \/ /\ new.status = old.status /\ new.cancel = old.cancel
            /\ new.expired = old.expired /\ faults' = faults
         \/ /\ old.status = "free" /\ new.status = "pending" /\ new.cancel = old.cancel
            /\ faults' = faults
         \/ /\ new.cancel /\ faults' = faults /\ new.expired = old.expired
            /\ \/ old.status = "running" /\ new.status = "running"
               \/ old.status = "pending" /\ new.status = "cancelled"
         \/ /\ old.status = "running" /\ new.status = "running" /\ new.cancel = old.cancel
            /\ \/ faults' = faults + 1
               \/ faults' = faults /\ ~\E w \in Processes : HeldBy(w, t)
  <2>1. CASE RegisterTask(t)
    BY <1>0, <2>1 DEF RegisterTask, OneRow, TaskRow
  <2>2. CASE RequestCancel(t)
    BY <1>0, <2>2 DEF RequestCancel, OneRow, TaskRow
  <2>3. CASE LeaseRunsOut(t)
    <3>1. /\ task' = [task EXCEPT ![t].expired = TRUE] /\ UNCHANGED pool
          /\ old.status = "running"
          /\ \/ faults < MaxFaults /\ faults' = faults + 1
             \/ faults' = faults /\ ~\E w \in Processes : HeldBy(w, t)
      BY <2>3, Zenon DEF LeaseRunsOut
    <3>2. /\ OneRow(t) /\ new.status = "running" /\ new.cancel = old.cancel
          /\ new.epoch = old.epoch
      BY <1>0, <3>1 DEF OneRow, TaskRow
    <3>3. faults' \in 0..MaxFaults
      BY <1>0, <3>1
    <3> QED BY <3>1, <3>2, <3>3, Zenon
  <2>4. CASE RetryFallsDue(t)
    BY <1>0, <2>4 DEF RetryFallsDue, OneRow, TaskRow
  <2>5. CASE DeadlinePasses(t)
    BY <1>0, <2>5 DEF DeadlinePasses, OneRow, TaskRow
  <2> QED BY <2>1, <2>2, <2>3, <2>4, <2>5 DEF TaskStep
<1>2. JournalTypeOK'
  BY <1>0, <1>1 DEF OneRow, TaskRow, PoolRow, JournalTypeOK
<1>3. \A w \in Processes : WorkerKnows(w)'
  BY <1>1 DEF WorkerKnows, TaskInvariant
<1>4. CancelHolds'
  BY <1>0, <1>1 DEF OneRow, CancelHolds, TaskInvariant
<1>5. \A u \in Tasks : EffectClaimed(u)'
  BY <1>0, <1>1 DEF OneRow, TaskRow, EffectClaimed, TaskInvariant
<1>6. ASSUME NEW u \in Tasks PROVE ClaimBound(u)'
  <2>1. task'[u].epoch = task[u].epoch
    BY <1>0, <1>1 DEF OneRow
  <2>2. \A w \in Processes : HeldBy(w, u)' <=> HeldBy(w, u)
    BY <1>1, <2>1 DEF HeldBy
  <2>3. ClaimBound(u) /\ faults \in Nat /\ faults' \in Nat /\ faults <= faults'
        /\ task[u].epoch \in Nat
    BY <1>0, <1>1 DEF TaskInvariant, TaskRow
  <2>4. CASE u # t
    <3>1. task'[u] = task[u]
      BY <1>0, <1>1, <2>4 DEF OneRow
    <3> QED BY <2>1, <2>2, <2>3, <3>1 DEF ClaimBound, MayBeClaimed
  <2>5. CASE u = t
    BY <1>0, <1>1, <2>1, <2>2, <2>3, <2>5 DEF ClaimBound, MayBeClaimed
  <2> QED BY <2>4, <2>5
<1> QED BY <1>2, <1>3, <1>4, <1>5, <1>6 DEF TaskInvariant

\* A worker goes on with its task, ends it, hands it back for a retry, or is lost to it.
OwnTask(w) ==
  LET t == pool[w].task IN
  /\ t \in Tasks /\ OneRow(t)
  /\ task'[t].epoch = task[t].epoch /\ task'[t].cancel = task[t].cancel
  /\ pool' = [pool EXCEPT ![w] = pool'[w]] /\ pool'[w] \in PoolRow
  /\ WorkerKnows(w)'
  /\ \/ /\ task'[t].status \in Terminal /\ Fenced(w) /\ UNCHANGED faults
        /\ task[t].cancel => task'[t].status \in {"cancelled", "dead_letter"}
        /\ pool'[w].task = None
     \/ /\ task'[t].status = "pending" /\ t \in Runnable /\ Fenced(w)
        /\ pool[w].epoch <= RetryBudget /\ UNCHANGED faults
        /\ pool'[w].task = None
     \/ /\ task'[t].status = task[t].status
        /\ task'[t].expired => task[t].expired
        /\ pool'[w].task = t /\ pool'[w].epoch = pool[w].epoch /\ UNCHANGED faults
     \/ /\ task'[t] = task[t] /\ pool'[w].task = None
        /\ \/ ~Fenced(w) /\ UNCHANGED faults
           \/ faults < MaxFaults /\ faults' = faults + 1

LEMMA OwnTaskInvariant ==
  ASSUME TaskInvariant, NEW w \in Processes, OwnTask(w)
  PROVE  TaskInvariant'
<1> DEFINE t == pool[w].task
<1>0. /\ task \in [Tasks -> TaskRow] /\ pool \in [Processes -> PoolRow] /\ faults \in 0..MaxFaults
      /\ t \in Tasks
  BY DEF TaskInvariant, JournalTypeOK, TaskRow, PoolRow, OwnTask
<1>1. \A u \in Tasks \ {t} : task'[u] = task[u]
  BY <1>0 DEF OwnTask, OneRow
<1>2. JournalTypeOK'
  <2>1. task' \in [Tasks -> TaskRow]
    BY <1>0 DEF OwnTask, OneRow
  <2>2. pool' \in [Processes -> PoolRow]
    BY <1>0 DEF OwnTask
  <2>3. faults' \in 0..MaxFaults
    BY <1>0 DEF OwnTask
  <2> QED BY <2>1, <2>2, <2>3 DEF TaskRow, PoolRow, JournalTypeOK
<1>3. ASSUME NEW q \in Processes PROVE WorkerKnows(q)'
  <2>1. CASE q = w
    BY <2>1 DEF OwnTask
  <2>2. CASE q # w
    <3>1. pool'[q] = pool[q]
      BY <1>0, <2>2 DEF OwnTask
    <3> QED BY <3>1 DEF WorkerKnows, TaskInvariant
  <2> QED BY <2>1, <2>2
<1>4. CancelHolds'
  BY <1>0, <1>1 DEF OwnTask, CancelHolds, TaskInvariant
<1>5. \A u \in Tasks : EffectClaimed(u)'
  BY <1>0, <1>1 DEF OwnTask, Fenced, EffectClaimed, TaskInvariant, TaskRow
<1>6. ASSUME NEW u \in Tasks PROVE ClaimBound(u)'
  <2>1. ClaimBound(u) /\ faults \in Nat /\ faults' \in Nat /\ task[u].epoch \in Nat
    BY <1>0 DEF TaskInvariant, TaskRow, OwnTask
  <2>2. \A q \in Processes \ {w} : HeldBy(q, u)' <=> HeldBy(q, u)
    BY <1>0, <1>1 DEF HeldBy, OwnTask
  <2>3. CASE u # t
    <3>1. ~HeldBy(w, u) /\ ~HeldBy(w, u)'
      BY <1>0, <2>3 DEF HeldBy, OwnTask
    <3> QED BY <1>1, <2>1, <2>2, <2>3, <3>1 DEF ClaimBound, MayBeClaimed, OwnTask
  <2>4. CASE u = t
    <3>1. task'[t].epoch = task[t].epoch /\ task[t].status \in {"free", "pending", "running"} \cup Terminal
      BY <1>0 DEF OwnTask, TaskRow
    <3>2. CASE task'[t].status \in Terminal /\ UNCHANGED faults
      BY <2>1, <2>4, <3>1, <3>2 DEF ClaimBound, MayBeClaimed
    <3>3. CASE /\ task'[t].status = "pending" /\ Fenced(w)
               /\ pool[w].epoch <= RetryBudget /\ UNCHANGED faults
      BY <2>1, <2>4, <3>1, <3>3 DEF ClaimBound, Fenced, HeldBy
    <3>4. CASE /\ task'[t].status = task[t].status
               /\ task'[t].expired => task[t].expired
               /\ pool'[w].task = t /\ pool'[w].epoch = pool[w].epoch /\ UNCHANGED faults
      <4>1. \A q \in Processes : HeldBy(q, t)' <=> HeldBy(q, t)
        BY <2>2, <2>4, <3>1, <3>4 DEF HeldBy
      <4> QED BY <2>1, <2>4, <3>1, <3>4, <4>1 DEF ClaimBound, MayBeClaimed
    <3>5. CASE task'[t] = task[t] /\ ~Fenced(w) /\ UNCHANGED faults
      <4>1. task[t].status = "running" => ~HeldBy(w, t)
        BY <3>5 DEF Fenced
      <4> QED BY <2>1, <2>2, <2>4, <3>5, <4>1 DEF ClaimBound, MayBeClaimed
    <3>6. CASE task'[t] = task[t] /\ faults' = faults + 1
      BY <2>1, <2>4, <3>6 DEF ClaimBound, MayBeClaimed
    <3> QED BY <3>2, <3>3, <3>4, <3>5, <3>6 DEF OwnTask
  <2> QED BY <2>3, <2>4
<1> QED BY <1>2, <1>3, <1>4, <1>5, <1>6 DEF TaskInvariant

\* The shapes of the steps of a worker.
LEMMA LetsGo ==
  ASSUME TaskInvariant, NEW w \in Processes, pool[w].task \in Tasks, UNCHANGED task, Frees(w),
         \/ ~Fenced(w) /\ UNCHANGED faults
         \/ faults < MaxFaults /\ faults' = faults + 1
  PROVE  OwnTask(w)
<1>1. task[pool[w].task] \in TaskRow /\ pool'[w] = AtRest /\ AtRest \in PoolRow
      /\ pool' = [pool EXCEPT ![w] = pool'[w]]
      /\ task' = [task EXCEPT ![pool[w].task] = task'[pool[w].task]]
  BY DEF TaskInvariant, JournalTypeOK, TaskRow, PoolRow, Frees, AtRest
<1> QED BY <1>1 DEF OwnTask, OneRow, WorkerKnows, AtRest

LEMMA GoesOn ==
  ASSUME TaskInvariant, NEW w \in Processes, pool[w].task \in Runnable, UNCHANGED <<task, faults>>,
         NEW pc \in {"running", "finishing", "retrying", "acking"},
         NEW outcome \in Results \cup {"none"},
         pc = "finishing" => outcome \in Results,
         pc = "retrying" => RetryAdmitted(w),
         pool' = [pool EXCEPT ![w] = [@ EXCEPT !.pc = pc, !.outcome = outcome]]
  PROVE  OwnTask(w)
<1>1. /\ task[pool[w].task] \in TaskRow /\ pool'[w] \in PoolRow
      /\ pool'[w].task = pool[w].task /\ pool'[w].epoch = pool[w].epoch
      /\ pool'[w].pc = pc /\ pool'[w].outcome = outcome
      /\ pool' = [pool EXCEPT ![w] = pool'[w]]
      /\ task' = [task EXCEPT ![pool[w].task] = task'[pool[w].task]]
  BY ZenonT(60) DEF TaskInvariant, JournalTypeOK, TaskRow, PoolRow
<1> QED BY <1>1 DEF OwnTask, OneRow, WorkerKnows, RetryAdmitted

LEMMA EndsTask ==
  ASSUME TaskInvariant, NEW w \in Processes, pool[w].task \in Tasks, Fenced(w), Frees(w),
         UNCHANGED faults,
         NEW status \in Terminal,
         task[pool[w].task].cancel => status \in {"cancelled", "dead_letter"},
         task' = [task EXCEPT ![pool[w].task] = Ended(pool[w].task, status)]
  PROVE  OwnTask(w)
<1>1. pool'[w] = AtRest /\ AtRest \in PoolRow /\ pool' = [pool EXCEPT ![w] = pool'[w]]
  BY DEF TaskInvariant, JournalTypeOK, PoolRow, Frees, AtRest
<1> DEFINE t == pool[w].task
<1>2. task \in [Tasks -> TaskRow] /\ task[t] \in TaskRow
  BY DEF TaskInvariant, JournalTypeOK, TaskRow
<1>3. /\ Ended(t, status) \in TaskRow /\ Ended(t, status).status = status
      /\ Ended(t, status).epoch = task[t].epoch /\ Ended(t, status).cancel = task[t].cancel
  BY <1>2 DEF TaskRow, Ended
<1>4. task'[t] = Ended(t, status)
  BY <1>2
<1>5. OneRow(t)
  BY <1>3, <1>4 DEF OneRow
<1>6. WorkerKnows(w)' /\ pool'[w].task = None
  BY <1>1 DEF WorkerKnows, AtRest
<1> QED BY <1>1, <1>3, <1>4, <1>5, <1>6 DEF OwnTask

LEMMA OwnSteps ==
  ASSUME TaskInvariant, NEW w \in Processes,
         \/ Refuse(w) \/ Start(w) \/ BeatTask(w) \/ Produce(w) \/ Raise(w)
         \/ Persist(w) \/ ScheduleRetry(w) \/ AcknowledgeCancel(w) \/ Drop(w)
  PROVE  OwnTask(w)
<1> DEFINE t == pool[w].task
<1>0. /\ task \in [Tasks -> TaskRow] /\ pool \in [Processes -> PoolRow] /\ faults \in 0..MaxFaults
      /\ WorkerKnows(w)
  BY DEF TaskInvariant, JournalTypeOK, TaskRow, PoolRow
<1>1. t \in Tasks /\ task[t] \in TaskRow
  BY <1>0 DEF WorkerKnows, Refuse, Start, BeatTask, Produce, Raise, Persist, ScheduleRetry,
              AcknowledgeCancel, Drop
<1>2. CASE Refuse(w)
  <2>1. CASE Fenced(w)
    BY <1>1, <1>2, <2>1, EndsTask DEF Refuse
  <2>2. CASE ~Fenced(w)
    BY <1>1, <1>2, <2>2, LetsGo DEF Refuse
  <2> QED BY <2>1, <2>2
<1>3. CASE Start(w)
  <2>1. CASE ~Fenced(w)
    BY <1>1, <1>3, <2>1, LetsGo DEF Start
  <2>2. CASE Fenced(w) /\ (task[t].cancel \/ task[t].late)
    <3>1. t \in Runnable /\ UNCHANGED <<task, faults>> /\ pool[w] \in PoolRow
          /\ \/ pool' = [pool EXCEPT ![w].pc = "acking"]
             \/ pool' = [pool EXCEPT ![w] = [@ EXCEPT !.pc = "finishing", !.outcome = "timed_out"]]
      BY <1>0, <1>3, <2>2 DEF Start
    <3>2. CASE pool' = [pool EXCEPT ![w].pc = "acking"]
      <4>1. pool' = [pool EXCEPT ![w] = [@ EXCEPT !.pc = "acking", !.outcome = pool[w].outcome]]
        BY <1>0, <3>1, <3>2 DEF PoolRow
      <4> QED BY <3>1, <4>1, GoesOn DEF PoolRow
    <3> QED BY <3>1, <3>2, GoesOn
  <2>3. CASE Fenced(w) /\ ~task[t].cancel /\ ~task[t].late
    <3>1. /\ task' = [task EXCEPT ![t].expired = FALSE] /\ UNCHANGED faults
          /\ pool' = [pool EXCEPT ![w].pc = "running"] /\ t \in Runnable
      BY <1>3, <2>3 DEF Start
    <3> QED BY ZenonT(60), <1>0, <1>1, <3>1 DEF OwnTask, OneRow, TaskRow, PoolRow, WorkerKnows
  <2> QED BY <2>1, <2>2, <2>3
<1>4. CASE BeatTask(w)
  BY <1>0, <1>1, <1>4 DEF BeatTask, OwnTask, OneRow, TaskRow, PoolRow, WorkerKnows
<1>5. CASE Produce(w)
  <2>1. CASE ~Fenced(w)
    <3>1. Frees(w) /\ UNCHANGED <<task, faults>>
      BY <1>5, <2>1 DEF Produce
    <3> QED BY <1>1, <2>1, <3>1, LetsGo
  <2>2. CASE Fenced(w)
    <3>1. t \in Runnable /\ UNCHANGED <<task, faults>> /\ pool[w] \in PoolRow
          /\ \/ pool' = [pool EXCEPT ![w].pc = "acking"]
             \/ \E outcome \in Results :
                  pool' = [pool EXCEPT ![w] = [@ EXCEPT !.pc = "finishing", !.outcome = outcome]]
      BY <1>0, <1>5, <2>2 DEF Produce, WorkerKnows
    <3>2. CASE pool' = [pool EXCEPT ![w].pc = "acking"]
      <4>1. pool' = [pool EXCEPT ![w] = [@ EXCEPT !.pc = "acking", !.outcome = pool[w].outcome]]
        BY <1>0, <3>1, <3>2 DEF PoolRow
      <4> QED BY <3>1, <4>1, GoesOn DEF PoolRow
    <3> QED BY <3>1, <3>2, GoesOn
  <2> QED BY <2>1, <2>2
<1>6. CASE Raise(w)
  <2>1. t \in Runnable /\ UNCHANGED <<task, faults>> /\ pool[w] \in PoolRow
    BY <1>0, <1>6 DEF Raise, WorkerKnows
  <2>2. CASE RetryAdmitted(w) /\ pool' = [pool EXCEPT ![w].pc = "retrying"]
    <3>1. pool' = [pool EXCEPT ![w] = [@ EXCEPT !.pc = "retrying", !.outcome = pool[w].outcome]]
      BY <1>0, <2>1, <2>2 DEF PoolRow
    <3> QED BY <2>1, <2>2, <3>1, GoesOn DEF PoolRow
  <2> QED BY <1>6, <2>1, <2>2, GoesOn DEF Raise
<1>7. CASE Persist(w)
  <2>1. CASE Fenced(w) /\ task[t].cancel
    <3>1. t \in Runnable /\ UNCHANGED <<task, faults>> /\ pool[w] \in PoolRow
      BY <1>0, <1>7, <2>1 DEF Persist, WorkerKnows
    <3>2. pool' = [pool EXCEPT ![w] = [@ EXCEPT !.pc = "acking", !.outcome = pool[w].outcome]]
      BY <1>0, <1>7, <2>1, <3>1 DEF PoolRow, Persist
    <3> QED BY <3>1, <3>2, GoesOn DEF PoolRow
  <2>2. CASE Fenced(w) /\ ~task[t].cancel
    BY <1>0, <1>1, <1>7, <2>2, EndsTask DEF Persist, WorkerKnows
  <2>3. CASE ~Fenced(w)
    BY <1>1, <1>7, <2>3, LetsGo DEF Persist
  <2> QED BY <2>1, <2>2, <2>3
<1>8. CASE ScheduleRetry(w)
  <2>1. CASE Fenced(w) /\ task[t].cancel
    <3>1. t \in Runnable /\ UNCHANGED <<task, faults>> /\ pool[w] \in PoolRow
      BY <1>0, <1>8, <2>1 DEF ScheduleRetry, WorkerKnows
    <3>2. pool' = [pool EXCEPT ![w] = [@ EXCEPT !.pc = "acking", !.outcome = pool[w].outcome]]
      BY <1>0, <1>8, <2>1, <3>1 DEF PoolRow, ScheduleRetry
    <3> QED BY <3>1, <3>2, GoesOn DEF PoolRow
  <2>2. CASE Fenced(w) /\ ~task[t].cancel /\ task[t].late
    BY <1>0, <1>1, <1>8, <2>2, EndsTask DEF ScheduleRetry
  <2>3. CASE Fenced(w) /\ ~task[t].cancel /\ ~task[t].late
    <3>1. pool'[w] = AtRest /\ AtRest \in PoolRow /\ pool' = [pool EXCEPT ![w] = pool'[w]]
      BY <1>0, <1>8, <2>3 DEF ScheduleRetry, Frees, AtRest, PoolRow
    <3>2. task' = [task EXCEPT ![t] = [task[t] EXCEPT !.status = "pending", !.expired = FALSE,
                                                      !.due = FALSE]]
          /\ UNCHANGED faults
      BY <1>0, <1>8, <2>3 DEF ScheduleRetry, Ended
    <3>3. OneRow(t) /\ task'[t].status = "pending" /\ task'[t].epoch = task[t].epoch
          /\ task'[t].cancel = task[t].cancel
      BY <1>0, <1>1, <3>2 DEF OneRow, TaskRow
    <3>4. t \in Runnable /\ pool[w].epoch <= RetryBudget
      BY <1>0, <1>8 DEF ScheduleRetry, WorkerKnows
    <3> QED BY <1>1, <2>3, <3>1, <3>2, <3>3, <3>4 DEF OwnTask, WorkerKnows, AtRest
  <2>4. CASE ~Fenced(w)
    BY <1>1, <1>8, <2>4, LetsGo DEF ScheduleRetry
  <2> QED BY <2>1, <2>2, <2>3, <2>4
<1>9. CASE AcknowledgeCancel(w)
  BY <1>1, <1>9, EndsTask, LetsGo DEF AcknowledgeCancel
<1>10. CASE Drop(w)
  BY <1>1, <1>10, LetsGo DEF Drop
<1> QED BY <1>2, <1>3, <1>4, <1>5, <1>6, <1>7, <1>8, <1>9, <1>10

\* A claim counts, and was there to be made.
LEMMA ClaimInvariant ==
  ASSUME TaskInvariant, NEW w \in Processes, NEW t \in Tasks, ClaimTask(w, t)
  PROVE  TaskInvariant'
<1>0. /\ task \in [Tasks -> TaskRow] /\ pool \in [Processes -> PoolRow] /\ faults \in 0..MaxFaults
      /\ task[t] \in TaskRow
  BY DEF TaskInvariant, JournalTypeOK, TaskRow, PoolRow
<1>1. /\ OneRow(t) /\ UNCHANGED faults
      /\ task'[t].status = "running" /\ task'[t].epoch = task[t].epoch + 1
      /\ task'[t].cancel = task[t].cancel /\ task'[t].expired = FALSE
      /\ \A u \in Tasks \ {t} : task'[u] = task[u]
  BY <1>0 DEF ClaimTask, OneRow, TaskRow
<1>2. /\ pool' = [pool EXCEPT ![w] = pool'[w]] /\ pool'[w] \in PoolRow
      /\ pool'[w].pc = "claimed" /\ pool'[w].task = t /\ pool'[w].epoch = task'[t].epoch
      /\ \A q \in Processes \ {w} : pool'[q] = pool[q]
  BY <1>0, <1>1 DEF ClaimTask, PoolRow, TaskRow
<1>3. JournalTypeOK'
  <2>1. task' \in [Tasks -> TaskRow] /\ pool' \in [Processes -> PoolRow]
    BY <1>0, <1>1, <1>2 DEF OneRow
  <2> QED BY <1>0, <1>1, <2>1 DEF TaskRow, PoolRow, JournalTypeOK
<1>4. ASSUME NEW q \in Processes PROVE WorkerKnows(q)'
  BY <1>2 DEF WorkerKnows, TaskInvariant
<1>5. CancelHolds'
  BY <1>0, <1>1 DEF CancelHolds, TaskInvariant, ClaimTask, Claimable
<1>6. \A u \in Tasks : EffectClaimed(u)'
  BY <1>0, <1>1 DEF EffectClaimed, TaskInvariant, ClaimTask, Claimable, TaskRow
<1>7. ASSUME NEW u \in Tasks PROVE ClaimBound(u)'
  <2>1. ClaimBound(u) /\ faults \in Nat /\ task[u].epoch \in Nat
    BY <1>0 DEF TaskInvariant, TaskRow
  <2>2. CASE u = t
    <3>1. HeldBy(w, t)' /\ MayBeClaimed(t)
      BY <1>2 DEF HeldBy, MayBeClaimed, ClaimTask, Claimable
    <3> QED BY <1>1, <2>1, <2>2, <3>1 DEF ClaimBound, MayBeClaimed
  <2>3. CASE u # t
    <3>1. ~HeldBy(w, u) /\ ~HeldBy(w, u)'
      BY <1>2, <2>3 DEF HeldBy, TaskInvariant, WorkerKnows, ClaimTask
    <3>2. \A q \in Processes \ {w} : HeldBy(q, u)' <=> HeldBy(q, u)
      BY <1>1, <1>2, <2>3 DEF HeldBy
    <3> QED BY <1>1, <2>1, <2>3, <3>1, <3>2 DEF ClaimBound, MayBeClaimed
  <2> QED BY <2>2, <2>3
<1> QED BY <1>3, <1>4, <1>5, <1>6, <1>7 DEF TaskInvariant

LEMMA ReapInvariant ==
  ASSUME TaskInvariant, NEW w \in Processes, ReapExpired(w)
  PROVE  TaskInvariant'
<1>0. /\ task \in [Tasks -> TaskRow] /\ faults \in 0..MaxFaults
      /\ UNCHANGED <<pool, faults>>
      /\ task' = Reaped
  BY DEF TaskInvariant, JournalTypeOK, TaskRow, ReapExpired
<1>1. ASSUME NEW t \in Tasks
      PROVE  /\ task'[t] \in TaskRow /\ task'[t].epoch = task[t].epoch
             /\ task'[t].cancel = task[t].cancel
             /\ \/ task'[t] = task[t]
                \/ /\ task[t].status = "running" /\ task[t].expired
                   /\ \/ t \in Reads /\ task'[t].status = "pending"
                      \/ task'[t].status = "dead_letter"
  BY ZenonT(60), <1>0 DEF Reaped, Ended, TaskRow
<1>2. JournalTypeOK'
  <2>1. task' \in [Tasks -> TaskRow]
    BY <1>0, <1>1 DEF Reaped
  <2> QED BY <1>0, <2>1 DEF TaskRow, JournalTypeOK, TaskInvariant
<1>3. \A q \in Processes : WorkerKnows(q)'
  BY <1>0 DEF WorkerKnows, TaskInvariant
<1>4. CancelHolds'
  BY <1>1 DEF CancelHolds, TaskInvariant
<1>5. \A u \in Tasks : EffectClaimed(u)'
  BY <1>0, <1>1 DEF EffectClaimed, TaskInvariant, TaskRow
<1>6. ASSUME NEW u \in Tasks PROVE ClaimBound(u)'
  <2>1. \A q \in Processes : HeldBy(q, u)' <=> HeldBy(q, u)
    BY <1>0, <1>1 DEF HeldBy
  <2>2. ClaimBound(u) /\ faults \in Nat /\ task[u].epoch \in Nat /\ UNCHANGED faults
    BY <1>0 DEF TaskInvariant, TaskRow
  <2>3. CASE task'[u] = task[u]
    BY <2>1, <2>2, <2>3 DEF ClaimBound, MayBeClaimed
  <2>4. CASE task'[u].status \in {"pending", "dead_letter"} /\ MayBeClaimed(u)
    BY <1>1, <2>2, <2>4 DEF ClaimBound
  <2> QED BY <1>1, <2>3, <2>4 DEF MayBeClaimed
<1> QED BY <1>2, <1>3, <1>4, <1>5, <1>6 DEF TaskInvariant

-----------------------------------------------------------------------------
(* The theorems *)

\* The rows and the workers keep their types, and with them all that is proved below.
THEOREM TasksTyped == JournalSpec => []TaskInvariant
<1>1. ASSUME TaskInvariant, [JournalNext]_<<now, journalVars>> PROVE TaskInvariant'
  <2>1. CASE UNCHANGED <<now, journalVars>>
    BY <1>1, <2>1 DEF TaskInvariant, JournalTypeOK, WorkerKnows, CancelHolds, EffectClaimed,
                      ClaimBound, MayBeClaimed, HeldBy, journalVars
  <2>2. ASSUME NEW t \in Tasks, TaskStep(t) PROVE TaskInvariant'
    BY <1>1, <2>2, TaskStepInvariant
  <2>3. ASSUME NEW w \in Processes, PoolStep(w) PROVE TaskInvariant'
    BY <1>1, <2>3, OwnSteps, OwnTaskInvariant, ClaimInvariant, ReapInvariant DEF PoolStep
  <2> QED BY <1>1, <2>1, <2>2, <2>3 DEF JournalNext
<1> QED BY <1>1, TaskInit, PTL DEF JournalSpec

\* A cancellation that was accepted is never overruled by a result.
THEOREM CancellationsHold == JournalSpec => []CancelHolds
BY TasksTyped, PTL DEF TaskInvariant

\* An effect that is not a read is claimed at most once.
THEOREM EffectsClaimedOnce == JournalSpec => []EffectsOnce
<1>1. TaskInvariant => EffectsOnce
  BY DEF TaskInvariant, JournalTypeOK, EffectClaimed, EffectsOnce
<1> QED BY <1>1, TasksTyped, PTL

\* The budget and the faults bound the claims of every task.
THEOREM TaskClaimsBounded == JournalSpec => []ClaimsBounded
<1>1. TaskInvariant => ClaimsBounded
  BY DEF TaskInvariant, ClaimBound, ClaimsBounded
<1> QED BY <1>1, TasksTyped, PTL

=============================================================================
