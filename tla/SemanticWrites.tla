---------------------------- MODULE SemanticWrites ----------------------------
(***************************************************************************)
(* The journal of semantic browser writes: the worker itself uploads the   *)
(* resume of one attempt into the page, at most once, whatever crashes or  *)
(* loses its page lease between two steps.  Actions are the steps of       *)
(* launcher._try_semantic_pre_submit_repair over semantic_browser_ops.py   *)
(* and storage/semantic_browser_writes.py.  An operation is identified by  *)
(* everything its digest covers: the lease and epoch of the page and the   *)
(* scope (provider, page, material) it was issued for.                     *)
(***************************************************************************)
EXTENDS RuntimeBase, FiniteSets

CONSTANTS
  Scopes,     \* what a page can ask for: provider, page and material
  MaxLease,   \* bound: leases of the page that are ever acquired
  MaxEpoch    \* bound: page epochs within one lease

Operations == [lease : 1..MaxLease, epoch : 0..MaxEpoch, scope : Scopes]

ASSUME WriteAssumption ==
  MaxLease \in Nat /\ MaxEpoch \in Nat /\ None \notin Operations

VARIABLES
  journal,   \* journal[o]: the row of operation o and whether its upload was called
  page,      \* the page lease: its holder, its number and its page epoch
  writer,    \* writer[w]: where a repair stands, and its operation
  uploads,   \* how often the upload driver was called for the attempt
  legacy     \* whether the agent was allowed to upload instead

writeVars == <<journal, page, writer, uploads, legacy>>

Parked == {"parked_side_effect_unknown", "parked_stale_after_effect"}
States == {"none", "started", "effect_observed", "verified", "failed_no_effect"} \cup Parked

WriteTypeOK ==
  /\ journal \in [Operations -> [state : States, count : 0..2, called : BOOLEAN]]
  /\ page \in [holder : Processes \cup {None}, lease : 0..MaxLease, epoch : Nat]
  /\ writer \in [Processes ->
       [pc : {"idle", "open", "looked", "begun", "claimed", "validated", "writing",
              "written", "marked", "advanced"},
        op : Operations \cup {None}, count : 0..1]]
  /\ uploads \in Nat
  /\ legacy \in BOOLEAN

WriteInit ==
  /\ journal = [o \in Operations |-> [state |-> "none", count |-> 0, called |-> FALSE]]
  /\ page = [holder |-> None, lease |-> 0, epoch |-> 0]
  /\ writer = [w \in Processes |-> [pc |-> "idle", op |-> None, count |-> 0]]
  /\ uploads = 0
  /\ legacy = FALSE

\* Mutant of Dispatched: operations of the page at hand are not looked for.
DispatchedNone == {}

Dispatched == {o \in Operations : journal[o].count > 0}

Holds(w, o) == page.holder = w /\ page.lease = o.lease /\ page.epoch = o.epoch

Op(w) == writer[w].op

Goes(w, pc) == writer' = [writer EXCEPT ![w].pc = pc]

Returns(w) == writer' = [writer EXCEPT ![w] = [pc |-> "idle", op |-> None, count |-> 0]]

\* A transition is a compare-and-set on the state; losing it changes nothing.
Moved(o, from, to) ==
  IF journal[o].state = from THEN [journal EXCEPT ![o].state = to] ELSE journal

ParkUnknown(o) == journal' = Moved(o, "started", "parked_side_effect_unknown")
ParkStale(o) == journal' = Moved(o, "effect_observed", "parked_stale_after_effect")
NoEffect(o) == journal' = Moved(o, "started", "failed_no_effect")

-----------------------------------------------------------------------------
(* The page lease *)

\* The lease of whoever held it has expired, and w acquires the next one.
PassLease(w) ==
  /\ writer[w].pc = "idle"
  /\ page.lease < MaxLease
  /\ page' = [holder |-> w, lease |-> page.lease + 1, epoch |-> 0]
  /\ UNCHANGED <<journal, writer, uploads, legacy>>

\* Another semantic write of the holder, a batch of controls, advances the page.
BatchAdvance(w) ==
  /\ writer[w].pc = "idle"
  /\ page.holder = w
  /\ page.epoch < MaxEpoch
  /\ page' = [page EXCEPT !.epoch = @ + 1]
  /\ UNCHANGED <<journal, writer, uploads, legacy>>

-----------------------------------------------------------------------------
(* Deciding whether to write *)

Open(w, s) ==
  /\ writer[w].pc = "idle"
  /\ page.holder = w
  /\ page.epoch <= MaxEpoch
  /\ writer' = [writer EXCEPT ![w] =
       [pc |-> "open", op |-> [lease |-> page.lease, epoch |-> page.epoch, scope |-> s],
        count |-> 0]]
  /\ UNCHANGED <<journal, page, uploads, legacy>>

Foreign(o) == {k \in Dispatched : k.scope # o.scope}
Prior(o) == {k \in Operations : journal[k].state # "none" /\ k.scope = o.scope}

\* Dispatches of the attempt whose outcome the page at hand cannot tell.
Unresolved(o) ==
  Foreign(o) \cup {k \in Prior(o) : k # o /\ journal[k].count > 0
                                    /\ journal[k].state \in {"started", "failed_no_effect"}}

\* Only the journal tail of an upload that was observed is left to do.
Completes(w, k) ==
  IF k.lease # Op(w).lease \/ Op(w).epoch \notin {k.epoch, k.epoch + 1}
  THEN ParkStale(k) /\ Returns(w)
  ELSE /\ writer' = [writer EXCEPT ![w].op = k,
                                   ![w].pc = IF Op(w).epoch = k.epoch THEN "marked" ELSE "advanced"]
       /\ UNCHANGED journal

\* A settled operation of the same scope decides; an unresolved one is parked; and a
\* page without its upload control parks what was dispatched to it.
LookAndStop(w) ==
  /\ writer[w].pc = "open"
  /\ \/ \E k \in Prior(Op(w)) :
          /\ Foreign(Op(w)) = {}
          /\ \/ journal[k].state \in Parked \cup {"verified"} /\ Returns(w) /\ UNCHANGED journal
             \/ journal[k].state = "effect_observed" /\ Completes(w, k)
     \/ \E k \in Unresolved(Op(w)) \cup (Prior(Op(w)) \cap Dispatched) :
          ParkUnknown(k) /\ Returns(w)
     \/ Returns(w) /\ UNCHANGED journal
  /\ UNCHANGED <<page, uploads, legacy>>

LookAndGo(w) ==
  /\ writer[w].pc = "open"
  /\ Unresolved(Op(w)) = {}
  /\ \A k \in Prior(Op(w)) : journal[k].state \in {"started", "failed_no_effect"}
  /\ Goes(w, "looked")
  /\ UNCHANGED <<journal, page, uploads, legacy>>

\* begin_operation inserts the row or returns the one that is there.
Begin(w) ==
  LET row == journal[Op(w)] IN
  /\ writer[w].pc = "looked"
  /\ \/ /\ row.state \in {"none", "started"} /\ row.count = 0
        /\ journal' = [journal EXCEPT ![Op(w)].state = "started"]
        /\ writer' = [writer EXCEPT ![w] = [pc |-> "begun", op |-> Op(w), count |-> 0]]
     \/ /\ row.state = "failed_no_effect" /\ row.count = 1
        /\ writer' = [writer EXCEPT ![w] = [pc |-> "begun", op |-> Op(w), count |-> 1]]
        /\ UNCHANGED journal
     \/ /\ row.count = 1 /\ row.state # "failed_no_effect"
        /\ ParkUnknown(Op(w))
        /\ Returns(w)
     \/ row.count = 2 /\ Returns(w) /\ UNCHANGED journal
  /\ UNCHANGED <<page, uploads, legacy>>

\* claim_dispatch: the first dispatch, or one replay of what had no effect.
ClaimDispatch(w) ==
  LET row == journal[Op(w)] IN
  /\ writer[w].pc = "begun"
  /\ IF /\ row.count = writer[w].count
        /\ row.state = IF row.count = 0 THEN "started" ELSE "failed_no_effect"
     THEN /\ journal' = [journal EXCEPT ![Op(w)].state = "started", ![Op(w)].count = @ + 1]
          /\ Goes(w, "claimed")
     ELSE Returns(w) /\ UNCHANGED journal
  /\ UNCHANGED <<page, uploads, legacy>>

\* Mutant of Validate: the page was validated before the claim and is not looked at again.
ValidateNothing(w) ==
  /\ writer[w].pc = "claimed"
  /\ Goes(w, "validated")
  /\ UNCHANGED <<journal, page, uploads, legacy>>

\* upload_bound_resume checks the single-use authority, the page lease and the claim.
\* A lease that was lost, or an exception that is no proof, leaves the row as it is.
Validate(w) ==
  /\ writer[w].pc = "claimed"
  /\ \/ Holds(w, Op(w)) /\ journal[Op(w)].state = "started" /\ Goes(w, "validated") /\ UNCHANGED journal
     \/ Returns(w) /\ UNCHANGED journal
     \/ NoEffect(Op(w)) /\ Returns(w)
  /\ UNCHANGED <<page, uploads, legacy>>

-----------------------------------------------------------------------------
(* The write and its journal tail *)

\* The control is looked at first: it may have gone, or hold the resume already.  An exception
\* that does not tell what has become of it leaves the row as it is.
Observe(w) ==
  /\ writer[w].pc = "validated"
  /\ \/ NoEffect(Op(w)) /\ Returns(w)
     \/ Returns(w) /\ UNCHANGED journal
     \/ Goes(w, "written") /\ UNCHANGED journal
     \/ Goes(w, "writing") /\ UNCHANGED journal
  /\ UNCHANGED <<page, uploads, legacy>>

\* The driver raises, or what it left behind is not what was asked for.
UploadFails(w) ==
  /\ writer[w].pc = "writing"
  /\ journal' = [Moved(Op(w), "started", "parked_side_effect_unknown") EXCEPT ![Op(w)].called = TRUE]
  /\ uploads' = uploads + 1
  /\ Returns(w)
  /\ UNCHANGED <<page, legacy>>

Upload(w) ==
  /\ writer[w].pc = "writing"
  /\ journal' = [journal EXCEPT ![Op(w)].called = TRUE]
  /\ uploads' = uploads + 1
  /\ Goes(w, "written")
  /\ UNCHANGED <<page, legacy>>

MarkEffect(w) ==
  /\ writer[w].pc = "written"
  /\ IF journal[Op(w)].state = "started"
     THEN journal' = [journal EXCEPT ![Op(w)].state = "effect_observed"] /\ Goes(w, "marked")
     ELSE Returns(w) /\ UNCHANGED journal
  /\ UNCHANGED <<page, uploads, legacy>>

AdvanceWritten(w) ==
  /\ writer[w].pc = "marked"
  /\ IF Holds(w, Op(w))
     THEN page' = [page EXCEPT !.epoch = @ + 1] /\ Goes(w, "advanced") /\ UNCHANGED journal
     ELSE ParkStale(Op(w)) /\ Returns(w) /\ UNCHANGED page
  /\ UNCHANGED <<uploads, legacy>>

MarkVerified(w) ==
  /\ writer[w].pc = "advanced"
  /\ journal' = Moved(Op(w), "effect_observed", "verified")
  /\ Returns(w)
  /\ UNCHANGED <<page, uploads, legacy>>

-----------------------------------------------------------------------------
(* The legacy writer, and crashes *)

\* _semantic_legacy_fallback_decision: the agent may upload by itself only if nothing was
\* ever dispatched for the attempt; a dispatch that is open is parked.
Fallback(w) ==
  /\ writer[w].pc \in {"idle", "open"}
  /\ \/ Dispatched = {} /\ legacy' = TRUE /\ UNCHANGED journal
     \/ (\E k \in Dispatched : ParkUnknown(k)) /\ UNCHANGED legacy
  /\ Returns(w)
  /\ UNCHANGED <<page, uploads>>

\* The process dies; its successor has to wait for the lease to expire.
WriterCrash(w) ==
  /\ page.holder = w \/ writer[w].pc # "idle"
  /\ Returns(w)
  /\ page' = [page EXCEPT !.holder = IF @ = w THEN None ELSE @]
  /\ UNCHANGED <<journal, uploads, legacy>>

WriterStep(w) ==
  \/ PassLease(w) \/ BatchAdvance(w)
  \/ \E s \in Scopes : Open(w, s)
  \/ LookAndStop(w) \/ LookAndGo(w) \/ Begin(w) \/ ClaimDispatch(w) \/ Validate(w)
  \/ Observe(w) \/ UploadFails(w) \/ Upload(w)
  \/ MarkEffect(w) \/ AdvanceWritten(w) \/ MarkVerified(w)
  \/ Fallback(w) \/ WriterCrash(w)

WriteNext == (\E w \in Processes : WriterStep(w)) /\ UNCHANGED now

WriteSpec == now = 0 /\ WriteInit /\ [][WriteNext]_<<now, writeVars>>

-----------------------------------------------------------------------------
(* Properties *)

\* The driver is called at most once for an attempt, although every page state has an
\* operation of its own, a claim may be replayed, and the lease may pass to another
\* process between any two steps: the claim comes before the page is validated, so a
\* later holder of the page sees it.
UploadedOnce == uploads <= 1

\* The agent is never given the upload after the driver may have done it.
LegacyBeforeUpload == [][legacy' # legacy => uploads = 0]_writeVars

\* The journal tells the truth about the page: an upload that was called is never recorded
\* as having had no effect, and one is verified only by advancing the very page it wrote
\* to, so that whoever still has the binding from before the write is stale.
JournalIsTrue ==
  \A o \in Operations :
    /\ journal[o].called => journal[o].state # "failed_no_effect"
    /\ journal[o].state = "verified" =>
         \/ page.lease > o.lease
         \/ page.lease = o.lease /\ page.epoch > o.epoch

\* The page, its journal and the drivers of all processes agree on the one upload.
UploadsAgree == UploadedOnce /\ JournalIsTrue

=============================================================================
