----------------------------- MODULE RunProgress -----------------------------
(***************************************************************************)
(* What the threads of one run share in memory: apply/run_progress.py and  *)
(* the set of attempted URLs, as the worker loop uses them.  Preview       *)
(* tickets bound a dry run, claims and confirmed successes a real one.     *)
(* Every call that takes the lock is an action.  The durable ledger        *)
(* (SubmissionLedger) appears only as who holds a job and which            *)
(* reservations were granted.                                              *)
(***************************************************************************)
EXTENDS Naturals, FiniteSets

CONSTANTS
  Threads, Urls,
  NoUrl,
  PreviewTarget, SuccessTarget, SlotCap   \* of the run; the cap is the manifest's

ASSUME ProgressAssumption ==
  /\ {PreviewTarget, SuccessTarget, SlotCap} \subseteq Nat \ {0}
  /\ NoUrl \notin Urls
  /\ Threads \cap {"open", "closed"} = {}

VARIABLES
  dry,         \* whether the run is a dry run
  exhausted,   \* some thread found nothing left to acquire
  attempted,   \* the URLs that the run acquired
  tickets,     \* unfinished preview tickets: who drew each, and for what
  consumed,    \* the URLs whose preview counts
  claims,      \* the URLs that hold a slot of the run
  terminal,    \* terminal[u]: its first outcome, "none" before
  again,       \* history: the URLs that were given a second outcome
  reserved,    \* the URLs with a durable reservation of this run
  applied,     \* the URLs that a thread recorded as applied, with their receipt
  job,         \* job[u]: "open", "closed", or the thread that holds it
  thread       \* thread[t]: where it stands in the worker loop, and its local variables

progressVars == <<dry, exhausted, attempted, tickets, consumed, claims, terminal, again,
                  reserved, applied, job, thread>>
shared == <<exhausted, attempted, tickets, consumed, claims, terminal, again>>
durable == <<reserved, applied>>

Tickets == [by : Threads, url : Urls]
NoTicket == [by |-> "nobody", url |-> NoUrl]

Starts == [pc |-> "top", url |-> NoUrl, seen |-> {}, ticket |-> NoTicket,
           claimed |-> FALSE, granted |-> FALSE, outcome |-> "none"]

ProgressTypeOK ==
  /\ dry \in BOOLEAN /\ exhausted \in BOOLEAN
  /\ {attempted, consumed, claims, again, reserved, applied} \subseteq SUBSET Urls
  /\ tickets \subseteq Tickets
  /\ terminal \in [Urls -> {"none", "applied", "cancelled_before_action", "other"}]
  /\ job \in [Urls -> {"open", "closed"} \cup Threads]
  /\ thread \in [Threads ->
       [pc : {"top", "copy", "acquire", "ticket", "attempt", "work", "early", "try", "slot",
              "submit", "consume", "finally", "release", "done", "died"},
        url : Urls \cup {NoUrl}, seen : SUBSET Urls, ticket : Tickets \cup {NoTicket},
        claimed : BOOLEAN, granted : BOOLEAN, outcome : {"none", "applied", "other"}]]

ProgressInit ==
  /\ dry \in BOOLEAN
  /\ exhausted = FALSE
  /\ attempted = {} /\ tickets = {} /\ consumed = {} /\ claims = {} /\ again = {}
  /\ reserved = {} /\ applied = {}
  /\ terminal = [u \in Urls |-> "none"]
  /\ job = [u \in Urls |-> "open"]
  /\ thread = [t \in Threads |-> Starts]

Stands(t, pc) == thread[t].pc = pc
Advances(t, pc) == thread' = [thread EXCEPT ![t].pc = pc]

\* A thread gives its job back, as open or closed, if the job is still its own.
GivenBack(t, as) ==
  [u \in Urls |-> IF u = thread[t].url /\ job[u] = t THEN as ELSE job[u]]

Successes == Cardinality({u \in Urls : terminal[u] = "applied"})

\* claim_preview_ticket counts what is claimed together with what is consumed.
PreviewsTaken == Cardinality(consumed) + Cardinality(tickets)

-----------------------------------------------------------------------------
(* Acquisition *)

Capacity ==
  IF dry THEN PreviewsTaken < PreviewTarget
  ELSE Successes < SuccessTarget /\ Cardinality(claims) < SlotCap

\* The loop also ends when the operator stops it or a rate limit is reached.
ShouldAcquire(t) ==
  /\ Stands(t, "top")
  /\ \/ ~exhausted /\ Capacity /\ Advances(t, "copy")
     \/ Advances(t, "done")
  /\ UNCHANGED <<dry, shared, durable, job>>

CopyAttempted(t) ==
  /\ Stands(t, "copy")
  /\ thread' = [thread EXCEPT ![t].pc = "acquire", ![t].seen = attempted]
  /\ UNCHANGED <<dry, shared, durable, job>>

AcquireJob(t) ==
  /\ Stands(t, "acquire")
  /\ \E u \in Urls \ thread[t].seen :
       /\ job[u] = "open"
       /\ job' = [job EXCEPT ![u] = t]
       /\ thread' = [thread EXCEPT ![t] =
            [Starts EXCEPT !.pc = IF dry THEN "ticket" ELSE "attempt", !.url = u]]
  /\ UNCHANGED <<dry, shared, durable>>

\* No candidate passes the filters now: the run counts as exhausted from here on.
NothingToAcquire(t) ==
  /\ Stands(t, "acquire")
  /\ exhausted' = TRUE
  /\ Advances(t, "done")
  /\ UNCHANGED <<dry, attempted, tickets, consumed, claims, terminal, again, durable, job>>

\* A ticket that is out for the same URL is shared.
TicketsFor(u) == {k \in tickets : k.url = u}

ClaimPreviewTicket(t) ==
  /\ Stands(t, "ticket")
  /\ ~exhausted /\ thread[t].url \notin consumed
  /\ \E k \in IF TicketsFor(thread[t].url) # {} THEN TicketsFor(thread[t].url)
              ELSE {[by |-> t, url |-> thread[t].url]} :
       /\ k \in tickets \/ PreviewsTaken < PreviewTarget
       /\ tickets' = tickets \cup {k}
       /\ thread' = [thread EXCEPT ![t].pc = "attempt", ![t].ticket = k]
  /\ UNCHANGED <<dry, exhausted, attempted, consumed, claims, terminal, again, durable, job>>

\* Without a ticket the thread restores the row and ends.
TicketRefused(t) ==
  /\ Stands(t, "ticket")
  /\ \/ exhausted
     \/ thread[t].url \in consumed
     \/ TicketsFor(thread[t].url) = {} /\ PreviewsTaken >= PreviewTarget
  /\ job' = GivenBack(t, "open")
  /\ Advances(t, "done")
  /\ UNCHANGED <<dry, shared, durable>>

MarkAttempted(t) ==
  /\ Stands(t, "attempt")
  /\ attempted' = attempted \cup {thread[t].url}
  /\ Advances(t, "work")
  /\ UNCHANGED <<dry, exhausted, tickets, consumed, claims, terminal, again, durable, job>>

\* Opening the job or looking at its evidence raises: the row is restored, the ticket is
\* released and the thread ends.
InitializationFails(t) ==
  /\ Stands(t, "attempt")
  /\ job' = GivenBack(t, "open")
  /\ tickets' = tickets \ {thread[t].ticket}
  /\ Advances(t, "done")
  /\ UNCHANGED <<dry, exhausted, attempted, consumed, claims, terminal, again, durable>>

-----------------------------------------------------------------------------
(* The attempt *)

\* What record_terminal does with an outcome of u: the first one counts.
Record(u, outcome) ==
  IF terminal[u] # "none"
  THEN again' = again \cup {u} /\ UNCHANGED <<terminal, claims>>
  ELSE /\ terminal' = [terminal EXCEPT ![u] = outcome]
       /\ claims' = IF outcome = "cancelled_before_action" THEN claims \ {u} ELSE claims
       /\ UNCHANGED again

\* Preflight ends the attempt: a duplicate is closed, what is not ready may be tried later.
ExitEarly(t) ==
  /\ Stands(t, "work")
  /\ \E as \in {"open", "closed"} : job' = GivenBack(t, as)
  /\ Advances(t, "early")
  /\ UNCHANGED <<dry, shared, durable>>

RecordEarly(t) ==
  /\ Stands(t, "early")
  /\ Record(thread[t].url, "other")
  /\ tickets' = tickets \ {thread[t].ticket}
  /\ thread' = [thread EXCEPT ![t] = Starts]
  /\ UNCHANGED <<dry, exhausted, attempted, consumed, durable, job>>

\* No try statement covers this stretch: whatever raises here ends the thread, and its
\* ticket stays out.
ThreadDies(t) ==
  /\ thread[t].pc \in {"work", "early"}
  /\ Advances(t, "died")
  /\ UNCHANGED <<dry, shared, durable, job>>

EnterTry(t) ==
  /\ Stands(t, "work")
  /\ Advances(t, "try")
  /\ UNCHANGED <<dry, shared, durable, job>>

BeforeSubmit(t) ==
  /\ Stands(t, "try") /\ ~dry
  /\ thread[t].url \in claims \/ Capacity
  /\ claims' = claims \cup {thread[t].url}
  /\ thread' = [thread EXCEPT ![t].pc = "slot", ![t].claimed = TRUE]
  /\ UNCHANGED <<dry, exhausted, attempted, tickets, consumed, terminal, again, durable, job>>

\* The reservation may commit although its caller sees an error.
ReserveSlot(t) ==
  /\ Stands(t, "slot")
  /\ thread[t].url \notin reserved
  /\ reserved' = reserved \cup {thread[t].url}
  /\ \E seen \in BOOLEAN :
       thread' = [thread EXCEPT ![t].pc = "submit", ![t].granted = seen]
  /\ UNCHANGED <<dry, shared, applied, job>>

\* A dry run was previewed, and says so before the preview is counted.
Previewed(t) ==
  /\ Stands(t, "try") /\ dry
  /\ job' = GivenBack(t, "closed")
  /\ Advances(t, "consume")
  /\ UNCHANGED <<dry, shared, durable>>

\* A ticket that somebody else released in the meantime counts nothing.
ConsumePreview(t) ==
  /\ Stands(t, "consume")
  /\ consumed' = IF thread[t].ticket \in tickets THEN consumed \cup {thread[t].url} ELSE consumed
  /\ tickets' = tickets \ {thread[t].ticket}
  /\ thread' = [thread EXCEPT ![t].pc = "finally", ![t].outcome = "other", ![t].ticket = NoTicket]
  /\ UNCHANGED <<dry, exhausted, attempted, claims, terminal, again, durable, job>>

\* Every other end of an attempt, with or without its reservation.
EndAttempt(t) ==
  /\ thread[t].pc \in {"try", "slot", "submit"}
  /\ \E outcome \in {"applied", "other"}, as \in {"open", "closed"} :
       /\ outcome = "applied" => thread[t].granted
       /\ applied' = IF outcome = "applied" THEN applied \cup {thread[t].url} ELSE applied
       /\ thread' = [thread EXCEPT ![t].pc = "finally", ![t].outcome = outcome]
       /\ job' = GivenBack(t, as)
  /\ UNCHANGED <<dry, shared, reserved>>

\* The handler of an error raises itself: the finally block finds no outcome to record.
LoseOutcome(t) ==
  /\ thread[t].pc \in {"try", "slot", "submit", "consume"}
  /\ tickets' = tickets \ {thread[t].ticket}
  /\ Advances(t, "died")
  /\ UNCHANGED <<dry, exhausted, attempted, consumed, claims, terminal, again, durable, job>>

\* Mutant of RecordTerminal: the outcome is recorded as it is.
RecordAsIs(t) ==
  /\ Stands(t, "finally")
  /\ Record(thread[t].url, thread[t].outcome)
  /\ Advances(t, "release")
  /\ UNCHANGED <<dry, exhausted, attempted, tickets, consumed, durable, job>>

\* A claim that got no reservation is cancelled, whatever the outcome was.
RecordTerminal(t) ==
  /\ Stands(t, "finally")
  /\ Record(thread[t].url, IF thread[t].claimed /\ ~thread[t].granted
                           THEN "cancelled_before_action" ELSE thread[t].outcome)
  /\ Advances(t, "release")
  /\ UNCHANGED <<dry, exhausted, attempted, tickets, consumed, durable, job>>

\* The loop goes on, or an interrupt ends it here.
ReleaseTicket(t) ==
  /\ Stands(t, "release")
  /\ tickets' = tickets \ {thread[t].ticket}
  /\ \E pc \in {"top", "done"} : thread' = [thread EXCEPT ![t] = [Starts EXCEPT !.pc = pc]]
  /\ UNCHANGED <<dry, exhausted, attempted, consumed, claims, terminal, again, durable, job>>

\* The lease of a job runs out under a thread that is slow or dead, and the job is recovered.
LeaseRunsOutOn(u) ==
  /\ job[u] \in Threads
  /\ job' = [job EXCEPT ![u] = "open"]
  /\ UNCHANGED <<dry, shared, durable, thread>>

ThreadStep(t) ==
  \/ ShouldAcquire(t) \/ CopyAttempted(t) \/ AcquireJob(t) \/ NothingToAcquire(t)
  \/ ClaimPreviewTicket(t) \/ TicketRefused(t) \/ MarkAttempted(t) \/ InitializationFails(t)
  \/ ExitEarly(t) \/ RecordEarly(t) \/ ThreadDies(t) \/ EnterTry(t)
  \/ BeforeSubmit(t) \/ ReserveSlot(t) \/ Previewed(t) \/ ConsumePreview(t)
  \/ EndAttempt(t) \/ LoseOutcome(t) \/ RecordTerminal(t) \/ ReleaseTicket(t)

ProgressNext == (\E t \in Threads : ThreadStep(t)) \/ (\E u \in Urls : LeaseRunsOutOn(u))

ProgressSpec == ProgressInit /\ [][ProgressNext]_progressVars

-----------------------------------------------------------------------------
(* Properties *)

\* The run neither loses capacity nor a success nor overshoots.  A slot that was claimed
\* before Submit is backed by a reservation, belongs to a thread that has not recorded its
\* outcome yet or died before it could, or to a URL that two threads attempted.  A success
\* that is not counted is such a URL's too, or still to be recorded.  A dry run works on no
\* more URLs than it may preview, unless a thread lost a ticket that it shared.
RunAccounts ==
  LET working == {t \in Threads : thread[t].ticket # NoTicket /\ ~Stands(t, "died")}
  IN /\ \A u \in claims \ (reserved \cup again) :
          \E t \in Threads : thread[t].url = u /\ thread[t].claimed
     /\ \A u \in applied \ again :
          terminal[u] = "applied" \/ \E t \in Threads : thread[t].url = u /\ Stands(t, "finally")
     /\ (\A t \in working : thread[t].ticket \in tickets)
          => Cardinality(consumed \cup {thread[t].url : t \in working}) <= PreviewTarget

=============================================================================
