----------------------------- MODULE RuntimeCells -----------------------------
(***************************************************************************)
(* Runtime cells: a worker process registers a generation of a cell, and   *)
(* leases the cell, an application and its exact hostname to itself while  *)
(* it drives a browser context.  Expiry is an observation: it marks a lease*)
(* suspect but never frees it.  Actions are the transactions of            *)
(* storage/runtime_cells.py, in the order in which the session of a worker *)
(* (apply/worker_runtime_cell_shadow.py over runtime_cell_coordinator.py)  *)
(* calls them.  As elsewhere, an operator marked "Mutant of D" is D with a *)
(* plausible mistake, and nothing refers to it.                            *)
(***************************************************************************)
EXTENDS RuntimeBase, FiniteSets

CONSTANTS
  Cells,          \* cell slots; one in production, up to two in the diagnostics
  Hosts,          \* exact hostnames of applications
  CellLease       \* ticks a claim or a heartbeat lasts

ASSUME CellAssumption ==
  /\ CellLease \in Nat \ {0}
  /\ None \notin Cells \cup Hosts
  /\ Cells \cap Hosts = {}     \* names of different kinds

VARIABLES
  generation,   \* generation[p]: the row registered under the identity of process p
  lease,        \* lease[a]: the lease row of attempt a; "free" if there is none
  session       \* session[p]: where the worker of process p stands

cellVars == <<generation, lease, session>>

Running == {"active", "suspect", "draining"}
GenerationStatus == Running \cup {"none", "quarantined", "closed"}

\* Mutant of Live: expiry frees the lease.
LiveUnlessSuspect == {"open", "draining"}

Live == {"open", "suspect", "draining"}
LeaseStatus == Live \cup {"free", "released", "quarantined"}

CellTypeOK ==
  /\ generation \in [Processes -> [cell : Cells \cup {None}, status : GenerationStatus]]
  /\ lease \in [Attempts -> [status : LeaseStatus, owner : Processes \cup {None},
                                 host : Hosts \cup {None}, expires : Nat]]
  /\ session \in [Processes ->
       [pc : {"off", "idle", "claimed", "adopted", "open", "leaving", "gone", "dead"},
        attempt : Attempts \cup {None}, context : BOOLEAN]]

CellInit ==
  /\ generation = [p \in Processes |-> [cell |-> None, status |-> "none"]]
  /\ lease = [a \in Attempts |->
       [status |-> "free", owner |-> None, host |-> None, expires |-> 0]]
  /\ session = [p \in Processes |->
       [pc |-> "off", attempt |-> None, context |-> FALSE]]

LiveLeases(p) == {a \in Attempts : lease[a].owner = p /\ lease[a].status \in Live}

-----------------------------------------------------------------------------
(* Expiry, which every claim and heartbeat observes first *)

Overdue(a) == lease[a].status = "open" /\ lease[a].expires <= now

MarkedLeases ==
  [a \in Attempts |-> IF Overdue(a) THEN [lease[a] EXCEPT !.status = "suspect"]
                                        ELSE lease[a]]

MarkedGenerations ==
  [p \in Processes |->
     IF generation[p].status = "active" /\ \E a \in Attempts : lease[a].owner = p /\ Overdue(a)
     THEN [generation[p] EXCEPT !.status = "suspect"] ELSE generation[p]]

MarkExpiredSuspect ==
  /\ lease' = MarkedLeases
  /\ generation' = MarkedGenerations
  /\ UNCHANGED session

-----------------------------------------------------------------------------
(* The session of one process *)

\* The registry of process identities is permanent, so a process registers once; a
\* cell has one generation that runs.
Register(p, c) ==
  /\ session[p].pc = "off"
  /\ generation[p].status = "none"
  /\ \A q \in Processes : generation[q].cell = c => generation[q].status \notin Running
  /\ generation' = [generation EXCEPT ![p] = [cell |-> c, status |-> "active"]]
  /\ session' = [session EXCEPT ![p].pc = "idle"]
  /\ UNCHANGED lease

\* Part of the transaction that acquires the job.  A host or a cell that is leased
\* rolls everything back, the marks too, and acquisition tries another job.
Claim(p, a, h) ==
  /\ session[p].pc = "idle"
  /\ MarkedGenerations[p].status = "active"
  /\ lease[a].status = "free"
  /\ LiveLeases(p) = {}
  /\ \A b \in Attempts : lease[b].host = h => lease[b].status \notin Live
  /\ lease' = [MarkedLeases EXCEPT
       ![a] = [status |-> "open", owner |-> p, host |-> h, expires |-> now + CellLease]]
  /\ generation' = MarkedGenerations
  /\ session' = [session EXCEPT ![p] = [@ EXCEPT !.pc = "claimed", !.attempt = a]]

Mine(p) == session[p].attempt

\* Opening the job starts with a heartbeat.
Adopt(p) ==
  /\ session[p].pc = "claimed"
  /\ MarkedLeases[Mine(p)].status = "open"
  /\ lease' = [MarkedLeases EXCEPT ![Mine(p)].expires = now + CellLease]
  /\ generation' = MarkedGenerations
  /\ session' = [session EXCEPT ![p].pc = "adopted"]

\* The heartbeat comes too late and its marks are rolled back: the error ends the loop.
AdoptRefused(p) ==
  /\ session[p].pc = "claimed"
  /\ MarkedLeases[Mine(p)].status # "open"
  /\ session' = [session EXCEPT ![p].pc = "leaving"]
  /\ UNCHANGED <<generation, lease>>

OpenContext(p) ==
  /\ session[p].pc = "adopted"
  /\ session' = [session EXCEPT ![p] = [@ EXCEPT !.pc = "open", !.context = TRUE]]
  /\ UNCHANGED <<generation, lease>>

\* quarantine_after_cleanup_failure: only the owner of the live lease of a running
\* generation; otherwise it raises and changes nothing.
Quarantinable(p) == lease[Mine(p)].status \in Live /\ generation[p].status \in Running

Quarantined(p) ==
  /\ lease' = [lease EXCEPT ![Mine(p)].status = IF Quarantinable(p) THEN "quarantined" ELSE @]
  /\ generation' = [generation EXCEPT ![p].status = IF Quarantinable(p) THEN "quarantined" ELSE @]

OpenFails(p) ==
  /\ session[p].pc = "adopted"
  /\ Quarantined(p)
  /\ session' = [session EXCEPT ![p].pc = "leaving"]

\* begin_drain, which the scheduler benchmark calls before it releases.
BeginDrain(p) ==
  /\ session[p].pc = "open"
  /\ lease[Mine(p)].status \in {"open", "suspect"}
  /\ lease' = [lease EXCEPT ![Mine(p)].status = "draining"]
  /\ generation' = [generation EXCEPT
       ![p].status = IF @ \in {"active", "suspect"} THEN "draining" ELSE @]
  /\ UNCHANGED session

Releasable(p) == lease[Mine(p)].status \in {"open", "draining"}

\* Mutant of CloseApplication: a drained generation is not made active again.
CloseApplicationDrained(p) ==
  /\ session[p].pc = "open"
  /\ Releasable(p)
  /\ lease' = [lease EXCEPT ![Mine(p)].status = "released"]
  /\ session' = [session EXCEPT ![p] = [pc |-> "idle", attempt |-> None, context |-> FALSE]]
  /\ UNCHANGED generation

\* release_after_cleanup with proof that the agent stopped and nothing is left.
CloseApplication(p) ==
  /\ session[p].pc = "open"
  /\ Releasable(p)
  /\ lease' = [lease EXCEPT ![Mine(p)].status = "released"]
  /\ generation' = [generation EXCEPT ![p].status = IF @ = "draining" THEN "active" ELSE @]
  /\ session' = [session EXCEPT ![p] = [pc |-> "idle", attempt |-> None, context |-> FALSE]]

\* The error of a close leaves the loop; if the session was being closed already, its
\* generation is never closed.
Leaves(p) ==
  \E pc \in {"leaving", "gone"} :
    session' = [session EXCEPT ![p] = [@ EXCEPT !.pc = pc, !.context = FALSE]]

\* The cleanup is clean but the lease is suspect: the release is refused.
ReleaseRefused(p) ==
  /\ session[p].pc = "open"
  /\ ~Releasable(p)
  /\ Leaves(p)
  /\ UNCHANGED <<generation, lease>>

\* The agent did not stop or something is left open.
CleanupFails(p) ==
  /\ session[p].pc = "open"
  /\ Quarantined(p)
  /\ Leaves(p)

\* close_generation_after_cleanup: a live lease or an unclean context quarantines the
\* generation and leaves its lease alone.
CloseGeneration(p) ==
  /\ session[p].pc \in {"idle", "leaving"}
  /\ \E clean \in BOOLEAN :
       generation' = [generation EXCEPT ![p].status =
         IF @ \notin Running THEN @
         ELSE IF clean /\ LiveLeases(p) = {} THEN "closed" ELSE "quarantined"]
  /\ session' = [session EXCEPT ![p].pc = "gone"]
  /\ UNCHANGED lease

\* The process dies; its browser may live on.
CellCrash(p) ==
  /\ session[p].pc \notin {"off", "gone", "dead"}
  /\ session' = [session EXCEPT ![p].pc = "dead"]
  /\ UNCHANGED <<generation, lease>>

SessionStep(p) ==
  \/ \E c \in Cells : Register(p, c)
  \/ \E a \in Attempts, h \in Hosts : Claim(p, a, h)
  \/ Adopt(p) \/ AdoptRefused(p)
  \/ OpenContext(p) \/ OpenFails(p)
  \/ BeginDrain(p)
  \/ CloseApplication(p) \/ ReleaseRefused(p) \/ CleanupFails(p)
  \/ CloseGeneration(p)
  \/ CellCrash(p)

CellNext ==
  \/ (MarkExpiredSuspect \/ \E p \in Processes : SessionStep(p)) /\ UNCHANGED now
  \/ Tick /\ UNCHANGED cellVars

CellSpec == now = 0 /\ CellInit /\ [][CellNext]_<<now, cellVars>>

-----------------------------------------------------------------------------
(* Properties *)

\* The two tables agree although separate statements of several transactions write
\* them: an active generation has no lease beyond an open one, a suspect or draining
\* one has a live lease in the same state, and a closed one has none.  A worker that goes
\* on to the next job can claim, whatever expired, drained or failed before; were this
\* false, the refusal (RuntimeCellQuarantinedError) would end the run of every later job.
TablesAgree ==
  \A p \in Processes :
    LET held == {lease[a].status : a \in LiveLeases(p)} IN
    /\ generation[p].status = "active" => held \subseteq {"open"}
    /\ generation[p].status = "suspect" => held = {"suspect"}
    /\ generation[p].status = "draining" => held = {"draining"}
    /\ generation[p].status \in {"none", "closed"} => held = {}
    /\ session[p].pc = "idle" => generation[p].status = "active" /\ held = {}

\* A hostname and a cell whose browser context may still be open, because it is in use
\* or because its process died, are never given to another process, however late.
UsedBy(r) ==
  {p \in Processes : session[p].context /\ r \in {lease[Mine(p)].host, generation[p].cell}}

CellExclusion == INSTANCE Exclusion WITH
  Resources <- Hosts \cup Cells, Users <- Processes, users <- [r \in Hosts \cup Cells |-> UsedBy(r)]

ImplementsExclusion == CellExclusion!Spec

=============================================================================
