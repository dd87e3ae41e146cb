------------------------------ MODULE TaskGraph ------------------------------
(***************************************************************************)
(* execute_task_graph: one coordinator turns a graph of specialist tasks   *)
(* into calls on a thread pool and results.  Whether a task may start is   *)
(* decided from results, claims, the success target, deadlines and a       *)
(* cancellation that another thread may ask for at any time.               *)
(***************************************************************************)
EXTENDS RuntimeBase, FiniteSets

CONSTANTS
  Nodes,            \* the tasks
  Deps, Required,   \* per task, depends_on and required_results
  Claims,           \* per task, the units of every resource that its claims sum up to
  Largest,          \* per task, the units of the largest claim it makes of every resource
  Conflicts,        \* per task, its conflict keys
  Retries,          \* per task, its retry budget
  Rank,             \* per task, its place in the order of priority and position
  Counting,         \* the tasks that count toward the target
  Timed,            \* the tasks with a deadline
  Resources, CapacityOf, ConflictKeys,
  GraphWorkers,     \* max_workers
  GraphTarget       \* target_successes; none is more than there are tasks

Statuses == {"completed", "failed", "refused", "blocked", "cancelled", "timed_out"}

ASSUME GraphAssumption ==
  /\ IsFiniteSet(Nodes)
  /\ Deps \in [Nodes -> SUBSET Nodes] /\ Required \in [Nodes -> SUBSET Nodes]
  /\ \A t \in Nodes : Required[t] \subseteq Deps[t]
  /\ \A S \in (SUBSET Nodes) \ {{}} : \E t \in S : Deps[t] \cap S = {}    \* no cycle: checked at entry
  /\ Claims \in [Nodes -> [Resources -> Nat]] /\ Conflicts \in [Nodes -> SUBSET ConflictKeys]
  /\ Largest \in [Nodes -> [Resources -> Nat]] /\ CapacityOf \in [Resources -> Nat]
  /\ \A t \in Nodes, r \in Resources :      \* no claim is empty or beyond its capacity: checked one by one
       /\ Largest[t][r] <= Claims[t][r] /\ (Claims[t][r] > 0 => Largest[t][r] > 0)
       /\ Largest[t][r] <= CapacityOf[r]
  /\ Retries \in [Nodes -> Nat] /\ Rank \in [Nodes -> Nat] /\ Counting \subseteq Nodes /\ Timed \subseteq Nodes
  /\ GraphWorkers \in Nat \ {0} /\ GraphTarget \in Nat \ {0}
  /\ None \notin Statuses

VARIABLES
  coord,            \* where the coordinator stands, and whether this round made progress
  left,             \* tasks its current loop has still to visit
  pending, running, \* its sets
  ended,            \* the tasks in flight whose call has ended
  attempts, results,
  inUse, held,      \* units per resource, and conflict keys
  successes,        \* target_count
  cancelled,        \* external_stop
  late              \* tasks whose deadline has passed

graphVars ==
  <<coord, left, pending, running, ended, attempts, results, inUse, held, successes, cancelled, late>>

\* Stuck and failed have raised: no task can make progress, or a result could not be consumed.
CoordPcs == {"scan", "start", "wait", "collect", "returned", "stuck", "failed"}

GraphTypeOK ==
  /\ coord \in [pc : CoordPcs, moved : BOOLEAN]
  /\ left \subseteq Nodes /\ pending \subseteq Nodes /\ running \subseteq Nodes
  /\ ended \subseteq Nodes
  /\ attempts \in [Nodes -> Nat]
  /\ results \in [Nodes -> Statuses \cup {None}]
  /\ inUse \in [Resources -> Nat] /\ held \subseteq ConflictKeys
  /\ successes \in Nat /\ cancelled \in BOOLEAN /\ late \subseteq Nodes

GraphInit ==
  /\ coord = [pc |-> "scan", moved |-> FALSE]
  /\ left = Nodes /\ pending = Nodes /\ running = {}
  /\ ended = {}
  /\ attempts = [t \in Nodes |-> 0]
  /\ results = [t \in Nodes |-> None]
  /\ inUse = [r \in Resources |-> 0] /\ held = {}
  /\ successes = 0 /\ cancelled = FALSE /\ late = {}

TargetReached == successes >= GraphTarget
Answered(t) == results[t] # None
Succeeded(t) == results[t] = "completed"
Unblocked(t) == \A d \in Deps[t] : Answered(d)

\* Two claims of one resource are looked at one by one, though both are reserved.
Available(t) ==
  /\ \A r \in Resources : Claims[t][r] > 0 => inUse[r] + Largest[t][r] <= CapacityOf[r]
  /\ Conflicts[t] \cap held = {}

\* Mutant of TargetTaken: the calls in flight are not counted.
TargetTakenAlready(t) == t \in Counting /\ successes >= GraphTarget

\* The target is met if every counted call in flight succeeds.
TargetTaken(t) ==
  t \in Counting /\ successes + Cardinality(running \cap Counting) >= GraphTarget

CoordFails == coord' = [coord EXCEPT !.pc = "failed"]

\* Every result is recorded and passes through the reducer at once, and then a success is
\* counted.  A reducer that raises ends the coordinator.
Consume(t, status) ==
  /\ results' = [results EXCEPT ![t] = status]
  /\ \/ /\ successes' = IF t \in Counting /\ status = "completed" THEN successes + 1 ELSE successes
        /\ coord' = [coord EXCEPT !.moved = (@ \/ coord.pc = "scan")]
     \/ CoordFails /\ UNCHANGED successes

-----------------------------------------------------------------------------
(* The scan: tasks that can no longer run become results.  It visits the tasks in the order *)
(* of a Python set, so a task may be passed before what it requires is settled.             *)

\* What a pending task has become, None if it may still run.
Verdict(t) ==
  CASE TargetReached -> "cancelled"
    [] ~TargetReached /\ cancelled -> "cancelled"
    [] ~TargetReached /\ ~cancelled /\ t \in late -> "timed_out"
    [] OTHER -> IF Unblocked(t) /\ \E d \in Required[t] : ~Succeeded(d) THEN "blocked" ELSE None

ScanTask(t) ==
  /\ coord.pc = "scan" /\ t \in left
  /\ left' = left \ {t}
  /\ IF Verdict(t) = None THEN UNCHANGED <<coord, pending, results, successes>>
     ELSE /\ pending' = pending \ {t}
          /\ Consume(t, Verdict(t))
  /\ UNCHANGED <<running, ended, attempts, inUse, held, cancelled, late>>

\* The list of ready tasks is made once, before the first of them starts.
ScanEnds ==
  /\ coord.pc = "scan" /\ left = {}
  /\ left' = {t \in pending : Unblocked(t) /\ Available(t)}
  /\ coord' = [coord EXCEPT !.pc = "start"]
  /\ UNCHANGED <<pending, running, ended, attempts, results, inUse, held, successes, cancelled, late>>

-----------------------------------------------------------------------------
(* The start of the ready tasks, in order *)

MayStart == Cardinality(running) < GraphWorkers /\ ~TargetReached /\ ~cancelled

Foremost(t) == coord.pc = "start" /\ t \in left /\ \A u \in left : Rank[t] <= Rank[u]

StartTask(t) ==
  /\ Foremost(t) /\ MayStart
  /\ Available(t) /\ ~TargetTaken(t)
  /\ left' = left \ {t}
  /\ pending' = pending \ {t}
  /\ running' = running \cup {t}
  /\ ended' = ended \ {t}
  /\ attempts' = [attempts EXCEPT ![t] = @ + 1]
  /\ inUse' = [r \in Resources |-> inUse[r] + Claims[t][r]]
  /\ held' = held \cup Conflicts[t]
  /\ coord' = [coord EXCEPT !.moved = TRUE]
  /\ UNCHANGED <<results, successes, cancelled, late>>

PassOver(t) ==
  /\ Foremost(t) /\ MayStart
  /\ ~Available(t) \/ TargetTaken(t)
  /\ left' = left \ {t}
  /\ UNCHANGED <<coord, pending, running, ended, attempts, results, inUse, held, successes, cancelled, late>>

\* Nothing runs and nothing moved is an error; with nothing running the loop goes round.
StartsEnd ==
  /\ coord.pc = "start"
  /\ left = {} \/ ~MayStart
  /\ IF running # {}
     THEN coord' = [coord EXCEPT !.pc = "wait"] /\ left' = {}
     ELSE IF pending = {}
     THEN coord' = [coord EXCEPT !.pc = "returned"] /\ left' = {}
     ELSE /\ coord' = [pc |-> IF coord.moved THEN "scan" ELSE "stuck", moved |-> FALSE]
          /\ left' = pending
  /\ UNCHANGED <<pending, running, ended, attempts, results, inUse, held, successes, cancelled, late>>

-----------------------------------------------------------------------------
(* The wait for calls to end, and what becomes of them *)

\* wait() returns the calls that have ended by then.
WaitEnds ==
  /\ coord.pc = "wait"
  /\ left' = running \cap ended
  /\ left' # {}
  /\ coord' = [coord EXCEPT !.pc = "collect"]
  /\ UNCHANGED <<pending, running, ended, attempts, results, inUse, held, successes, cancelled, late>>

\* The task leaves the pool and gives back what it has reserved, whatever its call has come to.
PopCall(t) ==
  /\ coord.pc = "collect" /\ t \in left
  /\ left' = left \ {t}
  /\ running' = running \ {t}
  /\ inUse' = [r \in Resources |-> inUse[r] - Claims[t][r]]
  /\ held' = held \ Conflicts[t]
  /\ UNCHANGED <<ended, attempts, cancelled, late>>

\* A retryable result, or an exception of the runner.  Whose result it is, is not asked.
RetryTask(t) ==
  /\ PopCall(t)
  /\ attempts[t] <= Retries[t]
  /\ ~cancelled /\ ~TargetReached /\ t \notin late
  /\ pending' = pending \cup {t}
  /\ UNCHANGED <<coord, results, successes>>

\* A result that is not retried.  Conflicts, authority or a partial result that the task did not
\* declare have it refused, with the status blocked as well.
CollectTask(t) ==
  /\ PopCall(t)
  /\ \E status \in {"completed", "failed", "refused"} : Consume(t, status)
  /\ UNCHANGED pending

\* A result under the name of another task, or what call_runner lets through: nothing is recorded.
CollectForeign(t) ==
  /\ PopCall(t)
  /\ CoordFails
  /\ UNCHANGED <<pending, results, successes>>

CollectEnds ==
  /\ coord.pc = "collect" /\ left = {}
  /\ IF pending = {} /\ running = {}
     THEN coord' = [coord EXCEPT !.pc = "returned"] /\ left' = {}
     ELSE coord' = [pc |-> "scan", moved |-> FALSE] /\ left' = pending
  /\ UNCHANGED <<pending, running, ended, attempts, results, inUse, held, successes, cancelled, late>>

-----------------------------------------------------------------------------
(* The other threads *)

\* A runner returns or raises; what it returns is looked at when it is collected.  Calls in flight
\* end also after the coordinator has failed, which leaves the pool only then.
CallEnds(t) ==
  /\ t \in running \ ended
  /\ ended' = ended \cup {t}
  /\ UNCHANGED <<coord, left, pending, running, attempts, results, inUse, held, successes, cancelled, late>>

CancelGraph ==
  /\ ~cancelled
  /\ cancelled' = TRUE
  /\ UNCHANGED <<coord, left, pending, running, ended, attempts, results, inUse, held, successes, late>>

TaskGetsLate(t) ==
  /\ t \in Timed \ late
  /\ late' = late \cup {t}
  /\ UNCHANGED <<coord, left, pending, running, ended, attempts, results, inUse, held, successes, cancelled>>

GraphNext ==
  \/ \E t \in Nodes : ScanTask(t) \/ StartTask(t) \/ PassOver(t) \/ CallEnds(t)
  \/ \E t \in Nodes : RetryTask(t) \/ CollectTask(t) \/ CollectForeign(t)
  \/ ScanEnds \/ StartsEnd \/ WaitEnds \/ CollectEnds
  \/ CancelGraph \/ \E t \in Nodes : TaskGetsLate(t)

GraphSpec == GraphInit /\ [][GraphNext]_graphVars

-----------------------------------------------------------------------------
(* No task starts before all it depends on has a result, nor after the call of a task that it   *)
(* requires has failed, unless the scan just before gave up something that it depends on: the    *)
(* scan may have passed the task by then and does not look at it again.                          *)
StartedInOrder ==
  \A t \in Nodes : attempts[t] > 0 =>
    /\ Unblocked(t)
    /\ (\A d \in Required[t] : Succeeded(d)) \/ \E d \in Deps[t] : results[d] \in {"blocked", "timed_out"}

\* The units of a resource that a set of tasks has reserved, one by one.
Units(r, S) == UNION {{t} \X (1..Claims[t][r]) : t \in S}

(* Tasks in flight share no conflict key and no more of a resource than there is, unless one of  *)
(* them has claimed it more than once: then by no more than that task's further claims, which    *)
(* the coordinator looks at apart from its first.                                                *)
ClaimsFit ==
  /\ \A r \in Resources :
       \/ Cardinality(Units(r, running)) <= CapacityOf[r]
       \/ \E t \in running : Cardinality(Units(r, running)) + Largest[t][r] <= CapacityOf[r] + Claims[t][r]
  /\ \A t, u \in running : t # u => Conflicts[t] \cap Conflicts[u] = {}

(* Counted successes never pass the target, whatever is in flight. *)
TargetKept == successes + Cardinality(running \cap Counting) <= GraphTarget

(* Who returns has an answer for every task, and only a cancellation makes the coordinator say   *)
(* that no task can make progress.  Whatever a runner returns or a reducer raises, no task is    *)
(* dropped, but for the one whose result ended the coordinator.                                  *)
GraphEnds ==
  /\ coord.pc = "returned" => \A t \in Nodes : Answered(t) /\ attempts[t] <= Retries[t] + 1
  /\ coord.pc = "stuck" => cancelled
  /\ \A t, u \in Nodes \ (pending \cup running) :
       Answered(t) \/ (coord.pc = "failed" /\ (Answered(u) \/ u = t))

GraphIsScheduled == StartedInOrder /\ ClaimsFit /\ TargetKept /\ GraphEnds

=============================================================================
