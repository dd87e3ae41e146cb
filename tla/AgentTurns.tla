------------------------------ MODULE AgentTurns ------------------------------
(***************************************************************************)
(* Durable agent turns of one actor: every agent subprocess has a row that *)
(* is reserved before it is spawned, is bound to it before it is given its *)
(* prompt, and ends when it is known to be dead.  Actions are the steps of *)
(* apply/durable_agent_runtime.py over storage/runtime_control.py and      *)
(* apply/agent_process.py, in the order of launcher.run_job.  One launcher *)
(* works for the actor at a time; when it crashes, another may follow,     *)
(* while the agent it left behind is still alive.                          *)
(***************************************************************************)
EXTENDS RuntimeBase, FiniteSets

CONSTANT Turns   \* turn ids, numbered in the order in which their rows are inserted

ASSUME TurnAssumption == Turns \subseteq Nat \ {0} /\ None \notin Turns

VARIABLES
  turn,        \* turn[t]: its durable row
  agent,       \* agent[t]: its subprocess
  checkpoint,  \* the turn of the actor's newest checkpoint
  launcher     \* launcher[p]: where process p stands in run_job

turnVars == <<turn, agent, checkpoint, launcher>>

Done == {"completed", "failed", "timed_out"}
Kinds == {"root", "recovery", "continuation"}

TurnTypeOK ==
  /\ turn \in [Turns -> [status : {"free", "running", "unknown"} \cup Done,
                         submit : BOOLEAN, bound : BOOLEAN]]
  /\ agent \in [Turns -> [alive : BOOLEAN, prompted : BOOLEAN]]
  /\ checkpoint \in Turns \cup {None}
  /\ launcher \in [Processes ->
       [pc : {"off", "idle", "admitted", "reserved", "spawned", "bound", "working", "dead"},
        turn : Turns \cup {None}, kind : Kinds, submit : BOOLEAN,
        stored : Turns \cup {None}]]

TurnInit ==
  /\ turn = [t \in Turns |-> [status |-> "free", submit |-> FALSE, bound |-> FALSE]]
  /\ agent = [t \in Turns |-> [alive |-> FALSE, prompted |-> FALSE]]
  /\ checkpoint = None
  /\ launcher = [p \in Processes |->
       [pc |-> "off", turn |-> None, kind |-> "root", submit |-> FALSE, stored |-> None]]

Used == {t \in Turns : turn[t].status # "free"}

IsLatest(t) == t \in Used /\ \A u \in Used : u <= t

RunningTurns == {t \in Turns : turn[t].status = "running"}

Working(t) == agent[t].alive /\ agent[t].prompted

-----------------------------------------------------------------------------
(* Admission: reconcile_actor *)

\* The process that the row names is gone, or it names none.
Vanished(t) == turn[t].status = "running" /\ ~(turn[t].bound /\ agent[t].alive)

\* Mutant of Reconciled: the decision of the launcher is written to the row.
ReconciledAsDecision ==
  [t \in Turns |-> IF IsLatest(t) /\ Vanished(t)
                   THEN [turn[t] EXCEPT !.status = "recovery_required"] ELSE turn[t]]

Reconciled ==
  [t \in Turns |-> IF IsLatest(t) /\ Vanished(t) THEN [turn[t] EXCEPT !.status = "unknown"]
                                                 ELSE turn[t]]

\* Mutant of Admits: an outcome that is not known is as good as a failure.
AdmitsUnknown(t, kind, parent) == turn[t].status # "running" \/ Vanished(t)

\* Whether a launcher may go on after the latest turn t: a turn with Submit whose outcome
\* is not known allows only the receipt observer, any other only its own recovery.
Admits(t, kind, parent) ==
  \/ turn[t].status \in Done
  \/ /\ turn[t].status = "unknown" \/ Vanished(t)
     /\ ~turn[t].submit
     /\ kind = "recovery" /\ parent = t

\* The launcher is the only one of its actor; whoever came before has died.
Admit(p) ==
  /\ launcher[p].pc \in {"off", "idle"}
  /\ \A q \in Processes \ {p} : launcher[q].pc \in {"off", "dead"}
  /\ turn' = Reconciled
  /\ \E kind \in Kinds, submit \in BOOLEAN :
       /\ kind # "root" => launcher[p].stored # None
       /\ kind = "continuation" => submit
       /\ launcher' = [launcher EXCEPT ![p] = [@ EXCEPT
            !.pc = IF \A t \in Turns : IsLatest(t) => Admits(t, kind, launcher[p].stored)
                   THEN "admitted" ELSE "idle",
            !.kind = kind, !.submit = submit]]
  /\ UNCHANGED <<agent, checkpoint>>

-----------------------------------------------------------------------------
(* Launch: reserve, spawn, attach, prompt *)

\* A child continues the newest checkpoint of a parent that is over and did not submit.
Resumable(p) ==
  LET parent == launcher[p].stored IN
  /\ turn[parent].status # "running"
  /\ ~turn[parent].submit
  /\ checkpoint = parent

\* start_runtime_turn: the actor has no other running turn.
Reserve(p) ==
  /\ launcher[p].pc = "admitted"
  /\ IF RunningTurns = {} /\ (launcher[p].kind # "root" => Resumable(p))
     THEN \E t \in Turns \ Used :
            /\ \A u \in Turns \ Used : t <= u
            /\ turn' = [turn EXCEPT ![t] = [status |-> "running", submit |-> launcher[p].submit,
                                            bound |-> FALSE]]
            /\ launcher' = [launcher EXCEPT ![p] = [@ EXCEPT !.pc = "reserved", !.turn = t]]
     ELSE /\ launcher' = [launcher EXCEPT ![p].pc = "idle"]
          /\ UNCHANGED turn
  /\ UNCHANGED <<agent, checkpoint>>

MyTurn(p) == launcher[p].turn

EndTurn(p) == launcher' = [launcher EXCEPT ![p] = [@ EXCEPT !.pc = "idle", !.turn = None]]

Ends(t, status) == turn' = [turn EXCEPT ![t].status = status]

Spawn(p) ==
  /\ launcher[p].pc = "reserved"
  /\ agent' = [agent EXCEPT ![MyTurn(p)].alive = TRUE]
  /\ launcher' = [launcher EXCEPT ![p].pc = "spawned"]
  /\ UNCHANGED <<turn, checkpoint>>

SpawnFails(p) ==
  /\ launcher[p].pc = "reserved"
  /\ Ends(MyTurn(p), "failed")
  /\ EndTurn(p)
  /\ UNCHANGED <<agent, checkpoint>>

Attach(p) ==
  /\ launcher[p].pc = "spawned"
  /\ agent[MyTurn(p)].alive
  /\ turn' = [turn EXCEPT ![MyTurn(p)].bound = TRUE]
  /\ launcher' = [launcher EXCEPT ![p].pc = "bound"]
  /\ UNCHANGED <<agent, checkpoint>>

\* The child is killed and waited for; a child that survives keeps its row running.
Killed(p, a) ==
  \/ /\ agent' = [agent EXCEPT ![MyTurn(p)] = [a EXCEPT !.alive = FALSE]]
     /\ Ends(MyTurn(p), "unknown")
  \/ /\ a.alive
     /\ agent' = [agent EXCEPT ![MyTurn(p)] = a]
     /\ UNCHANGED turn

\* Mutant of AttachFails: the prompt is written all the same.
AttachIgnored(p) ==
  /\ launcher[p].pc = "spawned"
  /\ launcher' = [launcher EXCEPT ![p].pc = "bound"]
  /\ UNCHANGED <<turn, agent, checkpoint>>

\* The identity of the child cannot be read or stored.
AttachFails(p) ==
  /\ launcher[p].pc = "spawned"
  /\ Killed(p, agent[MyTurn(p)])
  /\ EndTurn(p)
  /\ UNCHANGED checkpoint

Prompt(p) ==
  /\ launcher[p].pc = "bound"
  /\ agent[MyTurn(p)].alive
  /\ agent' = [agent EXCEPT ![MyTurn(p)].prompted = TRUE]
  /\ launcher' = [launcher EXCEPT ![p].pc = "working"]
  /\ UNCHANGED <<turn, checkpoint>>

\* The pipe breaks, perhaps after the child has read enough to begin.
PromptFails(p) ==
  /\ launcher[p].pc = "bound"
  /\ \E read \in BOOLEAN : Killed(p, [agent[MyTurn(p)] EXCEPT !.prompted = read])
  /\ EndTurn(p)
  /\ UNCHANGED checkpoint

-----------------------------------------------------------------------------
(* The end of a turn *)

AgentExits(t) ==
  /\ agent[t].alive
  /\ agent' = [agent EXCEPT ![t].alive = FALSE]
  /\ UNCHANGED <<turn, checkpoint, launcher>>

\* The turn ends as known only with a confirmed checkpoint, and that makes it a parent;
\* otherwise the job has no parent any more.
Finish(p) ==
  /\ launcher[p].pc = "working"
  /\ ~agent[MyTurn(p)].alive
  /\ \E confirmed \in BOOLEAN, status \in Done \cup {"unknown"} :
       /\ ~confirmed => status = "unknown"
       /\ Ends(MyTurn(p), status)
       /\ checkpoint' = IF confirmed THEN MyTurn(p) ELSE checkpoint
       /\ launcher' = [launcher EXCEPT ![p] =
            [@ EXCEPT !.pc = "idle", !.turn = None,
                      !.stored = IF status # "unknown" THEN MyTurn(p) ELSE None]]
  /\ UNCHANGED agent

\* Mutant of FinishLater: the turn is failed although its agent survives.
FinishAnyway(p) ==
  /\ launcher[p].pc = "working"
  /\ Ends(MyTurn(p), "failed")
  /\ launcher' = [launcher EXCEPT ![p] =
       [@ EXCEPT !.pc = "idle", !.turn = None, !.stored = None]]
  /\ UNCHANGED <<agent, checkpoint>>

\* The agent survives its cleanup, or the row cannot be written: it stays running.
FinishLater(p) ==
  /\ launcher[p].pc = "working"
  /\ launcher' = [launcher EXCEPT ![p] =
       [@ EXCEPT !.pc = "idle", !.turn = None, !.stored = None]]
  /\ UNCHANGED <<turn, agent, checkpoint>>

LauncherCrash(p) ==
  /\ launcher[p].pc \notin {"off", "dead"}
  /\ launcher' = [launcher EXCEPT ![p] = [@ EXCEPT !.pc = "dead", !.turn = None]]
  /\ UNCHANGED <<turn, agent, checkpoint>>

LauncherStep(p) ==
  \/ Admit(p) \/ Reserve(p)
  \/ Spawn(p) \/ SpawnFails(p)
  \/ Attach(p) \/ AttachFails(p)
  \/ Prompt(p) \/ PromptFails(p)
  \/ Finish(p) \/ FinishLater(p)
  \/ LauncherCrash(p)

TurnNext ==
  /\ (\E p \in Processes : LauncherStep(p)) \/ \E t \in Turns : AgentExits(t)
  /\ UNCHANGED now

\* The clock may go on while no launcher moves.
TurnSpec == TurnInit /\ [][TurnNext]_turnVars

-----------------------------------------------------------------------------
(* Properties *)

\* Two agents never work on the application of one actor, whatever launcher, cleanup or
\* kill failed before: an agent that a dead launcher left behind keeps others out.
OneWorkingAgent == \A t, u \in Turns : Working(t) /\ Working(u) => t = u

\* An agent that has its prompt can be recognised by the process identity in its row for
\* as long as it lives, so that reconciliation never calls its outcome unknown.
WorkingIsRecorded == \A t \in Turns : Working(t) => turn[t].status = "running" /\ turn[t].bound

\* A turn that may have submitted and whose outcome is not known is the last turn of its
\* actor: nobody plans, fills or submits again, only the receipt observer goes on.
UnknownSubmitIsLast ==
  \A t \in Turns : turn[t].status = "unknown" /\ turn[t].submit => IsLatest(t)

=============================================================================
