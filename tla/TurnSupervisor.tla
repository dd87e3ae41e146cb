--------------------------- MODULE TurnSupervisor ----------------------------
(***************************************************************************)
(* One agent turn of the launcher: the subprocess, the thread that reads   *)
(* its lines and lets the supervisor judge each, the timer that looks for  *)
(* a stall, the watchdog of the turn and the heartbeat of its lease.  All  *)
(* of them may end the process; the reader says how the turn ended.        *)
(***************************************************************************)
EXTENDS RuntimeBase

CONSTANTS
  Calls,       \* tool calls, a name with its parameters
  Effectful    \* those that change the page

ASSUME SupervisorAssumption == Effectful \subseteq Calls /\ None \notin Calls

VARIABLES
  realSubmit,    \* submission_phase is submit, and the run is not dry
  agentProc,     \* the subprocess, its return code, and who killed it
  reader,        \* where run_job stands, and whether a tick passed the time it took
  loop,          \* ApplicationSupervisorLoop: what it remembers of the lines
  control,       \* AuthoritativeSupervisorController: parked, receipt_only
  stallTimer,    \* the timer of the current generation, or supervisor_terminal
  turnWatchdog,  \* the timer of the turn deadline
  timedOut,      \* the event that it sets
  heart,         \* LeaseHeartbeat
  verdict        \* how the turn ended, on whose word, and the durable row of the turn

superVars ==
  <<realSubmit, agentProc, reader, loop, control, stallTimer, turnWatchdog, timedOut, heart, verdict>>

\* A call counts once, when its id is new; changed sums up the page signature, the
\* validation and the last effect, which only a completed call carries.
Lines ==
  [kind : {"text"}, call : {None}, new : {FALSE}, changed : {FALSE}, failed : {FALSE}]
  \cup [kind : {"proposed"}, call : Calls, new : {TRUE}, changed : {FALSE}, failed : {FALSE}]
  \cup [kind : {"completed"}, call : Calls, new : BOOLEAN, changed : BOOLEAN, failed : BOOLEAN]

\* Levels end at three, so more than four equal calls are as good as four.
RepeatCap == 4

SuperTypeOK ==
  /\ realSubmit \in BOOLEAN /\ timedOut \in BOOLEAN
  /\ stallTimer \in {"armed", "idle", "terminal"}
  /\ agentProc \in [alive : BOOLEAN, code : {"running", "zero", "negative", "positive"},
                    killer : {"nobody", "supervisor", "watchdog", "lease", "operator", "cleanup"}]
  /\ reader \in [pc : {"reading", "stamped", "closed", "waited", "judging", "raised", "final", "ended"},
                 overtaken : BOOLEAN]
  /\ loop \in [repeats : 0..RepeatCap, last : Calls \cup {None}, effect : BOOLEAN, uncertain : BOOLEAN]
  /\ control \in [parked : BOOLEAN, receiptOnly : BOOLEAN]
  /\ turnWatchdog \in {"armed", "polled", "set", "off"}
  /\ heart \in {"beating", "failing", "failed", "dead", "stopped"}
  /\ verdict \in [status : {"none", "uncertain", "failed", "skipped", "reported"},
                  source : {"none", "agent", "provider", "parked", "timeout", "interrupted", "exception"},
                  row : {"running", "unknown", "timed_out", "completed", "failed"}]

SuperInit ==
  /\ realSubmit \in BOOLEAN
  /\ agentProc = [alive |-> TRUE, code |-> "running", killer |-> "nobody"]
  /\ reader = [pc |-> "reading", overtaken |-> FALSE]
  /\ loop = [repeats |-> 0, last |-> None, effect |-> FALSE, uncertain |-> FALSE]
  /\ control = [parked |-> FALSE, receiptOnly |-> FALSE]
  /\ stallTimer = "armed" /\ turnWatchdog = "armed" /\ timedOut = FALSE /\ heart = "beating"
  /\ verdict = [status |-> "none", source |-> "none", row |-> "running"]

\* The process tree is killed if it still runs; Windows gives it a positive code.
KillAgent(by) ==
  \E code \in {"negative", "positive"} :
    agentProc' = IF agentProc.alive THEN [alive |-> FALSE, code |-> code, killer |-> by] ELSE agentProc

ReaderMoves(pc) == reader' = [pc |-> pc, overtaken |-> FALSE]

-----------------------------------------------------------------------------
(* The subprocess, the timers and the heartbeat *)

AgentExits ==
  /\ agentProc.alive
  /\ \E code \in {"zero", "positive"} : agentProc' = [agentProc EXCEPT !.alive = FALSE, !.code = code]
  /\ UNCHANGED <<realSubmit, reader, loop, control, stallTimer, turnWatchdog, timedOut, heart, verdict>>

\* No line of the launcher says that the provider is idle, so the loop takes every silence
\* for protected and a tick does nothing but move its clock past a time the reader took.
StallTick ==
  /\ stallTimer = "armed" /\ ~control.parked /\ agentProc.alive
  /\ stallTimer' = "idle"
  /\ \E passed \in BOOLEAN :
       reader' = [reader EXCEPT !.overtaken = @ \/ (passed /\ reader.pc = "stamped")]
  /\ UNCHANGED <<realSubmit, agentProc, loop, control, turnWatchdog, timedOut, heart, verdict>>

\* terminate_if_running in its three steps: look at the process, set the event, kill.
WatchdogPolls ==
  /\ turnWatchdog = "armed"
  /\ turnWatchdog' = IF agentProc.alive THEN "polled" ELSE "off"
  /\ UNCHANGED <<realSubmit, agentProc, reader, loop, control, stallTimer, timedOut, heart, verdict>>

WatchdogSets ==
  /\ turnWatchdog = "polled"
  /\ turnWatchdog' = "set" /\ timedOut' = TRUE
  /\ UNCHANGED <<realSubmit, agentProc, reader, loop, control, stallTimer, heart, verdict>>

WatchdogKills ==
  /\ turnWatchdog = "set"
  /\ turnWatchdog' = "off"
  /\ KillAgent("watchdog")
  /\ UNCHANGED <<realSubmit, reader, loop, control, stallTimer, timedOut, heart, verdict>>

\* The broker refuses the lease, which is remembered before the runtime is cancelled.
LeaseFails ==
  /\ heart = "beating"
  /\ heart' = "failing"
  /\ UNCHANGED <<realSubmit, agentProc, reader, loop, control, stallTimer, turnWatchdog, timedOut, verdict>>

LeaseCancels ==
  /\ heart = "failing"
  /\ heart' = "failed"
  /\ KillAgent("lease") \/ UNCHANGED agentProc
  /\ UNCHANGED <<realSubmit, reader, loop, control, stallTimer, turnWatchdog, timedOut, verdict>>

\* Any other error, a busy database for one, ends the thread without a word.
HeartDies ==
  /\ heart = "beating"
  /\ heart' = "dead"
  /\ UNCHANGED <<realSubmit, agentProc, reader, loop, control, stallTimer, turnWatchdog, timedOut, verdict>>

\* The first Ctrl+C, in a handler of the main thread.
SkipJob ==
  /\ reader.pc # "ended" /\ agentProc.alive
  /\ KillAgent("operator")
  /\ UNCHANGED <<realSubmit, reader, loop, control, stallTimer, turnWatchdog, timedOut, heart, verdict>>

-----------------------------------------------------------------------------
(* A line, and what the supervisor makes of it *)

\* The time of the observation is taken before the lock; which line it was shows below.
\* The pipe may hold lines of a process that is gone.
ReadLine ==
  /\ reader.pc = "reading"
  /\ ReaderMoves("stamped")
  /\ UNCHANGED <<realSubmit, agentProc, loop, control, stallTimer, turnWatchdog, timedOut, heart, verdict>>

\* The result of the turn is not observed: it ends the supervision by the timers.
ReadResult ==
  /\ reader.pc = "reading" /\ stallTimer # "terminal"
  /\ stallTimer' = "terminal"
  /\ UNCHANGED <<realSubmit, agentProc, reader, loop, control, turnWatchdog, timedOut, heart, verdict>>

Observed(l) ==
  LET kept == IF l.changed THEN [repeats |-> 0, last |-> None]
              ELSE [repeats |-> loop.repeats, last |-> loop.last]
  IN  [repeats |-> IF ~l.new THEN kept.repeats
                   ELSE IF l.call # kept.last THEN 1
                   ELSE IF kept.repeats = RepeatCap THEN RepeatCap ELSE kept.repeats + 1,
       last |-> IF l.new THEN l.call ELSE kept.last,
       effect |-> loop.effect \/ l.call \in Effectful,
       uncertain |-> loop.uncertain \/ (l.call \in Effectful /\ l.failed)]

\* Mutant of Level: an effect changes nothing, and the third equal call is only audited.
LevelBlind(l, seen) ==
  IF ~l.new \/ l.changed \/ seen.repeats < 2 THEN 0
  ELSE IF seen.repeats >= RepeatCap THEN 3 ELSE seen.repeats - 1

Level(l, seen) ==
  LET level == IF ~l.new \/ l.changed \/ seen.repeats < 2 THEN 0
               ELSE IF seen.repeats >= RepeatCap THEN 3 ELSE seen.repeats - 1
  IN  IF level >= 2 /\ (realSubmit \/ seen.effect \/ seen.uncertain) THEN 4 ELSE level

\* The reader holds the lock and its observation is in order.  Nothing asks the loop again
\* once the turn is parked.  A call that was counted before has had its effect noted then.
Judging(l, levels) ==
  /\ reader.pc = "stamped" /\ ~reader.overtaken /\ ~control.parked
  /\ l.kind = "completed" /\ ~l.new /\ l.call \in Effectful => loop.effect
  /\ loop' = Observed(l)
  /\ Level(l, loop') \in levels
  /\ UNCHANGED <<realSubmit, turnWatchdog, timedOut, heart, verdict>>

\* A tool line arms the stall timer again, unless the turn is parked or its result is there.
Rearm(l) == stallTimer' = IF l.kind = "text" \/ stallTimer = "terminal" THEN stallTimer ELSE "armed"

\* Nothing to do, or an audit that is recorded: of the authority's health at the first
\* level, of a steer that the command line cannot do at the second.
GoOn(l) ==
  /\ Judging(l, 0..2)
  /\ Rearm(l) /\ ReaderMoves("reading")
  /\ UNCHANGED <<agentProc, control>>

\* The runtime is cancelled and the turn is parked, also if the cancellation fails; the
\* outcome is recorded last, which may raise.  The first level parks when the authority is
\* not healthy, and is never receipt-only.
ParkTurn(l) ==
  /\ Judging(l, {1, 3, 4})
  /\ control' = [parked |-> TRUE,
                 receiptOnly |-> Level(l, loop') = 4 /\ (realSubmit \/ loop'.uncertain)]
  /\ KillAgent("supervisor") \/ UNCHANGED agentProc
  /\ \E pc \in {"reading", "raised"} : ReaderMoves(pc)
  /\ UNCHANGED stallTimer

\* The intent or the outcome of an audit cannot be recorded, or the health cannot be read.
JournalFails(l) ==
  /\ Judging(l, 1..4)
  /\ ReaderMoves("raised")
  /\ UNCHANGED <<agentProc, control, stallTimer>>

\* A line that was buffered when the turn was parked.
IgnoreBuffered ==
  /\ reader.pc = "stamped" /\ ~reader.overtaken /\ control.parked
  /\ ReaderMoves("reading")
  /\ UNCHANGED <<realSubmit, agentProc, loop, control, stallTimer, turnWatchdog, timedOut, heart, verdict>>

\* The tick was later: "supervisor observations must be time ordered".
OutOfOrder ==
  /\ reader.pc = "stamped" /\ reader.overtaken
  /\ ReaderMoves("raised")
  /\ UNCHANGED <<realSubmit, agentProc, loop, control, stallTimer, turnWatchdog, timedOut, heart, verdict>>

-----------------------------------------------------------------------------
(* The end of the stream, and of the turn *)

\* A process may close its output and live on.
EndOfStream ==
  /\ reader.pc = "reading"
  /\ ReaderMoves("closed")
  /\ stallTimer' = "terminal"
  /\ turnWatchdog' = IF turnWatchdog = "armed" THEN "off" ELSE turnWatchdog
  /\ UNCHANGED <<realSubmit, agentProc, loop, control, timedOut, heart, verdict>>

Judge(status, source) ==
  /\ ReaderMoves("final")
  /\ verdict' = [verdict EXCEPT !.status = status, !.source = source]

\* What the runtime says of a turn that it ended itself.
Unless(status) == IF realSubmit THEN "uncertain" ELSE status

Unproved ==
  /\ reader.pc = "closed" /\ agentProc.alive
  /\ Judge(Unless("failed"), "timeout")
  /\ UNCHANGED <<realSubmit, agentProc, loop, control, stallTimer, turnWatchdog, timedOut, heart>>

AgentWaited ==
  /\ reader.pc = "closed" /\ ~agentProc.alive
  /\ ReaderMoves("waited")
  /\ UNCHANGED <<realSubmit, agentProc, loop, control, stallTimer, turnWatchdog, timedOut, heart, verdict>>

CheckHeart ==
  /\ reader.pc = "waited"
  /\ ReaderMoves(IF heart \in {"failing", "failed"} THEN "raised" ELSE "judging")
  /\ UNCHANGED <<realSubmit, agentProc, loop, control, stallTimer, turnWatchdog, timedOut, heart, verdict>>

\* Parked, late or killed by a signal, in this order; a turn that is none of these is what
\* the agent reported, unless it failed without a report or could not log in.
JudgeTurn ==
  /\ reader.pc = "judging"
  /\ IF control.parked THEN Judge(IF control.receiptOnly THEN "uncertain" ELSE Unless("failed"), "parked")
     ELSE IF timedOut THEN Judge(Unless("failed"), "timeout")
     ELSE IF agentProc.code = "negative" THEN Judge(Unless("skipped"), "interrupted")
     ELSE \/ \E status \in {"reported", "uncertain"} : Judge(status, "agent")
          \/ Judge(Unless("failed"), "provider")
          \/ ReaderMoves("raised") /\ UNCHANGED verdict
  /\ UNCHANGED <<realSubmit, agentProc, loop, control, stallTimer, turnWatchdog, timedOut, heart>>

HandleError ==
  /\ reader.pc = "raised"
  /\ Judge(Unless("failed"), "exception")
  /\ UNCHANGED <<realSubmit, agentProc, loop, control, stallTimer, turnWatchdog, timedOut, heart>>

\* The second Ctrl+C raises KeyboardInterrupt in the main thread, which may be this one.
AbortTurn ==
  /\ reader.pc \notin {"final", "ended"}
  /\ KillAgent("operator")
  /\ Judge(Unless("failed"), "interrupted")
  /\ UNCHANGED <<realSubmit, loop, control, stallTimer, turnWatchdog, timedOut, heart>>

\* The finally block: stop the timers, kill what still runs, write the row of the turn.
\* The row stays running if it cannot be written or the process cannot be proved dead;
\* without a confirmed checkpoint it is unknown.
TurnRow(gone) ==
  {"running"} \cup
  (IF ~gone THEN {} ELSE
     {"unknown"} \cup
     (IF verdict.status = "uncertain" THEN {}
      ELSE {IF timedOut THEN "timed_out" ELSE IF agentProc'.code = "zero" THEN "completed" ELSE "failed"}))

FinishTurn ==
  /\ reader.pc = "final"
  /\ ReaderMoves("ended")
  /\ stallTimer' = "terminal"
  /\ turnWatchdog' = IF turnWatchdog = "armed" THEN "off" ELSE turnWatchdog
  /\ heart' = IF heart = "beating" THEN "stopped" ELSE heart
  /\ KillAgent("cleanup") \/ UNCHANGED agentProc
  /\ \E row \in TurnRow(~agentProc'.alive) : verdict' = [verdict EXCEPT !.row = row]
  /\ UNCHANGED <<realSubmit, loop, control, timedOut>>

SuperNext ==
  \/ AgentExits \/ StallTick \/ WatchdogPolls \/ WatchdogSets \/ WatchdogKills
  \/ LeaseFails \/ LeaseCancels \/ HeartDies \/ SkipJob
  \/ ReadLine \/ ReadResult \/ IgnoreBuffered \/ OutOfOrder
  \/ \E l \in Lines : GoOn(l) \/ ParkTurn(l) \/ JournalFails(l)
  \/ EndOfStream \/ Unproved \/ AgentWaited \/ CheckHeart \/ JudgeTurn \/ HandleError \/ AbortTurn \/ FinishTurn

SuperSpec == SuperInit /\ [][SuperNext]_superVars

-----------------------------------------------------------------------------
(* Who is believed when several of them end one turn *)

KilledIsNotBelieved ==
  agentProc.killer \in {"supervisor", "watchdog", "lease"} => verdict.source # "agent"

SubmitStaysUncertain ==
  realSubmit /\ verdict.source \notin {"none", "agent"} => verdict.status = "uncertain"

UncertainIsNotResumed ==
  verdict.status = "uncertain" => verdict.row \in {"running", "unknown"}

RepeatsStop ==
  reader.pc = "reading" /\ ~control.parked =>
    loop.repeats <= IF realSubmit \/ loop.effect THEN 2 ELSE 3

(* A turn that the supervisor, the watchdog or the lease ended is never taken at the agent's    *)
(* word, whatever it wrote before and whichever of them came first; one that could have pressed *)
(* Submit is then uncertain, and nothing resumes it; and no tool call that follows an effect is *)
(* let through three times without progress (run_job, ApplicationSupervisorLoop).               *)
SupervisedTurn ==
  /\ KilledIsNotBelieved /\ SubmitStaysUncertain /\ UncertainIsNotResumed /\ RepeatsStop

=============================================================================
