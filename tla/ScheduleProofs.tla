---------------------------- MODULE ScheduleProofs ---------------------------
(***************************************************************************)
(* What drives a run and ends it: whoever kills the agent of a turn has    *)
(* left a mark before the reader looks for it; a stage of the pipeline     *)
(* leaves after everything that makes rows pending for it, if the stages   *)
(* between the two were waited for; the coordinator of a task graph drops  *)
(* at most the one task that ended it; the threads of a run account for    *)
(* every claim, success and preview.                                       *)
(***************************************************************************)
EXTENDS TurnSupervisor, StagePipeline, TaskGraph, RunProgress, FiniteSetTheorems, FunctionTheorems, TLAPS

-----------------------------------------------------------------------------
(* Supervision of a turn *)

Codes == {"running", "zero", "negative", "positive"}
Killers == {"nobody", "supervisor", "watchdog", "lease", "operator", "cleanup"}
Ours == {"supervisor", "watchdog", "lease"}
Pcs == {"reading", "stamped", "closed", "waited", "judging", "raised", "final", "ended"}
ProcRow == [alive : BOOLEAN, code : Codes, killer : Killers]
ReaderRow == [pc : Pcs, overtaken : BOOLEAN]
LoopRow == [repeats : 0..RepeatCap, last : Calls \cup {None}, effect : BOOLEAN, uncertain : BOOLEAN]
ControlRow == [parked : BOOLEAN, receiptOnly : BOOLEAN]
VerdictRow ==
  [status : {"none", "uncertain", "failed", "skipped", "reported"},
   source : {"none", "agent", "provider", "parked", "timeout", "interrupted", "exception"},
   row : {"running", "unknown", "timed_out", "completed", "failed"}]
LineRow ==
  [kind : {"text", "proposed", "completed"}, call : Calls \cup {None},
   new : BOOLEAN, changed : BOOLEAN, failed : BOOLEAN]

\* Whoever kills leaves its mark first, or in the same step.
KillersMark ==
  /\ agentProc.killer = "watchdog" => timedOut
  /\ turnWatchdog = "set" => timedOut
  /\ agentProc.killer = "supervisor" => control.parked
  /\ agentProc.killer = "lease" => heart = "failed"

\* The reader judges a process that is gone, after it asked the heartbeat.
JudgedAreGone ==
  /\ reader.pc \in {"waited", "judging"} => ~agentProc.alive
  /\ reader.pc = "judging" => agentProc.killer # "lease"
  /\ verdict.source # "none" => reader.pc \in {"final", "ended"}
  /\ verdict.source = "agent" => ~agentProc.alive /\ agentProc.killer \notin Ours

RowsWait ==
  /\ reader.pc # "ended" => verdict.row = "running"
  /\ reader.pc \in {"final", "ended"} \/ verdict.status = "none"

WithinBound(seen) == seen.repeats <= IF realSubmit \/ seen.effect THEN 2 ELSE 3

\* The bound holds between two lines and while one is judged.
RepeatsBounded ==
  reader.pc \in {"reading", "stamped"} /\ ~control.parked => WithinBound(loop)

SupervisorInvariant ==
  /\ SuperTypeOK
  /\ KillersMark /\ JudgedAreGone
  /\ SubmitStaysUncertain /\ RowsWait /\ UncertainIsNotResumed
  /\ RepeatsBounded

-----------------------------------------------------------------------------
(* Helpers: what a kill, a line and a judgement do *)

\* The record types in the form the provers need for EXCEPT.
LEMMA SuperTypes ==
  ASSUME SuperTypeOK
  PROVE  /\ agentProc \in ProcRow /\ reader \in ReaderRow /\ loop \in LoopRow
         /\ control \in ControlRow /\ verdict \in VerdictRow
  BY DEF SuperTypeOK, ProcRow, ReaderRow, LoopRow, ControlRow, VerdictRow, Codes, Killers, Pcs

\* A kill ends a process that runs in the killer's name and leaves a dead one as it was.
LEMMA KillEnds ==
  ASSUME agentProc \in ProcRow, NEW by \in Killers, KillAgent(by)
  PROVE  /\ agentProc' \in ProcRow /\ ~agentProc'.alive
         /\ agentProc.alive => agentProc'.killer = by
         /\ ~agentProc.alive => agentProc' = agentProc
<1>1. PICK code \in {"negative", "positive"} :
        agentProc' = IF agentProc.alive THEN [alive |-> FALSE, code |-> code, killer |-> by] ELSE agentProc
  BY DEF KillAgent
<1>2. CASE agentProc.alive
  BY <1>1, <1>2 DEF ProcRow, Codes
<1>3. CASE ~agentProc.alive
  BY <1>1, <1>3
<1> QED BY <1>2, <1>3

\* Every line has the fields of a line, and a call unless it is text.
LEMMA LinesTyped ==
  ASSUME NEW l \in Lines
  PROVE  /\ l \in LineRow
         /\ l.new => l.call \in Calls
         /\ ~l.new /\ l.call \in Calls => l.kind = "completed"
  BY SupervisorAssumption DEF Lines, LineRow

\* What the loop remembers after a line, field by field.
LEMMA ObservedTyped ==
  ASSUME NEW l \in Lines, loop \in LoopRow
  PROVE  /\ Observed(l) \in LoopRow
         /\ Observed(l).effect = (loop.effect \/ l.call \in Effectful)
         /\ ~l.new => Observed(l).repeats \in {0, loop.repeats}
         /\ l.new => Observed(l).repeats >= 1
         /\ l.new /\ l.changed => Observed(l).repeats = 1
<1>1. l \in LineRow /\ (l.new => l.call \in Calls)
  BY LinesTyped
<1> QED BY <1>1, SupervisorAssumption DEF Observed, LoopRow, LineRow, RepeatCap

\* A call that is counted anew and not stopped was counted at most three times, or twice
\* after an effect.
LEMMA CountedIsBounded ==
  ASSUME NEW l, NEW seen \in LoopRow, l.new, ~l.changed, Level(l, seen) \in 0..2
  PROVE  WithinBound(seen)
<1>1. seen.repeats \in 0..4
  BY DEF LoopRow, RepeatCap
<1>2. CASE seen.repeats <= 2
  BY <1>1, <1>2 DEF WithinBound
<1>3. CASE seen.repeats = 3
  <2>1. ~realSubmit /\ ~seen.effect
    BY <1>3 DEF Level, RepeatCap
  <2> QED BY <1>3, <2>1 DEF WithinBound
<1>4. CASE seen.repeats = 4
  BY <1>4 DEF Level, RepeatCap
<1> QED BY <1>1, <1>2, <1>3, <1>4

\* A line that the supervisor lets pass with at most an audit keeps the bound.
LEMMA PassedIsBounded ==
  ASSUME NEW l \in Lines, loop \in LoopRow, WithinBound(loop), realSubmit \in BOOLEAN,
         Level(l, Observed(l)) \in 0..2,
         l.kind = "completed" /\ ~l.new /\ l.call \in Effectful => loop.effect
  PROVE  WithinBound(Observed(l))
<1>1. /\ Observed(l) \in LoopRow
      /\ Observed(l).effect = (loop.effect \/ l.call \in Effectful)
      /\ ~l.new => Observed(l).repeats \in {0, loop.repeats}
      /\ l.new /\ l.changed => Observed(l).repeats = 1
  BY ObservedTyped
<1>2. /\ l.new \in BOOLEAN /\ l.changed \in BOOLEAN
      /\ ~l.new /\ l.call \in Calls => l.kind = "completed"
  BY LinesTyped DEF LineRow
<1>3. CASE ~l.new
  <2>1. l.call \in Effectful => loop.effect
    BY <1>2, <1>3, SupervisorAssumption
  <2>2. loop.effect \in BOOLEAN /\ Observed(l).effect \in BOOLEAN /\ loop.repeats \in 0..4
    BY <1>1 DEF LoopRow, RepeatCap
  <2>3. Observed(l).effect = loop.effect
    BY <1>1, <2>1, <2>2
  <2> QED BY <1>1, <1>3, <2>2, <2>3 DEF WithinBound
<1>4. CASE l.new /\ l.changed
  <2>1. Observed(l).repeats = 1
    BY <1>1, <1>4
  <2> QED BY <2>1 DEF WithinBound
<1>5. CASE l.new /\ ~l.changed
  BY <1>1, <1>5, CountedIsBounded
<1> QED BY <1>2, <1>3, <1>4, <1>5

VerdictStatuses == {"none", "uncertain", "failed", "skipped", "reported"}
Sources == {"none", "agent", "provider", "parked", "timeout", "interrupted", "exception"}

\* A judgement is final and leaves the row as it was; only the agent's own word may make a
\* real Submit anything but uncertain.
JudgedAs(status, source) ==
  /\ verdict' \in VerdictRow
  /\ verdict'.status = status /\ verdict'.source = source /\ verdict'.row = verdict.row
  /\ reader' \in ReaderRow /\ reader'.pc = "final"

\* The action Judge in the form the lemma below cites.
LEMMA Judged ==
  ASSUME verdict \in VerdictRow, NEW status \in VerdictStatuses, NEW source \in Sources, Judge(status, source)
  PROVE  JudgedAs(status, source)
  BY DEF Judge, JudgedAs, ReaderMoves, VerdictRow, ReaderRow, Pcs, VerdictStatuses, Sources

\* A real Submit turns every other status into uncertain.
LEMMA UnlessTyped ==
  ASSUME NEW status \in VerdictStatuses
  PROVE  Unless(status) \in VerdictStatuses /\ (realSubmit => Unless(status) = "uncertain")
  BY DEF Unless, VerdictStatuses

\* A judgement keeps the invariant if the agent is believed only when nobody else ended
\* the turn, and uncertainty is kept otherwise.
LEMMA JudgementKeeps ==
  ASSUME SupervisorInvariant, reader.pc \notin {"final", "ended"},
         NEW status \in VerdictStatuses, NEW source \in Sources \ {"none"}, Judge(status, source),
         source = "agent" => ~agentProc.alive /\ agentProc.killer \notin Ours,
         realSubmit /\ source # "agent" => status = "uncertain",
         agentProc' \in ProcRow,
         agentProc' = agentProc \/ (source # "agent" /\ agentProc'.killer = "operator"),
         UNCHANGED <<realSubmit, loop, control, stallTimer, turnWatchdog, timedOut, heart>>
  PROVE  SupervisorInvariant'
<1>1. verdict \in VerdictRow
  BY SuperTypes DEF SupervisorInvariant
<1>2. JudgedAs(status, source)
  BY <1>1, Judged
<1>3. SuperTypeOK'
  BY <1>2 DEF SupervisorInvariant, SuperTypeOK, JudgedAs, VerdictRow, ReaderRow, Pcs, ProcRow, Codes, Killers
<1>4. KillersMark' /\ JudgedAreGone'
  BY <1>2 DEF SupervisorInvariant, KillersMark, JudgedAreGone, JudgedAs, Ours
<1>5. SubmitStaysUncertain' /\ RowsWait' /\ UncertainIsNotResumed'
  BY <1>2 DEF SupervisorInvariant, SubmitStaysUncertain, RowsWait, UncertainIsNotResumed, JudgedAs
<1>6. RepeatsBounded'
  BY <1>2 DEF RepeatsBounded, JudgedAs
<1> QED BY <1>3, <1>4, <1>5, <1>6 DEF SupervisorInvariant

-----------------------------------------------------------------------------
(* Every step *)

\* A turn starts in the invariant.
LEMMA SupervisorStart == SuperInit => SupervisorInvariant
<1> SUFFICES ASSUME SuperInit PROVE SupervisorInvariant
  OBVIOUS
<1>1. SuperTypeOK
  <2>1. agentProc \in ProcRow
    BY DEF SuperInit, ProcRow, Codes, Killers
  <2>2. reader \in ReaderRow
    BY DEF SuperInit, ReaderRow, Pcs
  <2>3. loop \in LoopRow
    BY DEF SuperInit, LoopRow, RepeatCap
  <2>4. control \in ControlRow
    BY DEF SuperInit, ControlRow
  <2>5. verdict \in VerdictRow
    BY DEF SuperInit, VerdictRow
  <2>6. /\ realSubmit \in BOOLEAN /\ timedOut \in BOOLEAN
        /\ stallTimer \in {"armed", "idle", "terminal"}
        /\ turnWatchdog \in {"armed", "polled", "set", "off"}
        /\ heart \in {"beating", "failing", "failed", "dead", "stopped"}
    BY DEF SuperInit
  <2> QED BY <2>1, <2>2, <2>3, <2>4, <2>5, <2>6
      DEF SuperTypeOK, ProcRow, ReaderRow, LoopRow, ControlRow, VerdictRow, Codes, Killers, Pcs
<1>2. KillersMark /\ JudgedAreGone /\ SubmitStaysUncertain /\ RowsWait /\ UncertainIsNotResumed
  BY DEF SuperInit, KillersMark, JudgedAreGone, SubmitStaysUncertain, RowsWait, UncertainIsNotResumed
<1>3. RepeatsBounded
  BY DEF SuperInit, RepeatsBounded, WithinBound
<1> QED BY <1>1, <1>2, <1>3 DEF SupervisorInvariant

\* Steps of the process, the timers and the heartbeat, which leave the reader where it is.
LEMMA OthersKeep ==
  ASSUME SupervisorInvariant,
         \/ AgentExits \/ StallTick \/ WatchdogPolls \/ WatchdogSets \/ WatchdogKills
         \/ LeaseFails \/ LeaseCancels \/ HeartDies \/ SkipJob
  PROVE  SupervisorInvariant'
<1> USE DEF SupervisorInvariant, SuperTypeOK, KillersMark, JudgedAreGone, SubmitStaysUncertain,
            RowsWait, UncertainIsNotResumed, RepeatsBounded, WithinBound, Ours
<1>0. agentProc \in ProcRow /\ reader \in ReaderRow
  BY SuperTypes
<1>1. CASE AgentExits
  <2>1. agentProc' \in ProcRow /\ agentProc'.killer = agentProc.killer /\ ~agentProc'.alive
    BY <1>0, <1>1 DEF AgentExits, ProcRow, Codes
  <2> QED BY <1>1, <2>1 DEF AgentExits, ProcRow, Codes, Killers
<1>2. CASE StallTick
  BY <1>0, <1>2 DEF StallTick, ReaderRow, Pcs
<1>3. CASE WatchdogPolls
  BY <1>3 DEF WatchdogPolls
<1>4. CASE WatchdogSets
  BY <1>4 DEF WatchdogSets
<1>5. CASE WatchdogKills
  <2>1. agentProc' \in ProcRow /\ (agentProc' = agentProc \/ (agentProc.alive /\ ~agentProc'.alive /\ agentProc'.killer = "watchdog"))
    BY <1>0, <1>5, KillEnds DEF WatchdogKills, Killers
  <2> QED BY <1>5, <2>1 DEF WatchdogKills, ProcRow, Codes, Killers
<1>6. CASE LeaseFails
  BY <1>6 DEF LeaseFails
<1>7. CASE LeaseCancels
  <2>1. agentProc' \in ProcRow /\ (agentProc' = agentProc \/ (agentProc.alive /\ ~agentProc'.alive /\ agentProc'.killer = "lease"))
    BY <1>0, <1>7, KillEnds DEF LeaseCancels, Killers
  <2> QED BY <1>7, <2>1 DEF LeaseCancels, ProcRow, Codes, Killers
<1>8. CASE HeartDies
  BY <1>8 DEF HeartDies
<1>9. CASE SkipJob
  <2>1. agentProc' \in ProcRow /\ agentProc.alive /\ ~agentProc'.alive /\ agentProc'.killer = "operator"
    BY <1>0, <1>9, KillEnds DEF SkipJob, Killers
  <2> QED BY <1>9, <2>1 DEF SkipJob, ProcRow, Codes, Killers
<1> QED BY <1>1, <1>2, <1>3, <1>4, <1>5, <1>6, <1>7, <1>8, <1>9

\* Steps of the reader over a line.
LEMMA LinesKeep ==
  ASSUME SupervisorInvariant,
         \/ ReadLine \/ ReadResult \/ IgnoreBuffered \/ OutOfOrder
         \/ \E l \in Lines : GoOn(l) \/ ParkTurn(l) \/ JournalFails(l)
  PROVE  SupervisorInvariant'
<1> USE DEF SupervisorInvariant, SuperTypeOK, KillersMark, JudgedAreGone, SubmitStaysUncertain,
            RowsWait, UncertainIsNotResumed, RepeatsBounded, Ours
<1>0. agentProc \in ProcRow /\ reader \in ReaderRow /\ loop \in LoopRow
  BY SuperTypes
<1>1. CASE ReadLine
  BY <1>0, <1>1 DEF ReadLine, ReaderMoves, WithinBound
<1>2. CASE ReadResult
  BY <1>2 DEF ReadResult, WithinBound
<1>3. CASE IgnoreBuffered
  BY <1>0, <1>3 DEF IgnoreBuffered, ReaderMoves, WithinBound
<1>4. CASE OutOfOrder
  BY <1>0, <1>4 DEF OutOfOrder, ReaderMoves, WithinBound
<1>5. ASSUME NEW l \in Lines, GoOn(l) PROVE SupervisorInvariant'
  <2>1. loop' = Observed(l) /\ loop' \in LoopRow /\ WithinBound(Observed(l))
    BY <1>0, <1>5, ObservedTyped, PassedIsBounded DEF GoOn, Judging
  <2>2. realSubmit' = realSubmit
    BY <1>5 DEF GoOn, Judging
  <2>3. WithinBound(loop)'
    BY <2>1, <2>2 DEF WithinBound
  <2> QED BY <1>0, <1>5, <2>1, <2>3 DEF GoOn, Judging, ReaderMoves, Rearm, LoopRow
<1>6. ASSUME NEW l \in Lines, ParkTurn(l) PROVE SupervisorInvariant'
  <2>1. loop' \in LoopRow
    BY <1>0, <1>6, ObservedTyped DEF ParkTurn, Judging
  <2>2. agentProc' \in ProcRow /\ (agentProc' = agentProc \/ (agentProc.alive /\ ~agentProc'.alive /\ agentProc'.killer = "supervisor"))
    BY <1>0, <1>6, KillEnds DEF ParkTurn, Killers
  <2>3. control' \in ControlRow /\ control'.parked
    BY <1>6 DEF ParkTurn, ControlRow
  <2> QED BY <1>0, <1>6, <2>1, <2>2, <2>3 DEF ParkTurn, Judging, ReaderMoves, LoopRow, ProcRow, Codes, Killers, ControlRow
<1>7. ASSUME NEW l \in Lines, JournalFails(l) PROVE SupervisorInvariant'
  <2>1. loop' \in LoopRow
    BY <1>0, <1>7, ObservedTyped DEF JournalFails, Judging
  <2> QED BY <1>0, <1>7, <2>1 DEF JournalFails, Judging, ReaderMoves, LoopRow
<1> QED BY <1>1, <1>2, <1>3, <1>4, <1>5, <1>6, <1>7

\* Steps of the reader after the stream.
LEMMA EndsKeep ==
  ASSUME SupervisorInvariant,
         \/ EndOfStream \/ Unproved \/ AgentWaited \/ CheckHeart \/ JudgeTurn
         \/ HandleError \/ AbortTurn \/ FinishTurn
  PROVE  SupervisorInvariant'
<1>0. agentProc \in ProcRow /\ reader \in ReaderRow /\ verdict \in VerdictRow
  BY SuperTypes DEF SupervisorInvariant
<1> DEFINE All == {"failed", "skipped"}
<1>u. /\ \A status \in All : Unless(status) \in VerdictStatuses /\ (realSubmit => Unless(status) = "uncertain")
      /\ {"timeout", "interrupted", "exception", "parked", "provider", "agent"} \subseteq Sources \ {"none"}
      /\ {"reported", "uncertain"} \subseteq VerdictStatuses
  BY UnlessTyped DEF VerdictStatuses, Sources
<1>1. CASE EndOfStream
  BY <1>0, <1>1 DEF EndOfStream, ReaderMoves, SupervisorInvariant, SuperTypeOK, KillersMark,
     JudgedAreGone, SubmitStaysUncertain, RowsWait, UncertainIsNotResumed, RepeatsBounded
<1>2. CASE Unproved
  BY <1>0, <1>2, <1>u, JudgementKeeps DEF Unproved
<1>3. CASE AgentWaited
  BY <1>0, <1>3 DEF AgentWaited, ReaderMoves, SupervisorInvariant, SuperTypeOK, KillersMark,
     JudgedAreGone, SubmitStaysUncertain, RowsWait, UncertainIsNotResumed, RepeatsBounded
<1>4. CASE CheckHeart
  BY <1>0, <1>4 DEF CheckHeart, ReaderMoves, SupervisorInvariant, SuperTypeOK, KillersMark,
     JudgedAreGone, SubmitStaysUncertain, RowsWait, UncertainIsNotResumed, RepeatsBounded
<1>5. CASE JudgeTurn
  <2>1. CASE control.parked
    <3>1. PICK status \in VerdictStatuses : Judge(status, "parked") /\ (realSubmit => status = "uncertain")
      BY <1>5, <1>u, <2>1 DEF JudgeTurn
    <3> QED BY <1>0, <1>5, <1>u, <3>1, JudgementKeeps DEF JudgeTurn
  <2>2. CASE ~control.parked /\ timedOut
    BY <1>0, <1>5, <1>u, <2>2, JudgementKeeps DEF JudgeTurn
  <2>3. CASE ~control.parked /\ ~timedOut /\ agentProc.code = "negative"
    BY <1>0, <1>5, <1>u, <2>3, JudgementKeeps DEF JudgeTurn
  <2>4. CASE ~control.parked /\ ~timedOut /\ agentProc.code # "negative"
    <3>1. ~agentProc.alive /\ agentProc.killer \notin Ours
      BY <1>5, <2>4 DEF JudgeTurn, SupervisorInvariant, KillersMark, JudgedAreGone, Ours
    <3>2. ASSUME NEW status \in {"reported", "uncertain"}, Judge(status, "agent")
          PROVE  SupervisorInvariant'
      BY <1>0, <1>5, <1>u, <3>1, <3>2, JudgementKeeps DEF JudgeTurn
    <3>3. CASE Judge(Unless("failed"), "provider")
      BY <1>0, <1>5, <1>u, <3>3, JudgementKeeps DEF JudgeTurn
    <3>4. CASE ReaderMoves("raised") /\ UNCHANGED verdict
      BY <1>0, <1>5, <3>4 DEF JudgeTurn, ReaderMoves, SupervisorInvariant, SuperTypeOK, KillersMark,
         JudgedAreGone, SubmitStaysUncertain, RowsWait, UncertainIsNotResumed, RepeatsBounded
    <3> QED BY <1>5, <2>4, <3>2, <3>3, <3>4 DEF JudgeTurn
  <2>5. control.parked \in BOOLEAN /\ timedOut \in BOOLEAN
    BY DEF SupervisorInvariant, SuperTypeOK
  <2> QED BY <2>1, <2>2, <2>3, <2>4, <2>5
<1>6. CASE HandleError
  BY <1>0, <1>6, <1>u, JudgementKeeps DEF HandleError
<1>7. CASE AbortTurn
  <2>1. agentProc' \in ProcRow /\ (agentProc' = agentProc \/ agentProc'.killer = "operator")
    BY <1>0, <1>7, KillEnds DEF AbortTurn, Killers
  <2> QED BY <1>0, <1>7, <1>u, <2>1, JudgementKeeps DEF AbortTurn
<1>8. CASE FinishTurn
  <2> USE DEF SupervisorInvariant, SuperTypeOK, KillersMark, JudgedAreGone, SubmitStaysUncertain,
              RowsWait, UncertainIsNotResumed, RepeatsBounded, WithinBound, Ours
  <2>1. agentProc' \in ProcRow /\ (agentProc' = agentProc \/ (agentProc.alive /\ ~agentProc'.alive /\ agentProc'.killer = "cleanup"))
    BY <1>0, <1>8, KillEnds DEF FinishTurn, Killers
  <2> QED BY <1>0, <1>8, <2>1 DEF FinishTurn, TurnRow, ReaderMoves, VerdictRow, ProcRow, Codes, Killers
<1> QED BY <1>1, <1>2, <1>3, <1>4, <1>5, <1>6, <1>7, <1>8

-----------------------------------------------------------------------------
(* The theorems *)

\* Every step keeps the invariant.
LEMMA SupervisorStepKeeps ==
  SupervisorInvariant /\ [SuperNext]_superVars => SupervisorInvariant'
<1> SUFFICES ASSUME SupervisorInvariant, [SuperNext]_superVars PROVE SupervisorInvariant'
  OBVIOUS
<1>1. CASE SuperNext
  BY <1>1, OthersKeep, LinesKeep, EndsKeep DEF SuperNext
<1>2. CASE UNCHANGED superVars
  BY <1>2 DEF superVars, SupervisorInvariant, SuperTypeOK, KillersMark, JudgedAreGone,
     SubmitStaysUncertain, RowsWait, UncertainIsNotResumed, RepeatsBounded, WithinBound
<1> QED BY <1>1, <1>2

\* Every behaviour of a turn keeps the invariant.
LEMMA TurnsHold == SuperSpec => []SupervisorInvariant
BY SupervisorStart, SupervisorStepKeeps, PTL DEF SuperSpec

\* However the deadline, the lease, the supervisor, Ctrl+C and the agent's own end fall, a turn
\* that the runtime ended is not taken at the agent's word, a real Submit stays uncertain and
\* is not resumed, and a repeated call is stopped in time, for any set of tool calls.
THEOREM TurnsAreSupervised == SuperSpec => []SupervisedTurn
<1>1. SupervisorInvariant => SupervisedTurn
  <2> SUFFICES ASSUME SupervisorInvariant PROVE SupervisedTurn
    OBVIOUS
  <2>1. KilledIsNotBelieved
    BY DEF SupervisorInvariant, JudgedAreGone, KilledIsNotBelieved, Ours
  <2>2. RepeatsStop
    BY DEF SupervisorInvariant, RepeatsBounded, WithinBound, RepeatsStop
  <2> QED BY <2>1, <2>2 DEF SupervisorInvariant, SupervisedTurn
<1> QED BY <1>1, TurnsHold, PTL

-----------------------------------------------------------------------------
(* The streaming pipeline *)

Spent(s) == stage[s].failures >= FailureBudget

\* A thread has left through its end if and only if its result is known.  One that died in its
\* count leaves no result.
ThreadsEnd ==
  \A s \in StageNames :
    /\ stage[s].pc = "done" <=> StageEnded(s)
    /\ s \notin ordered => result[s] = "skipped"
    /\ stage["discover"].pc \in {"running", "done"}
    /\ result[s] = "ok" /\ s # "discover" => ~Spent(s)
    /\ stage[s].pc \notin {"finishing", "done"} => ~Spent(s)

\* Who saw nothing pending missed at most what came since.
LooksTrue == \A s \in Downstream : stage[s].pc = "looking" => RowsDue(s) \subseteq gap[s]

\* Unless the run was interrupted, who found nothing to do leaves after its upstream.
Satisfied(s) ==
  \/ stage[s].pc = "finishing" /\ ~Spent(s)
  \/ s \in ordered /\ result[s] = "ok"

UpstreamFirst ==
  ~stopEvent => \A s \in Downstream :
    Satisfied(s) \/ (s \in ordered /\ result[s] = "skipped") => StageEnded(Upstream[s])

GapsTold ==
  ~stopEvent => \A s \in Downstream : Satisfied(s) /\ FedThroughUpstream(s) => RowsDue(s) \subseteq gap[s]

StageInvariant == StageTypeOK /\ ThreadsEnd /\ LooksTrue /\ UpstreamFirst /\ GapsTold

StageRow == [pc : StagePcs, failures : 0..FailureBudget]
StageResults == {"unknown", "skipped", "ok", "error"}

\* The order of the stages, and whose writes make rows pending for each of them.
LEMMA StageOrder ==
  /\ \A s \in Downstream : Upstream[s] \in StageNames /\ Upstream[s] # s
  /\ Upstream["enrich"] = "discover" /\ Upstream["score"] = "enrich" /\ Upstream["tailor"] = "score"
  /\ Upstream["cover"] = "tailor" /\ Upstream["pdf"] = "cover"
  /\ Feeders["enrich"] = {"discover"} /\ Feeders["score"] = {"discover", "enrich"}
  /\ Feeders["tailor"] = {"score"} /\ Feeders["cover"] = {"discover", "tailor"} /\ Feeders["pdf"] = {"tailor"}
BY DEF Downstream, StageNames, Upstream, Feeders

LEMMA StagePlaces ==
  /\ Position["discover"] = 0 /\ Position["enrich"] = 1 /\ Position["score"] = 2
  /\ Position["tailor"] = 3 /\ Position["cover"] = 4 /\ Position["pdf"] = 5
BY DEF Position

\* The types, in the form the provers need.
LEMMA StageTypes ==
  ASSUME StageInvariant
  PROVE  /\ stage \in [StageNames -> StageRow] /\ result \in [StageNames -> StageResults]
         /\ todo \in [Downstream -> SUBSET PipelineJobs] /\ gap \in [Downstream -> SUBSET PipelineJobs]
         /\ taken \in [Downstream -> SUBSET PipelineJobs]
         /\ unfound \subseteq PipelineJobs /\ ineligible \subseteq PipelineJobs
         /\ ordered \subseteq StageNames /\ FailureBudget \in Nat \ {0}
         /\ Downstream \subseteq StageNames
BY StageAssumption DEF StageInvariant, StageTypeOK, StageRow, StageResults, StageNames

\* A stage that waited for the one before left after it.
LEMMA WaitedFor ==
  ASSUME StageInvariant, ~stopEvent, NEW t \in Downstream, t \in ordered, StageEnded(t), result[t] # "error"
  PROVE  StageEnded(Upstream[t])
<1>1. result[t] \in {"skipped", "ok"}
  BY StageTypes DEF StageResults, StageEnded
<1> QED BY <1>1 DEF StageInvariant, UpstreamFirst, Satisfied

\* While a satisfied stage is fed through its upstream, nothing more is made pending for it.
LEMMA FeederEnded ==
  ASSUME StageInvariant, ~stopEvent, NEW s \in Downstream, Satisfied(s), FedThroughUpstream(s),
         NEW f \in Feeders[s]
  PROVE  StageEnded(f)
<1>1. StageEnded(Upstream[s])
  BY DEF StageInvariant, UpstreamFirst
<1>2. f \in StageNames /\ {"enrich", "score", "tailor", "cover"} \subseteq Downstream
  BY StageOrder DEF Downstream, StageNames
<1>3. CASE f \notin ordered
  BY <1>2, <1>3 DEF StageInvariant, ThreadsEnd, StageEnded
<1>4. CASE f \in ordered
  \* Each stage in between was selected, and waited.
  <2>1. \A t \in Downstream :
          Position[f] < Position[t] /\ Position[t] < Position[s] => t \in ordered /\ result[t] # "error"
    BY <1>4 DEF FedThroughUpstream
  <2>2. CASE f = Upstream[s]
    BY <1>1, <2>2
  <2>3. CASE s = "score" /\ f = "discover"
    <3>1. "enrich" \in ordered /\ result["enrich"] # "error" /\ StageEnded("enrich")
      BY <1>1, <1>2, <2>1, <2>3, StageOrder, StagePlaces
    <3> QED BY <1>2, <2>3, <3>1, WaitedFor, StageOrder
  <2>4. CASE s = "cover" /\ f = "discover"
    <3>1. \A t \in {"enrich", "score", "tailor"} : t \in ordered /\ result[t] # "error"
      BY <1>2, <2>1, <2>4, StagePlaces
    <3>2. StageEnded("tailor")
      BY <1>1, <2>4, StageOrder
    <3>3. StageEnded("score")
      BY <1>2, <3>1, <3>2, WaitedFor, StageOrder
    <3>4. StageEnded("enrich")
      BY <1>2, <3>1, <3>3, WaitedFor, StageOrder
    <3> QED BY <1>2, <2>4, <3>1, <3>4, WaitedFor, StageOrder
  <2>5. CASE s = "pdf" /\ f = "tailor"
    <3>1. "cover" \in ordered /\ result["cover"] # "error" /\ StageEnded("cover")
      BY <1>1, <1>2, <2>1, <2>5, StageOrder, StagePlaces
    <3> QED BY <1>2, <2>5, <3>1, WaitedFor, StageOrder
  <2>6. \/ f = Upstream[s] \/ (s = "score" /\ f = "discover")
        \/ (s = "cover" /\ f = "discover") \/ (s = "pdf" /\ f = "tailor")
    BY StageOrder DEF Downstream
  <2> QED BY <2>2, <2>3, <2>4, <2>5, <2>6
<1> QED BY <1>3, <1>4

\* A row that a stage still under way, or one that was asked for it anyhow, makes pending is
\* missed by nobody who is satisfied.
LEMMA ArrivalsKeep ==
  ASSUME StageInvariant, NEW j \in PipelineJobs, NEW at, NEW f \in StageNames, ~StageEnded(f),
         \A t \in at \cap Downstream :
           f \in Feeders[t] \/ (j \in todo[t] /\ (j \in ineligible => j \in ineligible')),
         Pend(j, at), UNCHANGED <<Run, stage, result>>,
         unfound' \subseteq PipelineJobs, ineligible' \subseteq PipelineJobs, ineligible \ {j} \subseteq ineligible',
         taken' \in [Downstream -> SUBSET PipelineJobs]
  PROVE  StageInvariant'
<1>0. UNCHANGED <<ordered, coverOff, stopEvent, reported>>
  BY DEF Run
<1>1. /\ todo' \in [Downstream -> SUBSET PipelineJobs] /\ gap' \in [Downstream -> SUBSET PipelineJobs]
      /\ \A s \in Downstream :
           /\ s \notin at \cap ordered => todo'[s] = todo[s] \ {j}
           /\ s \in at \cap ordered => todo'[s] = todo[s] \cup {j}
           /\ gap[s] \subseteq gap'[s]
           /\ s \in at \cap ordered /\ stage[s].pc = "looking" => j \in gap'[s]
  BY StageTypes DEF Pend
<1>2. StageTypeOK'
  BY <1>0, <1>1 DEF StageInvariant, StageTypeOK
<1>3. ThreadsEnd' /\ UpstreamFirst'
  BY <1>0 DEF StageInvariant, ThreadsEnd, UpstreamFirst, StageEnded, Spent, Satisfied
<1>4. \A s \in Downstream : RowsDue(s)' \subseteq RowsDue(s) \cup (IF s \in at \cap ordered THEN {j} ELSE {})
  BY <1>1 DEF RowsDue
<1>5. LooksTrue'
  BY <1>1, <1>4 DEF StageInvariant, LooksTrue
<1>6. GapsTold'
  <2> SUFFICES ASSUME ~stopEvent, NEW s \in Downstream, Satisfied(s), FedThroughUpstream(s)
               PROVE  RowsDue(s)' \subseteq gap'[s]
    BY <1>0 DEF GapsTold, Satisfied, FedThroughUpstream, Spent
  <2>1. f \notin Feeders[s]
    BY FeederEnded
  <2>2. s \in at => RowsDue(s)' \subseteq RowsDue(s)
    BY <1>1, <2>1 DEF RowsDue
  <2>3. RowsDue(s)' \subseteq RowsDue(s)
    BY <1>4, <2>2
  <2> QED BY <1>1, <2>3 DEF StageInvariant, GapsTold
<1> QED BY <1>2, <1>3, <1>5, <1>6 DEF StageInvariant

\* A step of the thread of stage s, from where it stands and what the tracker has after it.
ThreadMoves(s, row, r) ==
  /\ ~StageEnded(s)
  /\ stage' = [stage EXCEPT ![s] = row] /\ result' = [result EXCEPT ![s] = r]
  /\ UNCHANGED <<ordered, coverOff, unfound, todo, ineligible, stopEvent, reported>>
  /\ gap' \in [Downstream -> SUBSET PipelineJobs] /\ taken' \in [Downstream -> SUBSET PipelineJobs]
  /\ \A t \in Downstream : t # s => gap'[t] = gap[t]

\* It leaves as it should.
MovesWell(s, row, r) ==
  LET spent == row.failures >= FailureBudget
      satisfied == (row.pc = "finishing" /\ ~spent) \/ r = "ok"
  IN  /\ row.pc = "done" <=> r # "unknown"
      /\ s = "discover" => row.pc \in {"running", "done"}
      /\ r = "ok" /\ s # "discover" => ~spent
      /\ row.pc \notin {"finishing", "done"} => ~spent
      /\ s \in Downstream =>
           /\ row.pc = "looking" => RowsDue(s) \subseteq gap'[s]
           /\ ~stopEvent /\ (satisfied \/ r = "skipped") => StageEnded(Upstream[s])
           /\ ~stopEvent /\ satisfied /\ FedThroughUpstream(s) => RowsDue(s) \subseteq gap'[s]

\* Then everything that is known of the stages still holds.
LEMMA ThreadKeeps ==
  ASSUME StageInvariant, NEW s \in StageNames, NEW row \in StageRow, NEW r \in StageResults,
         ThreadMoves(s, row, r), MovesWell(s, row, r)
  PROVE  StageInvariant'
<1>1. /\ stage' \in [StageNames -> StageRow] /\ result' \in [StageNames -> StageResults]
      /\ stage'[s] = row /\ result'[s] = r
      /\ \A t \in StageNames : t # s => stage'[t] = stage[t] /\ result'[t] = result[t]
  BY StageTypes DEF ThreadMoves
<1>2. StageTypeOK'
  BY <1>1 DEF StageInvariant, StageTypeOK, ThreadMoves, StageRow, StageResults
<1>3. s \in ordered
  BY DEF ThreadMoves, StageInvariant, ThreadsEnd, StageEnded
<1>4. ThreadsEnd'
  <2> SUFFICES ASSUME NEW t \in StageNames
               PROVE  /\ stage'[t].pc = "done" <=> result'[t] # "unknown"
                      /\ t \notin ordered => result'[t] = "skipped"
                      /\ stage'["discover"].pc \in {"running", "done"}
                      /\ result'[t] = "ok" /\ t # "discover" => ~(stage'[t].failures >= FailureBudget)
                      /\ stage'[t].pc \notin {"finishing", "done"} => ~(stage'[t].failures >= FailureBudget)
    BY DEF ThreadsEnd, StageEnded, Spent, ThreadMoves
  <2>1. "discover" \in StageNames
    BY DEF StageNames
  <2>2. stage'["discover"].pc \in {"running", "done"}
    BY <1>1, <2>1 DEF MovesWell, StageInvariant, ThreadsEnd
  <2>3. CASE t = s
    BY <1>1, <1>3, <2>2, <2>3 DEF MovesWell
  <2>4. CASE t # s
    BY <1>1, <2>2, <2>4 DEF StageInvariant, ThreadsEnd, StageEnded, Spent
  <2> QED BY <2>3, <2>4
<1>c. \A t \in Downstream : RowsDue(t)' = RowsDue(t)
  BY DEF ThreadMoves, RowsDue
<1>5. LooksTrue'
  BY <1>1, <1>c, StageTypes DEF LooksTrue, ThreadMoves, MovesWell, StageInvariant
<1>6. ASSUME NEW t \in Downstream, t # s PROVE Satisfied(t)' <=> Satisfied(t)
  BY <1>1, <1>6, StageTypes DEF Satisfied, Spent, ThreadMoves
\* A chain that is whole now was whole before: who has no result yet did not fail.
<1>f. ASSUME NEW t \in Downstream, FedThroughUpstream(t)' PROVE FedThroughUpstream(t)
  <2>1. \A u \in Downstream : result'[u] # "error" => result[u] # "error"
    BY <1>1, StageTypes DEF ThreadMoves, StageEnded
  <2> QED BY <1>f, <2>1 DEF FedThroughUpstream, ThreadMoves
<1>7. \A t \in StageNames : StageEnded(t) => result'[t] # "unknown"
  BY <1>1 DEF ThreadMoves, StageEnded
<1>8. UpstreamFirst'
  <2> SUFFICES ASSUME ~stopEvent, NEW t \in Downstream,
                      Satisfied(t)' \/ (t \in ordered /\ result'[t] = "skipped")
               PROVE  StageEnded(Upstream[t])'
    BY DEF UpstreamFirst, ThreadMoves
  <2>1. Upstream[t] \in StageNames
    BY StageOrder
  <2>2. CASE t = s
    <3>1. (row.pc = "finishing" /\ ~(row.failures >= FailureBudget)) \/ r = "ok" \/ r = "skipped"
      BY <1>1, <2>2 DEF Satisfied, Spent
    <3>2. StageEnded(Upstream[t])
      BY <2>2, <3>1 DEF MovesWell
    <3> QED BY <1>7, <2>1, <3>2 DEF StageEnded
  <2>3. CASE t # s
    <3>1. Satisfied(t) \/ (t \in ordered /\ result[t] = "skipped")
      BY <1>1, <1>6, <2>3, StageTypes
    <3>2. StageEnded(Upstream[t])
      BY <3>1 DEF StageInvariant, UpstreamFirst
    <3> QED BY <1>7, <2>1, <3>2 DEF StageEnded
  <2> QED BY <2>2, <2>3
<1>9. GapsTold'
  <2> SUFFICES ASSUME ~stopEvent, NEW t \in Downstream, Satisfied(t)', FedThroughUpstream(t)'
               PROVE  RowsDue(t) \subseteq gap'[t]
    BY <1>c DEF GapsTold, ThreadMoves
  <2>1. FedThroughUpstream(t)
    BY <1>f
  <2>2. CASE t = s
    <3>1. (row.pc = "finishing" /\ ~(row.failures >= FailureBudget)) \/ r = "ok"
      BY <1>1, <2>2 DEF Satisfied, Spent
    <3> QED BY <2>1, <2>2, <3>1 DEF MovesWell
  <2>3. CASE t # s
    <3>1. RowsDue(t) \subseteq gap[t]
      BY <1>6, <2>1, <2>3 DEF StageInvariant, GapsTold
    <3> QED BY <2>3, <3>1 DEF ThreadMoves
  <2> QED BY <2>2, <2>3
<1> QED BY <1>2, <1>4, <1>5, <1>8, <1>9 DEF StageInvariant

\* What the batches read of a row is forgotten.
LEMMA Forgotten ==
  ASSUME StageInvariant, NEW j, NEW S, Forget(j, S)
  PROVE  taken' \in [Downstream -> SUBSET PipelineJobs]
BY StageTypes DEF Forget

\* Discovery finds a row, or meets it again.
LEMMA CrawlKeeps ==
  ASSUME StageInvariant, NEW j \in PipelineJobs, FindRow(j) \/ RefreshRow(j)
  PROVE  StageInvariant'
<1>0. "discover" \in StageNames /\ ~StageEnded("discover")
  BY DEF FindRow, RefreshRow, StageAt, StageNames, StageInvariant, ThreadsEnd
<1>1. "discover" \in Feeders["enrich"] /\ "discover" \in Feeders["score"] /\ "discover" \in Feeders["cover"]
  BY StageOrder
<1>2. CASE FindRow(j)
  <2>1. PICK at \in {{}, {"enrich"}, {"score"}} : Pend(j, at)
    BY <1>2 DEF FindRow
  <2>2. \A t \in at \cap Downstream : "discover" \in Feeders[t]
    BY <1>1, <2>1
  <2>3. /\ UNCHANGED <<Run, stage, result>> /\ unfound' \subseteq PipelineJobs
        /\ ineligible' \subseteq PipelineJobs /\ ineligible \ {j} \subseteq ineligible'
        /\ taken' \in [Downstream -> SUBSET PipelineJobs]
    BY <1>2, StageTypes DEF FindRow
  <2> QED BY <1>0, <2>1, <2>2, <2>3, ArrivalsKeep
<1>3. CASE RefreshRow(j)
  <2>1. /\ UNCHANGED <<Run, stage, result>> /\ unfound' \subseteq PipelineJobs /\ UNCHANGED ineligible
        /\ taken' \in [Downstream -> SUBSET PipelineJobs] /\ ineligible \subseteq PipelineJobs
    BY <1>3, StageTypes, Forgotten DEF RefreshRow
  <2>2. PICK at \in SUBSET (Pending(j) \cup {"score", "cover"}) : Pend(j, at)
    BY <1>3 DEF RefreshRow, AfterTrigger
  <2>3. \A t \in at \cap Downstream : "discover" \in Feeders[t] \/ j \in todo[t]
    BY <1>1, <2>2 DEF Pending
  <2> QED BY <1>0, <2>1, <2>2, <2>3, ArrivalsKeep
<1> QED BY <1>2, <1>3

\* Enrichment resolves the address of a row.
LEMMA ResolveKeeps ==
  ASSUME StageInvariant, NEW j \in PipelineJobs, ResolveUrl(j)
  PROVE  StageInvariant'
<1>1. "enrich" \in StageNames /\ ~StageEnded("enrich") /\ "enrich" \in Feeders["score"]
  BY StageOrder DEF ResolveUrl, StageAt, StageNames, Downstream, StageInvariant, ThreadsEnd
<1>2. /\ UNCHANGED <<Run, stage, result>> /\ unfound' \subseteq PipelineJobs
      /\ ineligible' \subseteq PipelineJobs /\ ineligible \ {j} \subseteq ineligible'
      /\ taken' \in [Downstream -> SUBSET PipelineJobs]
  BY StageTypes, Forgotten DEF ResolveUrl
<1>3. PICK at \in SUBSET (Pending(j) \cup {"score"}) : Pend(j, at) /\ (at = {} \/ ineligible' = ineligible)
  BY DEF ResolveUrl, AfterTrigger
<1>4. \A t \in at \cap Downstream :
        "enrich" \in Feeders[t] \/ (j \in todo[t] /\ (j \in ineligible => j \in ineligible'))
  BY <1>1, <1>3 DEF Pending
<1> QED BY <1>1, <1>2, <1>3, <1>4, ArrivalsKeep

\* The batch of a stage settles a row.
LEMMA SettleKeeps ==
  ASSUME StageInvariant, NEW s \in Downstream, NEW j \in PipelineJobs, SettleRow(s, j)
  PROVE  StageInvariant'
<1>1. s \in StageNames /\ ~StageEnded(s)
  BY StageTypes DEF SettleRow, StageAt, StageInvariant, ThreadsEnd
<1>2. /\ UNCHANGED <<Run, stage, result>> /\ unfound' \subseteq PipelineJobs /\ UNCHANGED ineligible
      /\ taken' \in [Downstream -> SUBSET PipelineJobs] /\ ineligible \subseteq PipelineJobs
  BY StageTypes, Forgotten DEF SettleRow
<1>3. PICK at \in AfterBatch(s, j) : Pend(j, at)
  BY DEF SettleRow
\* Whatever a batch adds, its stage feeds.
<1>4. \A t \in at : t \in Pending(j) \/ s \in Feeders[t]
  <2>1. CASE s = "enrich"
    <3>1. at \subseteq Pending(j) \cup {"score"}
      BY <1>3, <2>1 DEF AfterBatch, AfterTrigger
    <3> QED BY <2>1, <3>1, StageOrder
  <2>2. CASE s = "score"
    <3>1. at \subseteq Pending(j) \cup {"tailor"}
      BY <1>3, <2>2 DEF AfterBatch
    <3> QED BY <2>2, <3>1, StageOrder
  <2>3. CASE s = "tailor"
    <3>1. at \subseteq Pending(j) \cup {"cover", "pdf"}
      BY <1>3, <2>3 DEF AfterBatch
    <3> QED BY <2>3, <3>1, StageOrder
  <2>4. CASE s = "cover"
    BY <1>3, <2>4 DEF AfterBatch
  <2>5. CASE s \notin {"enrich", "score", "tailor", "cover"}
    BY <1>3, <2>5 DEF AfterBatch
  <2> QED BY <2>1, <2>2, <2>3, <2>4, <2>5
<1>5. \A t \in at \cap Downstream : s \in Feeders[t] \/ j \in todo[t]
  BY <1>4 DEF Pending
<1> QED BY <1>1, <1>2, <1>3, <1>5, ArrivalsKeep

\* A batch is read, after the verdicts were brought up to date: who has counted already is told.
LEMMA BatchKeeps ==
  ASSUME StageInvariant, NEW s \in Downstream, TakeBatch(s)
  PROVE  StageInvariant'
<1>0. UNCHANGED <<ordered, coverOff, stopEvent, reported, unfound, todo, result>>
  BY DEF TakeBatch, Run
<1>1. /\ s \in StageNames /\ stage \in [StageNames -> StageRow] /\ stage[s].pc = "reading"
      /\ stage' = [stage EXCEPT ![s].pc = "running"]
  BY StageTypes DEF TakeBatch, StageAt, StageMoves
<1>2. /\ stage' \in [StageNames -> StageRow]
      /\ \A t \in StageNames : stage'[t].failures = stage[t].failures /\ (t # s => stage'[t] = stage[t])
      /\ stage'[s].pc = "running"
  BY <1>1 DEF StageRow, StagePcs
<1>3. ineligible' \subseteq PipelineJobs
  BY StageTypes DEF TakeBatch
<1>4. /\ gap' \in [Downstream -> SUBSET PipelineJobs]
      /\ \A t \in Downstream : gap[t] \subseteq gap'[t]
      /\ \A t \in Downstream :
           stage[t].pc \in {"looking", "finishing", "done"} =>
             (todo[t] \cap ineligible) \ ineligible' \subseteq gap'[t]
  BY StageTypes DEF TakeBatch
<1>5. taken' \in [Downstream -> SUBSET PipelineJobs]
  BY StageTypes DEF TakeBatch
<1>6. StageTypeOK'
  BY <1>0, <1>2, <1>3, <1>4, <1>5 DEF StageInvariant, StageTypeOK, StageRow
<1>7. ThreadsEnd'
  <2>1. s # "discover"
    BY DEF Downstream
  <2> QED BY <1>0, <1>1, <1>2, <2>1 DEF StageInvariant, ThreadsEnd, StageEnded, Spent, StageNames
<1>8. \A t \in Downstream : Satisfied(t)' <=> Satisfied(t)
  BY <1>0, <1>1, <1>2, StageTypes DEF Satisfied, Spent
<1>9. UpstreamFirst'
  BY <1>0, <1>8 DEF StageInvariant, UpstreamFirst, StageEnded
<1>10. \A t \in Downstream :
         stage[t].pc \in {"looking", "finishing", "done"} /\ RowsDue(t) \subseteq gap[t] =>
           RowsDue(t)' \subseteq gap'[t]
  BY <1>0, <1>4 DEF RowsDue
<1>11. LooksTrue'
  BY <1>1, <1>2, <1>10, StageTypes DEF StageInvariant, LooksTrue
<1>12. GapsTold'
  <2> SUFFICES ASSUME ~stopEvent, NEW t \in Downstream, Satisfied(t), FedThroughUpstream(t)
               PROVE  RowsDue(t)' \subseteq gap'[t]
    BY <1>0, <1>8 DEF GapsTold, FedThroughUpstream
  <2>1. stage[t].pc \in {"finishing", "done"}
    BY StageTypes DEF Satisfied, StageInvariant, ThreadsEnd, StageEnded
  <2> QED BY <1>10, <2>1 DEF StageInvariant, GapsTold
<1> QED BY <1>6, <1>7, <1>9, <1>11, <1>12 DEF StageInvariant

\* What a thread knows when it stands somewhere.
LEMMA StageKnows ==
  ASSUME StageInvariant, NEW s \in StageNames, NEW pc, StageAt(s, pc)
  PROVE  /\ stage[s] \in StageRow /\ stage[s].pc = pc /\ result[s] \in StageResults
         /\ FailureBudget \in Nat \ {0} /\ stage[s].failures \in 0..FailureBudget
         /\ pc # "done" => ~StageEnded(s) /\ result[s] = "unknown"
         /\ pc \notin {"finishing", "done"} => stage[s].failures < FailureBudget
         /\ \A to \in StagePcs :
              StageMoves(s, to) => \E row \in StageRow :
                row.pc = to /\ row.failures = stage[s].failures /\ stage' = [stage EXCEPT ![s] = row]
<1>1. stage[s] \in StageRow /\ stage[s].pc = pc /\ result[s] \in StageResults
  BY StageTypes DEF StageAt
<1>2. FailureBudget \in Nat \ {0} /\ stage[s].failures \in 0..FailureBudget
  BY <1>1, StageTypes DEF StageRow
<1>3. pc # "done" => ~StageEnded(s) /\ result[s] = "unknown"
  BY <1>1 DEF StageInvariant, ThreadsEnd, StageEnded
<1>4. pc \notin {"finishing", "done"} => stage[s].failures < FailureBudget
  BY <1>1, <1>2 DEF StageInvariant, ThreadsEnd, Spent
<1>5. ASSUME NEW to \in StagePcs, StageMoves(s, to)
      PROVE  \E row \in StageRow :
               row.pc = to /\ row.failures = stage[s].failures /\ stage' = [stage EXCEPT ![s] = row]
  <2> DEFINE row == [stage[s] EXCEPT !.pc = to]
  <2>1. row \in StageRow /\ row.pc = to /\ row.failures = stage[s].failures
    BY <1>1 DEF StageRow
  <2>2. stage' = [stage EXCEPT ![s] = row]
    BY <1>5 DEF StageMoves
  <2> QED BY <2>1, <2>2
<1> QED BY <1>1, <1>2, <1>3, <1>4, <1>5

\* A result other than a stage's own stays as it is.
LEMMA ResultStays ==
  ASSUME StageInvariant, NEW s \in StageNames, UNCHANGED result
  PROVE  result' = [result EXCEPT ![s] = result[s]]
BY StageTypes

\* The steps of a downstream stage, but for its batch and its end.
LEMMA PassesKeep ==
  ASSUME StageInvariant, NEW s \in Downstream,
         \/ EnterPass(s) \/ CountPending(s) \/ CountFails(s)
         \/ PassSucceeds(s) \/ PassFails(s) \/ LookUpstream(s)
  PROVE  StageInvariant'
<1>0. /\ s \in StageNames /\ s # "discover" /\ gap \in [Downstream -> SUBSET PipelineJobs]
      /\ taken \in [Downstream -> SUBSET PipelineJobs]
  BY StageTypes DEF Downstream, StageNames
<1>1. CASE EnterPass(s)
  <2>1. PICK row \in StageRow :
          /\ row.pc = (IF stopEvent THEN "finishing" ELSE "counting")
          /\ row.failures = stage[s].failures /\ stage' = [stage EXCEPT ![s] = row]
    BY <1>0, <1>1, StageKnows DEF EnterPass, StagePcs
  <2>2. ~StageEnded(s) /\ result[s] = "unknown" /\ row.failures < FailureBudget /\ result[s] \in StageResults
    BY <1>0, <1>1, <2>1, StageKnows DEF EnterPass
  <2>3. ThreadMoves(s, row, result[s])
    BY <1>0, <1>1, <2>1, <2>2, ResultStays DEF EnterPass, ThreadMoves, Run, Rows
  <2>4. row.failures \in Nat /\ FailureBudget \in Nat
    BY StageTypes DEF StageRow
  <2>5. MovesWell(s, row, result[s])
    BY <1>0, <2>1, <2>2, <2>4 DEF MovesWell
  <2> QED BY <1>0, <2>2, <2>3, <2>5, ThreadKeeps
<1>2. CASE CountPending(s)
  <2>1. PICK row \in StageRow :
          /\ row.pc = (IF RowsDue(s) # {} THEN "reading" ELSE "looking")
          /\ row.failures = stage[s].failures /\ stage' = [stage EXCEPT ![s] = row]
    BY <1>0, <1>2, StageKnows DEF CountPending, StagePcs
  <2>2. ~StageEnded(s) /\ result[s] = "unknown" /\ row.failures < FailureBudget /\ result[s] \in StageResults
    BY <1>0, <1>2, <2>1, StageKnows DEF CountPending
  <2>3. ThreadMoves(s, row, result[s])
    BY <1>0, <1>2, <2>1, <2>2, ResultStays DEF CountPending, ThreadMoves, Run
  <2>4. row.failures \in Nat /\ FailureBudget \in Nat
    BY StageTypes DEF StageRow
  <2>5. MovesWell(s, row, result[s])
    BY <1>0, <2>1, <2>2, <2>4 DEF MovesWell
  <2> QED BY <1>0, <2>2, <2>3, <2>5, ThreadKeeps
<1>3. CASE PassSucceeds(s)
  <2>1. PICK row \in StageRow : row.pc = "top" /\ row.failures = 0 /\ stage' = [stage EXCEPT ![s] = row]
    <3> DEFINE row == [pc |-> "top", failures |-> 0]
    <3>1. row \in StageRow /\ row.pc = "top" /\ row.failures = 0
      BY StageTypes DEF StageRow, StagePcs
    <3> QED BY <1>3, <3>1 DEF PassSucceeds
  <2>2. ~StageEnded(s) /\ result[s] = "unknown" /\ row.failures < FailureBudget /\ result[s] \in StageResults
    BY <1>0, <1>3, <2>1, StageKnows DEF PassSucceeds
  <2>3. ThreadMoves(s, row, result[s])
    BY <1>0, <1>3, <2>1, <2>2, ResultStays DEF PassSucceeds, ThreadMoves, Run
  <2>4. row.failures \in Nat /\ FailureBudget \in Nat
    BY StageTypes DEF StageRow
  <2>5. MovesWell(s, row, result[s])
    BY <1>0, <2>1, <2>2, <2>4 DEF MovesWell
  <2> QED BY <1>0, <2>2, <2>3, <2>5, ThreadKeeps
<1>4. CASE PassFails(s)
  <2>1. ~StageEnded(s) /\ result[s] = "unknown" /\ result[s] \in StageResults
        /\ stage[s].failures \in Nat /\ stage[s].failures < FailureBudget /\ FailureBudget \in Nat
    BY <1>0, <1>4, StageKnows DEF PassFails
  <2>2. stage[s].failures + 1 \in 0..FailureBudget
    BY <2>1
  <2>3. PICK row \in StageRow :
          /\ row.pc = (IF stage[s].failures + 1 >= FailureBudget THEN "finishing" ELSE "top")
          /\ row.failures = stage[s].failures + 1 /\ stage' = [stage EXCEPT ![s] = row]
    <3> DEFINE row == [pc |-> IF stage[s].failures + 1 >= FailureBudget THEN "finishing" ELSE "top",
                       failures |-> stage[s].failures + 1]
    <3>1. row \in StageRow /\ row.failures = stage[s].failures + 1
          /\ row.pc = (IF stage[s].failures + 1 >= FailureBudget THEN "finishing" ELSE "top")
      BY <2>2 DEF StageRow, StagePcs
    <3>2. stage' = [stage EXCEPT ![s] = row]
      BY <1>4 DEF PassFails
    <3> QED BY <3>1, <3>2
  <2>5. ThreadMoves(s, row, result[s])
    BY <1>0, <1>4, <2>1, <2>3, ResultStays DEF PassFails, ThreadMoves, Run
  <2>6. /\ row.pc \in {"finishing", "top"}
        /\ row.pc = "finishing" => row.failures >= FailureBudget
        /\ row.pc = "top" => ~(row.failures >= FailureBudget)
    BY <2>3
  <2>7. MovesWell(s, row, result[s])
    BY <1>0, <2>1, <2>6 DEF MovesWell
  <2> QED BY <1>0, <2>1, <2>5, <2>7, ThreadKeeps
<1>5. CASE LookUpstream(s)
  <2>1. PICK row \in StageRow :
          /\ row.pc = (IF StageEnded(Upstream[s]) THEN "finishing" ELSE "top")
          /\ row.failures = stage[s].failures /\ stage' = [stage EXCEPT ![s] = row]
    BY <1>0, <1>5, StageKnows DEF LookUpstream, StagePcs
  <2>2. ~StageEnded(s) /\ result[s] = "unknown" /\ row.failures < FailureBudget /\ result[s] \in StageResults
    BY <1>0, <1>5, <2>1, StageKnows DEF LookUpstream
  <2>3. ThreadMoves(s, row, result[s])
    BY <1>0, <1>5, <2>1, <2>2, ResultStays DEF LookUpstream, ThreadMoves, Run, Rows
  <2>4. row.failures \in Nat /\ FailureBudget \in Nat
    BY StageTypes DEF StageRow
  <2>5. RowsDue(s) \subseteq gap[s] /\ gap' = gap
    BY <1>5 DEF StageInvariant, LooksTrue, LookUpstream, StageAt, Rows
  <2>6. MovesWell(s, row, result[s])
    BY <1>0, <2>1, <2>2, <2>4, <2>5 DEF MovesWell
  <2> QED BY <1>0, <2>2, <2>3, <2>6, ThreadKeeps
<1>6. CASE CountFails(s)
  <2>1. PICK row \in StageRow :
          row.pc = "dead" /\ row.failures = stage[s].failures /\ stage' = [stage EXCEPT ![s] = row]
    BY <1>0, <1>6, StageKnows DEF CountFails, StagePcs
  <2>2. ~StageEnded(s) /\ result[s] = "unknown" /\ row.failures < FailureBudget /\ result[s] \in StageResults
    BY <1>0, <1>6, <2>1, StageKnows DEF CountFails
  <2>3. ThreadMoves(s, row, result[s])
    BY <1>0, <1>6, <2>1, <2>2, ResultStays DEF CountFails, ThreadMoves, Run, Rows
  <2>4. row.failures \in Nat /\ FailureBudget \in Nat
    BY StageTypes DEF StageRow
  <2>5. MovesWell(s, row, result[s])
    BY <1>0, <2>1, <2>2, <2>4 DEF MovesWell
  <2> QED BY <1>0, <2>2, <2>3, <2>5, ThreadKeeps
<1> QED BY <1>1, <1>2, <1>3, <1>4, <1>5, <1>6

\* A stage is marked.
LEMMA MarkKeeps ==
  ASSUME StageInvariant, NEW s \in Downstream, MarkStage(s)
  PROVE  StageInvariant'
<1>0. /\ s \in StageNames /\ s # "discover" /\ gap \in [Downstream -> SUBSET PipelineJobs]
      /\ taken \in [Downstream -> SUBSET PipelineJobs] /\ UNCHANGED <<Run, Rows>>
  BY StageTypes DEF Downstream, StageNames, MarkStage
<1>1. PICK row \in StageRow :
        row.pc = "done" /\ row.failures = stage[s].failures /\ stage' = [stage EXCEPT ![s] = row]
  BY <1>0, StageKnows DEF MarkStage, StagePcs
<1>2. PICK r \in StageResults :
        /\ r = (IF stage[s].failures >= FailureBudget THEN "error" ELSE "ok")
        /\ result' = [result EXCEPT ![s] = r]
  BY DEF MarkStage, StageResults
<1>3. ~StageEnded(s) /\ stage[s].pc = "finishing"
  BY <1>0, StageKnows DEF MarkStage
<1>4. ThreadMoves(s, row, r)
  BY <1>0, <1>1, <1>2, <1>3 DEF ThreadMoves, Run, Rows
<1>5. /\ r # "unknown" /\ r # "skipped" /\ (r = "ok" <=> ~Spent(s)) /\ (r = "ok" <=> ~(row.failures >= FailureBudget))
  BY <1>1, <1>2 DEF Spent
<1>6. ~stopEvent /\ r = "ok" => StageEnded(Upstream[s]) /\ (FedThroughUpstream(s) => RowsDue(s) \subseteq gap[s])
  BY <1>3, <1>5 DEF StageInvariant, UpstreamFirst, GapsTold, Satisfied
<1>7. MovesWell(s, row, r)
  BY <1>0, <1>1, <1>5, <1>6 DEF MovesWell, Rows
<1> QED BY <1>0, <1>4, <1>7, ThreadKeeps

\* Discovery ends, and cover letters nobody asked for are skipped.
LEMMA OthersEndKeeps ==
  ASSUME StageInvariant, DiscoveryEnds \/ SkipCover
  PROVE  StageInvariant'
<1>0. /\ gap \in [Downstream -> SUBSET PipelineJobs] /\ {"discover", "cover"} \subseteq StageNames
      /\ taken \in [Downstream -> SUBSET PipelineJobs] /\ UNCHANGED <<Run, Rows>>
  BY StageTypes DEF Downstream, StageNames, DiscoveryEnds, SkipCover
<1>1. CASE DiscoveryEnds
  <2>1. PICK row \in StageRow : row.pc = "done" /\ row.failures = stage["discover"].failures
                                /\ stage' = [stage EXCEPT !["discover"] = row]
    BY <1>0, <1>1, StageKnows DEF DiscoveryEnds, StagePcs
  <2>2. PICK r \in {"ok", "error"} : result' = [result EXCEPT !["discover"] = r]
    BY <1>1 DEF DiscoveryEnds
  <2>3. ~StageEnded("discover") /\ "discover" \notin Downstream /\ r \in StageResults
    BY <1>0, <1>1, <2>2, StageKnows DEF DiscoveryEnds, Downstream, StageResults
  <2>4. ThreadMoves("discover", row, r)
    BY <1>0, <2>1, <2>2, <2>3 DEF ThreadMoves, Run, Rows
  <2>5. MovesWell("discover", row, r)
    BY <2>1, <2>2, <2>3 DEF MovesWell
  <2> QED BY <1>0, <2>3, <2>4, <2>5, ThreadKeeps
<1>2. CASE SkipCover
  <2>1. PICK row \in StageRow : row.pc = "done" /\ row.failures = stage["cover"].failures
                                /\ stage' = [stage EXCEPT !["cover"] = row]
    BY <1>0, <1>2, StageKnows DEF SkipCover, StagePcs
  <2>2. ~StageEnded("cover") /\ row.failures < FailureBudget /\ "cover" \in Downstream /\ "skipped" \in StageResults
    BY <1>0, <1>2, <2>1, StageKnows DEF SkipCover, Downstream, StageResults
  <2>3. ThreadMoves("cover", row, "skipped")
    BY <1>0, <1>2, <2>1, <2>2 DEF SkipCover, ThreadMoves, Run, Rows
  <2>4. row.failures \in Nat /\ FailureBudget \in Nat
    BY StageTypes DEF StageRow
  <2>5. MovesWell("cover", row, "skipped")
    BY <1>2, <2>1, <2>2, <2>4 DEF MovesWell, SkipCover
  <2> QED BY <1>0, <2>2, <2>3, <2>5, ThreadKeeps
<1> QED BY <1>1, <1>2

\* The main thread.
LEMMA MainKeeps ==
  ASSUME StageInvariant, Interrupt \/ ReportRun \/ UNCHANGED stageVars
  PROVE  StageInvariant'
<1>1. UNCHANGED <<ordered, coverOff, unfound, todo, ineligible, taken, stage, result, gap>>
  BY DEF Interrupt, ReportRun, stageVars, Run, Rows
<1>2. stopEvent' = stopEvent \/ stopEvent' = TRUE
  BY DEF Interrupt, ReportRun, stageVars, Run
<1>3. StageTypeOK'
  BY <1>1 DEF StageInvariant, StageTypeOK, Interrupt, ReportRun, stageVars, Run
<1>4. ThreadsEnd' /\ LooksTrue'
  BY <1>1 DEF StageInvariant, ThreadsEnd, LooksTrue, StageEnded, Spent, RowsDue
<1>5. UpstreamFirst' /\ GapsTold'
  <2>1. CASE stopEvent' = TRUE
    BY <2>1 DEF UpstreamFirst, GapsTold
  <2>2. CASE stopEvent' = stopEvent
    BY <1>1, <2>2 DEF StageInvariant, UpstreamFirst, GapsTold, StageEnded, Spent, Satisfied,
       FedThroughUpstream, RowsDue
  <2> QED BY <1>2, <2>1, <2>2
<1> QED BY <1>3, <1>4, <1>5 DEF StageInvariant

\* What holds before the first stage runs.
LEMMA StageStarts ==
  ASSUME StageInit
  PROVE  StageInvariant
<1>1. PICK at \in [PipelineJobs -> {"unfound", "enrich", "score", "tailor", "pdf"}] :
        /\ unfound = {j \in PipelineJobs : at[j] = "unfound"}
        /\ todo = [s \in Downstream |-> {j \in PipelineJobs : at[j] = s /\ s \in ordered}]
  BY DEF StageInit
<1>2. /\ FailureBudget \in Nat \ {0} /\ ordered \subseteq StageNames /\ 0 \in 0..FailureBudget
      /\ ~(0 >= FailureBudget)
  BY StageAssumption DEF StageInit
<1>3. \A s \in StageNames :
        /\ stage[s] = [pc |-> FirstPc(s, ordered, coverOff), failures |-> 0]
        /\ result[s] = (IF s \in ordered THEN "unknown" ELSE "skipped")
  BY DEF StageInit
<1>4. /\ \A s \in StageNames :
           /\ stage[s].failures = 0 /\ stage[s].pc \in {"top", "running", "skipping", "done"}
           /\ stage[s].pc = "done" <=> s \notin ordered
      /\ stage["discover"].pc \in {"running", "done"}
  <2>1. \A s \in StageNames : stage[s].failures = 0 /\ stage[s].pc = FirstPc(s, ordered, coverOff)
    <3> SUFFICES ASSUME NEW s \in StageNames
                 PROVE  stage[s].failures = 0 /\ stage[s].pc = FirstPc(s, ordered, coverOff)
      OBVIOUS
    <3>1. stage[s] = [pc |-> FirstPc(s, ordered, coverOff), failures |-> 0]
      BY <1>3
    <3> QED BY <3>1
  <2>2. "discover" \in StageNames
    BY DEF StageNames
  <2> QED BY <2>1, <2>2 DEF FirstPc
<1>5. StageTypeOK
  <2>1. stage \in [StageNames -> StageRow]
    BY <1>2 DEF StageInit, FirstPc, StageRow, StagePcs
  <2>2. /\ unfound \subseteq PipelineJobs /\ ineligible \subseteq PipelineJobs
        /\ todo \in [Downstream -> SUBSET PipelineJobs] /\ taken \in [Downstream -> SUBSET PipelineJobs]
        /\ gap \in [Downstream -> SUBSET PipelineJobs]
    BY <1>1 DEF StageInit
  <2> QED BY <1>2, <2>1, <2>2 DEF StageInit, StageTypeOK, StageRow
<1>6. ThreadsEnd
  BY <1>2, <1>3, <1>4 DEF ThreadsEnd, StageEnded, Spent
<1>7. LooksTrue
  BY <1>4 DEF LooksTrue, Downstream, StageNames
<1>8. UpstreamFirst /\ GapsTold
  <2>1. \A s \in Downstream : ~Satisfied(s) /\ ~(s \in ordered /\ result[s] = "skipped")
    BY <1>3, <1>4 DEF Satisfied, Downstream, StageNames
  <2> QED BY <2>1 DEF UpstreamFirst, GapsTold
<1> QED BY <1>5, <1>6, <1>7, <1>8 DEF StageInvariant

\* Every behaviour of the pipeline keeps the invariant.
LEMMA StagesHold == StageSpec => []StageInvariant
<1>1. StageInit => StageInvariant
  BY StageStarts
<1>2. StageInvariant /\ [StageNext]_stageVars => StageInvariant'
  BY CrawlKeeps, ResolveKeeps, SettleKeeps, BatchKeeps, PassesKeep, MarkKeeps, OthersEndKeeps, MainKeeps
     DEF StageNext
<1> QED BY <1>1, <1>2, PTL DEF StageSpec

\* A stage that ends well in a run that nobody interrupts, and that waited for everything that
\* makes rows pending for it, leaves at most the rows that became pending between its last count
\* and its look at upstream, or that a later batch found eligible, whatever was selected.
THEOREM StagesAreDrained == StageSpec => []StagesDrain
<1>1. StageInvariant => StagesDrain
  BY DEF StageInvariant, GapsTold, StagesDrain, Satisfied
<1> QED BY <1>1, StagesHold, PTL

-----------------------------------------------------------------------------
(* The task graph *)

GraphStopped == TargetReached \/ cancelled

\* A task is pending, in flight or answered, but for one whose result ended the coordinator, and
\* it is tried at most as often as it may be.
TasksApart ==
  /\ pending \cap running = {}
  /\ \A t \in Nodes : Answered(t) => t \notin pending \cup running
  /\ \A t, u \in Nodes \ (pending \cup running) :
       Answered(t) \/ (coord.pc = "failed" /\ (Answered(u) \/ u = t))
  /\ \A t \in Nodes : attempts[t] <= Retries[t] + 1 /\ (t \in pending => attempts[t] <= Retries[t])

\* What the current loop has still to visit.
LoopsFit ==
  /\ coord.pc \in {"scan", "start"} => left \subseteq pending
  /\ coord.pc = "collect" => left \subseteq running \cap ended
  /\ coord.pc = "returned" => pending = {} /\ running = {}

\* The results that a task which is ready may start with.
Fit(t) == (\A d \in Required[t] : Succeeded(d)) \/ \E d \in Deps[t] : results[d] \in {"blocked", "timed_out"}

ScanKnows ==
  /\ coord.pc = "scan" => \A t \in pending \ left : Unblocked(t) => Fit(t) \/ GraphStopped
  /\ coord.pc = "start" => \A t \in left : Unblocked(t) /\ (Fit(t) \/ GraphStopped)

\* What is in use is what the tasks in flight claim, and no more than there is but for the further
\* claims of one of them.
UseFits ==
  /\ \A r \in Resources :
       /\ inUse[r] = Cardinality(Units(r, running))
       /\ \/ inUse[r] <= CapacityOf[r]
          \/ \E t \in running : inUse[r] + Largest[t][r] <= CapacityOf[r] + Claims[t][r]
  /\ \A t \in running : Conflicts[t] \subseteq held
  /\ \A k \in held : \E t \in running : k \in Conflicts[t]
  /\ \A t, u \in running : t # u => Conflicts[t] \cap Conflicts[u] = {}

\* A round in which nothing is in flight starts something, unless the graph was stopped.
RoundsMove ==
  /\ coord.pc = "scan" /\ TargetReached => pending \subseteq left
  /\ coord.pc = "start" /\ TargetReached => pending = {}
  /\ coord.pc = "start" /\ ~coord.moved /\ running = {} => \A t \in pending : Unblocked(t) => t \in left
  /\ coord.pc = "stuck" => cancelled

GraphInvariant ==
  /\ GraphTypeOK /\ TasksApart /\ LoopsFit /\ StartedInOrder /\ ScanKnows /\ UseFits /\ RoundsMove
  /\ TargetKept

\* The types, in the form the provers need.
LEMMA GraphTypes ==
  ASSUME GraphInvariant
  PROVE  /\ coord \in [pc : CoordPcs, moved : BOOLEAN]
         /\ left \subseteq Nodes /\ pending \subseteq Nodes /\ running \subseteq Nodes
         /\ ended \subseteq Nodes /\ attempts \in [Nodes -> Nat]
         /\ results \in [Nodes -> Statuses \cup {None}]
         /\ inUse \in [Resources -> Nat] /\ held \subseteq ConflictKeys
         /\ successes \in Nat /\ cancelled \in BOOLEAN /\ late \subseteq Nodes
         /\ Deps \in [Nodes -> SUBSET Nodes] /\ Required \in [Nodes -> SUBSET Nodes]
         /\ \A t \in Nodes : Required[t] \subseteq Deps[t]
         /\ Claims \in [Nodes -> [Resources -> Nat]] /\ Conflicts \in [Nodes -> SUBSET ConflictKeys]
         /\ Largest \in [Nodes -> [Resources -> Nat]] /\ CapacityOf \in [Resources -> Nat]
         /\ \A t \in Nodes, r \in Resources :
              Largest[t][r] <= CapacityOf[r] /\ (Claims[t][r] > 0 => Largest[t][r] > 0)
         /\ Retries \in [Nodes -> Nat] /\ GraphTarget \in Nat \ {0} /\ GraphWorkers \in Nat \ {0}
         /\ None \notin Statuses /\ IsFiniteSet(Nodes)
BY GraphAssumption DEF GraphInvariant, GraphTypeOK

\* The units of one task are as many as it claims.
LEMMA UnitsOfOne ==
  ASSUME NEW r \in Resources, NEW t \in Nodes
  PROVE  /\ Units(r, {t}) = {t} \X (1..Claims[t][r])
         /\ IsFiniteSet(Units(r, {t})) /\ Cardinality(Units(r, {t})) = Claims[t][r]
<1>1. Claims[t][r] \in Nat
  BY GraphAssumption
<1> DEFINE n == Claims[t][r]
           f == [k \in 1..n |-> <<t, k>>]
<1>2. Units(r, {t}) = {t} \X (1..n)
  BY DEF Units
<1>3. Units(r, {t}) = {<<t, k>> : k \in 1..n}
  BY <1>2
<1>4. f \in Bijection(1..n, Units(r, {t}))
  <2>1. f \in [1..n -> Units(r, {t})]
    BY <1>3
  <2>2. \A a, b \in 1..n : f[a] = f[b] => a = b
    OBVIOUS
  <2>3. \A u \in Units(r, {t}) : \E k \in 1..n : f[k] = u
    BY <1>3
  <2> QED BY <2>1, <2>2, <2>3, Fun_IsBij
<1>5. ExistsBijection(1..n, Units(r, {t}))
  BY <1>4 DEF ExistsBijection
<1> QED BY <1>1, <1>2, <1>5, FS_NatBijection, FS_CountingElements

\* The units of a set of tasks grow and shrink by what a task claims.
LEMMA UnitsOfMore ==
  ASSUME NEW r \in Resources, NEW S \in SUBSET Nodes, NEW t \in Nodes \ S
  PROVE  /\ IsFiniteSet(Units(r, S))
         /\ Cardinality(Units(r, S \cup {t})) = Cardinality(Units(r, S)) + Claims[t][r]
<1>1. IsFiniteSet(S)
  BY GraphAssumption, FS_Subset
<1> DEFINE parts == {{u} \X (1..Claims[u][r]) : u \in S}
           f == [u \in S |-> {u} \X (1..Claims[u][r])]
<1>2. IsFiniteSet(parts)
  <2>1. f \in [S -> parts] /\ \A p \in parts : \E u \in S : f[u] = p
    OBVIOUS
  <2>2. f \in Surjection(S, parts)
    BY <2>1, Fun_IsSurj
  <2> QED BY <1>1, <2>2, FS_Surjection
<1>3. \A p \in parts : IsFiniteSet(p)
  <2> SUFFICES ASSUME NEW u \in S PROVE IsFiniteSet({u} \X (1..Claims[u][r]))
    OBVIOUS
  <2>1. Units(r, {u}) = {u} \X (1..Claims[u][r]) /\ IsFiniteSet(Units(r, {u}))
    BY UnitsOfOne
  <2> QED BY <2>1
<1>4. IsFiniteSet(Units(r, S))
  BY <1>2, <1>3, FS_UNION DEF Units
<1>5. Units(r, S \cup {t}) = Units(r, S) \cup Units(r, {t})
  BY DEF Units
<1>6. Units(r, S) \cap Units(r, {t}) = {}
  <2>1. \A x \in Units(r, S) : x[1] \in S
    BY DEF Units
  <2>2. \A x \in Units(r, {t}) : x[1] = t
    BY DEF Units
  <2> QED BY <2>1, <2>2
<1>7. /\ IsFiniteSet(Units(r, {t})) /\ Cardinality(Units(r, {t})) = Claims[t][r]
  BY UnitsOfOne
<1> HIDE DEF parts, f
<1>8. Cardinality(Units(r, S \cup {t})) = Cardinality(Units(r, S)) + Claims[t][r] - Cardinality({})
  BY SMTT(30), <1>4, <1>5, <1>6, <1>7, FS_Union
<1>9. Cardinality(Units(r, S)) \in Nat /\ Claims[t][r] \in Nat /\ Cardinality({}) = 0
  BY <1>4, FS_CardinalityType, FS_EmptySet, GraphAssumption
<1> QED BY <1>4, <1>8, <1>9

\* With nothing in flight every task finds its resources, and no success is expected.
LEMMA NothingInUse ==
  ASSUME GraphInvariant, running = {}
  PROVE  /\ \A t \in Nodes : Available(t) /\ (TargetTaken(t) => TargetReached)
         /\ Cardinality(running) = 0
<1>1. \A r \in Resources : inUse[r] = 0
  <2> SUFFICES ASSUME NEW r \in Resources PROVE inUse[r] = 0
    OBVIOUS
  <2>1. Units(r, running) = {}
    BY DEF Units
  <2> QED BY <2>1, FS_EmptySet DEF GraphInvariant, UseFits
<1>2. held = {}
  BY DEF GraphInvariant, UseFits
<1>3. \A t \in Nodes : Available(t)
  <2> SUFFICES ASSUME NEW t \in Nodes, NEW r \in Resources
               PROVE  inUse[r] + Largest[t][r] <= CapacityOf[r]
    BY <1>2 DEF Available
  <2>1. Largest[t][r] \in Nat /\ CapacityOf[r] \in Nat /\ Largest[t][r] <= CapacityOf[r]
    BY GraphTypes
  <2> QED BY <1>1, <2>1
<1>4. running \cap Counting = {} /\ Cardinality({}) = 0
  BY FS_EmptySet
<1>5. \A t \in Nodes : TargetTaken(t) => TargetReached
  BY <1>4, GraphTypes DEF TargetTaken, TargetReached
<1> QED BY <1>3, <1>4, <1>5

\* What holds of tasks, results and resources whatever the coordinator looks at next.
LEMMA TasksStay ==
  ASSUME GraphInvariant, UNCHANGED <<pending, running, attempts, results, inUse, held, successes>>,
         coord.pc = "failed" => UNCHANGED coord
  PROVE  TasksApart' /\ StartedInOrder' /\ UseFits' /\ TargetKept'
BY DEF GraphInvariant, TasksApart, StartedInOrder, UseFits, TargetKept, Answered, Unblocked, Succeeded, Units

\* An answer to task t changes nothing for those that could start without it.
LEMMA AnswersStay ==
  ASSUME GraphInvariant, NEW t \in Nodes, ~Answered(t), NEW v \in Statuses, results' = [results EXCEPT ![t] = v]
  PROVE  /\ results' \in [Nodes -> Statuses \cup {None}]
         /\ \A u \in Nodes : (Answered(u)' <=> Answered(u) \/ u = t) /\ (u # t => results'[u] = results[u])
         /\ \A u \in Nodes : Unblocked(u) => Unblocked(u)' /\ (Fit(u)' <=> Fit(u))
         /\ UNCHANGED attempts => StartedInOrder'
<1>1. /\ results' \in [Nodes -> Statuses \cup {None}] /\ results'[t] = v /\ v # None
      /\ \A u \in Nodes : u # t => results'[u] = results[u]
  BY GraphTypes
<1>2. \A u \in Nodes : (Answered(u)' <=> Answered(u) \/ u = t)
  BY <1>1 DEF Answered
<1>3. ASSUME NEW u \in Nodes, Unblocked(u) PROVE Unblocked(u)' /\ (Fit(u)' <=> Fit(u))
  <2>1. Deps[u] \subseteq Nodes /\ Required[u] \subseteq Deps[u] /\ t \notin Deps[u]
    BY <1>3, GraphTypes DEF Unblocked
  <2>2. \A d \in Deps[u] : results'[d] = results[d]
    BY <1>1, <2>1
  <2> QED BY <1>3, <2>1, <2>2 DEF Unblocked, Answered, Fit, Succeeded
<1>4. ASSUME UNCHANGED attempts PROVE StartedInOrder'
  BY <1>3, <1>4 DEF GraphInvariant, StartedInOrder, Fit
<1> QED BY <1>1, <1>2, <1>3, <1>4

\* The other threads: a call ends, the graph is cancelled, a task gets late.
LEMMA OutsideKeeps ==
  ASSUME GraphInvariant,
         \/ \E t \in Nodes : CallEnds(t) \/ TaskGetsLate(t)
         \/ CancelGraph
  PROVE  GraphInvariant'
<1>1. /\ UNCHANGED <<coord, left, pending, running, attempts, results, inUse, held, successes>>
      /\ cancelled' = cancelled \/ cancelled' = TRUE
      /\ ended \subseteq ended' /\ ended' \subseteq Nodes /\ late' \subseteq Nodes
  BY GraphTypes DEF CallEnds, TaskGetsLate, CancelGraph
<1>2. TasksApart' /\ StartedInOrder' /\ UseFits' /\ TargetKept'
  BY <1>1, TasksStay
<1>3. GraphTypeOK'
  BY <1>1, GraphTypes DEF GraphTypeOK
<1>4. LoopsFit'
  BY <1>1, GraphTypes DEF GraphInvariant, LoopsFit
<1>5. (TargetReached' <=> TargetReached) /\ (GraphStopped => GraphStopped')
  BY <1>1 DEF GraphStopped, TargetReached
<1>6. \A t \in Nodes : (Unblocked(t)' <=> Unblocked(t)) /\ (Fit(t)' <=> Fit(t))
  BY <1>1 DEF Unblocked, Answered, Fit, Succeeded
<1>7. ScanKnows'
  BY <1>1, <1>5, <1>6, GraphTypes DEF GraphInvariant, ScanKnows
<1>8. RoundsMove'
  BY <1>1, <1>5, <1>6, GraphTypes DEF GraphInvariant, RoundsMove
<1> QED BY <1>2, <1>3, <1>4, <1>7, <1>8 DEF GraphInvariant

\* What a step of the coordinator has to show that changes no task.
LEMMA CoordKeeps ==
  ASSUME GraphInvariant,
         UNCHANGED <<pending, running, ended, attempts, results, inUse, held, successes, cancelled, late>>,
         coord' \in [pc : CoordPcs, moved : BOOLEAN], coord.pc = "failed" => UNCHANGED coord,
         left' \subseteq Nodes, LoopsFit', ScanKnows', RoundsMove'
  PROVE  GraphInvariant'
<1>1. TasksApart' /\ StartedInOrder' /\ UseFits' /\ TargetKept'
  BY TasksStay
<1>2. GraphTypeOK'
  BY GraphTypes DEF GraphTypeOK
<1> QED BY <1>1, <1>2 DEF GraphInvariant

\* The list of ready tasks is made, and a task of it is passed over.
LEMMA ReadyKeeps ==
  ASSUME GraphInvariant, ScanEnds \/ \E t \in Nodes : PassOver(t)
  PROVE  GraphInvariant'
<1>1. /\ UNCHANGED <<pending, running, ended, attempts, results, inUse, held, successes, cancelled, late>>
      /\ left' \subseteq pending /\ coord'.pc = "start" /\ coord.pc # "failed"
      /\ coord' \in [pc : CoordPcs, moved : BOOLEAN]
  BY GraphTypes DEF ScanEnds, PassOver, Foremost, GraphInvariant, LoopsFit, CoordPcs
<1>2. LoopsFit'
  BY <1>1 DEF LoopsFit
<1>3. /\ TargetReached' <=> TargetReached
      /\ GraphStopped' <=> GraphStopped
      /\ \A t \in Nodes : (Unblocked(t)' <=> Unblocked(t)) /\ (Fit(t)' <=> Fit(t))
  BY <1>1 DEF GraphStopped, TargetReached, Unblocked, Answered, Fit, Succeeded
<1>4. CASE ScanEnds
  <2>1. /\ coord.pc = "scan" /\ left = {} /\ left' = {t \in pending : Unblocked(t) /\ Available(t)}
    BY <1>4 DEF ScanEnds
  <2>2. ScanKnows'
    BY <1>1, <1>3, <2>1, GraphTypes DEF GraphInvariant, ScanKnows
  <2>3. TargetReached => pending = {}
    BY <2>1 DEF GraphInvariant, RoundsMove
  <2>4. running = {} => \A t \in pending : Unblocked(t) => t \in left'
    BY <2>1, NothingInUse, GraphTypes
  <2>5. RoundsMove'
    BY <1>1, <1>3, <2>3, <2>4, GraphTypes DEF RoundsMove
  <2> QED BY <1>1, <1>2, <2>2, <2>5, GraphTypes, CoordKeeps
<1>5. ASSUME NEW t \in Nodes, PassOver(t) PROVE GraphInvariant'
  <2>1. /\ coord.pc = "start" /\ coord' = coord /\ t \in left /\ left' = left \ {t} /\ MayStart
        /\ ~Available(t) \/ TargetTaken(t)
    BY <1>5 DEF PassOver, Foremost
  <2>2. ScanKnows'
    BY <1>1, <1>3, <2>1, GraphTypes DEF GraphInvariant, ScanKnows
  <2>3. running # {}
    BY <2>1, NothingInUse DEF MayStart
  <2>4. RoundsMove'
    BY <1>1, <1>3, <2>1, <2>3 DEF GraphInvariant, RoundsMove
  <2> QED BY <1>1, <1>2, <2>2, <2>4, GraphTypes, CoordKeeps
<1> QED BY <1>4, <1>5

\* A graph has a task that depends on no other pending one.
LEMMA SomeTaskIsReady ==
  ASSUME GraphInvariant, coord.pc # "failed", running = {}, pending # {}
  PROVE  \E t \in pending : Unblocked(t)
<1>1. pending \in (SUBSET Nodes) \ {{}}
  BY GraphTypes
<1>2. PICK t \in pending : Deps[t] \cap pending = {}
  BY <1>1, GraphAssumption
<1>3. \A d \in Deps[t] : d \in Nodes /\ d \notin pending \cup running
  BY <1>2, GraphTypes
<1>4. Unblocked(t)
  BY <1>3 DEF GraphInvariant, TasksApart, Unblocked
<1> QED BY <1>4

\* The starts end.
LEMMA StartsEndKeeps ==
  ASSUME GraphInvariant, StartsEnd
  PROVE  GraphInvariant'
<1>1. /\ UNCHANGED <<pending, running, ended, attempts, results, inUse, held, successes, cancelled, late>>
      /\ coord.pc = "start" /\ (left = {} \/ ~MayStart)
  BY DEF StartsEnd
<1>2. /\ left' \subseteq Nodes
      /\ coord' \in [pc : CoordPcs, moved : BOOLEAN]
      /\ coord'.pc \in {"wait", "returned", "scan", "stuck"}
      /\ coord'.pc = "returned" => pending = {} /\ running = {}
      /\ coord'.pc = "scan" => left' = pending
      /\ coord'.pc = "stuck" => running = {} /\ pending # {} /\ ~coord.moved
  <2>1. coord \in [pc : CoordPcs, moved : BOOLEAN]
        /\ pending \subseteq Nodes
    BY GraphTypes
  <2>2. CASE running # {}
    BY <2>1, <2>2 DEF StartsEnd, CoordPcs
  <2>3. CASE running = {} /\ pending = {}
    BY <2>1, <2>3 DEF StartsEnd, CoordPcs
  <2>4. CASE running = {} /\ pending # {}
    <3>1. /\ coord' = [pc |-> IF coord.moved THEN "scan" ELSE "stuck", moved |-> FALSE]
          /\ left' = pending
      BY <2>4 DEF StartsEnd
    <3>2. CASE coord.moved
      BY <2>1, <2>4, <3>1, <3>2 DEF CoordPcs
    <3>3. CASE ~coord.moved
      BY <2>1, <2>4, <3>1, <3>3 DEF CoordPcs
    <3> QED BY <3>2, <3>3
  <2> QED BY <2>2, <2>3, <2>4
<1>3. LoopsFit' /\ ScanKnows'
  BY <1>1, <1>2 DEF LoopsFit, ScanKnows
<1>4. ASSUME running = {}, pending # {}, ~coord.moved PROVE cancelled
  <2>1. ~TargetReached
    BY <1>1, <1>4 DEF GraphInvariant, RoundsMove
  <2>2. left # {}
    BY <1>1, <1>4, SomeTaskIsReady DEF GraphInvariant, RoundsMove
  <2>3. ~MayStart
    BY <1>1, <2>2
  <2>4. Cardinality(running) < GraphWorkers
    BY <1>4, NothingInUse, GraphTypes
  <2> QED BY <2>1, <2>3, <2>4 DEF MayStart
<1>5. RoundsMove'
  BY <1>1, <1>2, <1>4 DEF RoundsMove
<1> QED BY <1>1, <1>2, <1>3, <1>5, CoordKeeps

\* The coordinator waits, and a round ends.
LEMMA WaitKeeps ==
  ASSUME GraphInvariant, WaitEnds \/ CollectEnds
  PROVE  GraphInvariant'
<1>1. /\ UNCHANGED <<pending, running, ended, attempts, results, inUse, held, successes, cancelled, late>>
      /\ left' \subseteq Nodes
      /\ coord' \in [pc : CoordPcs, moved : BOOLEAN]
      /\ coord.pc # "failed" /\ coord'.pc \in {"collect", "returned", "scan"}
      /\ coord'.pc = "collect" => left' = running \cap ended
      /\ coord'.pc = "returned" => pending = {} /\ running = {}
      /\ coord'.pc = "scan" => left' = pending
  <2>1. coord \in [pc : CoordPcs, moved : BOOLEAN]
        /\ pending \subseteq Nodes /\ running \subseteq Nodes
    BY GraphTypes
  <2>2. CASE WaitEnds
    BY <2>1, <2>2 DEF WaitEnds, CoordPcs
  <2>3. CASE CollectEnds
    <3>1. CASE pending = {} /\ running = {}
      BY <2>1, <2>3, <3>1 DEF CollectEnds, CoordPcs
    <3>2. CASE ~(pending = {} /\ running = {})
      <4>1. coord' = [pc |-> "scan", moved |-> FALSE] /\ left' = pending
        BY <2>3, <3>2 DEF CollectEnds
      <4> QED BY <2>1, <2>3, <4>1 DEF CollectEnds, CoordPcs
    <3> QED BY <3>1, <3>2
  <2> QED BY <2>2, <2>3
<1>2. LoopsFit' /\ ScanKnows' /\ RoundsMove'
  BY <1>1 DEF LoopsFit, ScanKnows, RoundsMove
<1> QED BY <1>1, <1>2, CoordKeeps

\* The scan visits a task.
LEMMA ScanKeeps ==
  ASSUME GraphInvariant, NEW t \in Nodes, ScanTask(t)
  PROVE  GraphInvariant'
<1>1. /\ coord.pc = "scan" /\ t \in left /\ left' = left \ {t} /\ t \in pending
      /\ UNCHANGED <<running, ended, attempts, inUse, held, cancelled, late>>
  BY DEF ScanTask, GraphInvariant, LoopsFit
<1>2. CASE Verdict(t) = None
  <2>1. UNCHANGED <<coord, pending, results, successes>>
    BY <1>2 DEF ScanTask
  <2>2. ~TargetReached /\ ~cancelled /\ (Unblocked(t) => Fit(t))
    BY <1>2, GraphTypes DEF Verdict, Statuses, Fit
  <2>3. LoopsFit'
    BY <1>1, <2>1 DEF GraphInvariant, LoopsFit
  <2>4. /\ GraphStopped' <=> GraphStopped
        /\ \A u \in Nodes : (Unblocked(u)' <=> Unblocked(u)) /\ (Fit(u)' <=> Fit(u))
    BY <1>1, <2>1 DEF GraphStopped, TargetReached, Unblocked, Answered, Fit, Succeeded
  <2>5. ScanKnows'
    BY <1>1, <2>1, <2>2, <2>4, GraphTypes DEF GraphInvariant, ScanKnows
  <2>6. RoundsMove'
    BY <1>1, <2>1, <2>2 DEF RoundsMove, TargetReached
  <2> QED BY <1>1, <2>1, <2>3, <2>5, <2>6, GraphTypes, CoordKeeps
<1>3. CASE Verdict(t) # None
  <2> DEFINE v == Verdict(t)
  <2>1. /\ v \in {"cancelled", "timed_out", "blocked"}
        /\ v = "cancelled" => GraphStopped
    BY <1>3 DEF Verdict, GraphStopped
  <2>2. /\ pending' = pending \ {t}
        /\ coord' = [coord EXCEPT !.moved = TRUE] \/ coord' = [coord EXCEPT !.pc = "failed"]
        /\ results' = [results EXCEPT ![t] = v]
        /\ successes' = successes
    BY <1>1, <1>3, <2>1, GraphTypes DEF ScanTask, Consume, CoordFails
  <2> HIDE DEF v
  <2>3. v \in Statuses /\ ~Answered(t) /\ t \notin running
    BY <1>1, <2>1 DEF Statuses, GraphInvariant, TasksApart
  <2>4. /\ results' \in [Nodes -> Statuses \cup {None}] /\ StartedInOrder'
        /\ \A u \in Nodes : (Answered(u)' <=> Answered(u) \/ u = t) /\ (u # t => results'[u] = results[u])
        /\ \A u \in Nodes : Unblocked(u) => Unblocked(u)' /\ (Fit(u)' <=> Fit(u))
    BY <1>1, <2>2, <2>3, AnswersStay
  <2>5. /\ coord' \in [pc : CoordPcs, moved : BOOLEAN]
        /\ coord'.pc \in {"scan", "failed"}
    BY <1>1, <2>2, GraphTypes DEF CoordPcs
  <2>6. GraphTypeOK'
    BY <1>1, <2>2, <2>4, <2>5, GraphTypes DEF GraphTypeOK
  <2>7. TasksApart'
    BY <1>1, <2>2, <2>3, <2>4 DEF GraphInvariant, TasksApart
  <2>8. LoopsFit'
    BY <1>1, <2>2, <2>5 DEF GraphInvariant, LoopsFit
  <2>9. results'[t] = v
    BY <2>2, GraphTypes
  <2>10. ScanKnows'
    <3> SUFFICES ASSUME NEW u \in pending' \ left', Unblocked(u)', ~GraphStopped'
                 PROVE  Fit(u)'
      BY <2>5 DEF ScanKnows
    <3>1. u \in pending \ left /\ u \in Nodes /\ ~GraphStopped
      BY <1>1, <2>2, GraphTypes DEF GraphStopped, TargetReached
    <3>2. CASE Unblocked(u)
      BY <1>1, <2>4, <3>1, <3>2 DEF GraphInvariant, ScanKnows
    <3>3. CASE ~Unblocked(u)
      <4>1. t \in Deps[u]
        BY <2>4, <3>1, <3>3, GraphTypes DEF Unblocked
      <4>2. results'[t] \in {"blocked", "timed_out"}
        BY <2>1, <2>9, <3>1
      <4> QED BY <4>1, <4>2 DEF Fit
    <3> QED BY <3>2, <3>3
  <2>11. UseFits' /\ TargetKept'
    BY <1>1, <2>2 DEF GraphInvariant, UseFits, TargetKept, Units
  <2>12. RoundsMove'
    BY <1>1, <2>2, <2>5 DEF GraphInvariant, RoundsMove, TargetReached
  <2> QED BY <2>4, <2>6, <2>7, <2>8, <2>10, <2>11, <2>12 DEF GraphInvariant
<1> QED BY <1>2, <1>3

\* The counted calls in flight, when one is added.
LEMMA CountedMore ==
  ASSUME NEW S \in SUBSET Nodes, NEW t \in Nodes \ S
  PROVE  /\ Cardinality(S \cap Counting) \in Nat
         /\ Cardinality((S \cup {t}) \cap Counting) =
              Cardinality(S \cap Counting) + (IF t \in Counting THEN 1 ELSE 0)
<1>1. IsFiniteSet(S \cap Counting)
  <2>1. S \cap Counting \in SUBSET Nodes /\ IsFiniteSet(Nodes)
    BY GraphAssumption
  <2> QED BY <2>1, FS_Subset
<1>2. Cardinality(S \cap Counting) \in Nat
  BY <1>1, FS_CardinalityType
<1>3. CASE t \in Counting
  <2>1. (S \cup {t}) \cap Counting = (S \cap Counting) \cup {t} /\ t \notin S \cap Counting
    BY <1>3
  <2> QED BY <1>1, <1>2, <1>3, <2>1, FS_AddElement
<1>4. CASE t \notin Counting
  <2>1. (S \cup {t}) \cap Counting = S \cap Counting
    BY <1>4
  <2> QED BY <1>2, <1>4, <2>1
<1> QED BY <1>3, <1>4

\* A task starts.
LEMMA StartKeeps ==
  ASSUME GraphInvariant, NEW t \in Nodes, StartTask(t)
  PROVE  GraphInvariant'
<1>1. /\ coord.pc = "start" /\ t \in left /\ MayStart /\ Available(t) /\ ~TargetTaken(t)
      /\ left' = left \ {t} /\ pending' = pending \ {t} /\ running' = running \cup {t}
      /\ UNCHANGED <<results, successes, cancelled, late>>
  BY DEF StartTask, Foremost
<1>2. t \in pending /\ t \notin running /\ t \in Nodes \ running /\ running \subseteq Nodes
  BY <1>1, GraphTypes DEF GraphInvariant, LoopsFit, TasksApart
<1>3. /\ ended' = ended \ {t} /\ attempts' = [attempts EXCEPT ![t] = @ + 1]
      /\ inUse' = [r \in Resources |-> inUse[r] + Claims[t][r]]
      /\ held' = held \cup Conflicts[t] /\ coord' = [coord EXCEPT !.moved = TRUE]
  BY DEF StartTask
<1>4. /\ attempts[t] \in Nat /\ attempts'[t] = attempts[t] + 1 /\ attempts' \in [Nodes -> Nat]
      /\ \A u \in Nodes : u # t => attempts'[u] = attempts[u]
  <2>1. attempts[t] \in Nat /\ attempts[t] + 1 \in Nat
    BY GraphTypes
  <2> QED BY <1>3, <2>1, GraphTypes
<1>5. \A r \in Resources : /\ inUse[r] \in Nat /\ Claims[t][r] \in Nat /\ CapacityOf[r] \in Nat
                           /\ inUse'[r] = inUse[r] + Claims[t][r] /\ inUse'[r] \in Nat
  BY <1>3, GraphTypes
<1>6. /\ coord' \in [pc : CoordPcs, moved : BOOLEAN]
      /\ coord'.pc = "start" /\ coord'.moved
  BY <1>1, <1>3, GraphTypes
<1>7. GraphTypeOK'
  <2>1. inUse' \in [Resources -> Nat]
    BY <1>3, <1>5
  <2>2. held' \subseteq ConflictKeys /\ ended' \subseteq Nodes
    BY <1>3, GraphTypes
  <2> QED BY <1>1, <1>2, <1>4, <1>6, <2>1, <2>2, GraphTypes DEF GraphTypeOK
<1>8. TasksApart'
  <2>1. Retries[t] \in Nat /\ attempts[t] <= Retries[t]
    BY <1>2, GraphTypes DEF GraphInvariant, TasksApart
  <2>2. \A u \in Nodes : attempts'[u] <= Retries[u] + 1 /\ (u \in pending' => attempts'[u] <= Retries[u])
    BY <1>1, <1>4, <2>1 DEF GraphInvariant, TasksApart
  <2> QED BY <1>1, <1>2, <2>2 DEF GraphInvariant, TasksApart, Answered
<1>9. LoopsFit' /\ RoundsMove'
  BY <1>1, <1>6 DEF GraphInvariant, LoopsFit, RoundsMove, TargetReached, MayStart
<1>10. /\ GraphStopped' <=> GraphStopped
       /\ \A u \in Nodes : (Unblocked(u)' <=> Unblocked(u)) /\ (Fit(u)' <=> Fit(u))
  BY <1>1 DEF GraphStopped, TargetReached, Unblocked, Answered, Fit, Succeeded
<1>11. Unblocked(t) /\ Fit(t)
  BY <1>1 DEF GraphInvariant, ScanKnows, GraphStopped, MayStart
<1>12. StartedInOrder'
  <2> SUFFICES ASSUME NEW u \in Nodes, attempts'[u] > 0
               PROVE  Unblocked(u)' /\ Fit(u)'
    BY DEF StartedInOrder, Fit
  <2>1. u # t => Unblocked(u) /\ Fit(u)
    BY <1>4 DEF GraphInvariant, StartedInOrder, Fit
  <2> QED BY <1>10, <1>11, <2>1
<1>13. ScanKnows'
  BY <1>1, <1>6, <1>10, GraphTypes DEF GraphInvariant, ScanKnows
<1>14. UseFits'
  <2>1. ASSUME NEW r \in Resources
        PROVE  /\ inUse'[r] = Cardinality(Units(r, running)')
               /\ \/ inUse'[r] <= CapacityOf[r]
                  \/ \E u \in running' : inUse'[r] + Largest[u][r] <= CapacityOf[r] + Claims[u][r]
    <3>1. Cardinality(Units(r, running \cup {t})) = Cardinality(Units(r, running)) + Claims[t][r]
      BY <1>2, UnitsOfMore
    <3>2. Units(r, running)' = Units(r, running \cup {t})
      BY <1>1 DEF Units
    <3>3. /\ inUse[r] = Cardinality(Units(r, running))
          /\ \/ inUse[r] <= CapacityOf[r]
             \/ \E u \in running : inUse[r] + Largest[u][r] <= CapacityOf[r] + Claims[u][r]
      BY DEF GraphInvariant, UseFits
    <3>4. /\ Claims[t][r] > 0 => inUse[r] + Largest[t][r] <= CapacityOf[r]
          /\ Largest[t][r] \in Nat /\ t \in running' /\ running \subseteq running'
      BY <1>1, GraphTypes DEF Available
    <3>5. CASE Claims[t][r] > 0
      <4>1. inUse'[r] + Largest[t][r] <= CapacityOf[r] + Claims[t][r]
        BY <1>5, <3>4, <3>5
      <4> QED BY <3>1, <3>2, <3>3, <3>4, <1>5, <4>1
    <3>6. CASE ~(Claims[t][r] > 0)
      <4>1. inUse'[r] = inUse[r]
        BY <1>5, <3>6
      <4> QED BY <1>5, <3>1, <3>2, <3>3, <3>4, <3>6, <4>1
    <3> QED BY <3>5, <3>6
  <2>2. Conflicts[t] \cap held = {}
    BY <1>1 DEF Available
  <2>3. \A u \in running : u # t /\ Conflicts[u] \subseteq held
    BY <1>2 DEF GraphInvariant, UseFits
  <2>4. \A u \in running' : Conflicts[u] \subseteq held'
    BY <1>1, <1>3, <2>3
  <2>5. \A k \in held' : \E u \in running' : k \in Conflicts[u]
    BY <1>1, <1>3 DEF GraphInvariant, UseFits
  <2>6. \A u, w \in running' : u # w => Conflicts[u] \cap Conflicts[w] = {}
    BY <1>1, <2>2, <2>3 DEF GraphInvariant, UseFits
  <2> QED BY <2>1, <2>4, <2>5, <2>6 DEF UseFits
<1>15. TargetKept'
  <2>1. /\ Cardinality(running \cap Counting) \in Nat /\ successes \in Nat /\ GraphTarget \in Nat
        /\ Cardinality((running \cup {t}) \cap Counting) =
             Cardinality(running \cap Counting) + (IF t \in Counting THEN 1 ELSE 0)
    BY <1>2, CountedMore, GraphTypes
  <2>2. successes + Cardinality(running \cap Counting) <= GraphTarget
    BY DEF GraphInvariant, TargetKept
  <2>3. t \in Counting => ~(successes + Cardinality(running \cap Counting) >= GraphTarget)
    BY <1>1 DEF TargetTaken
  <2>4. successes + Cardinality((running \cup {t}) \cap Counting) <= GraphTarget
    <3>1. CASE t \in Counting
      BY <2>1, <2>3, <3>1
    <3>2. CASE t \notin Counting
      BY <2>1, <2>2, <3>2
    <3> QED BY <3>1, <3>2
  <2> QED BY <1>1, <2>4 DEF TargetKept
<1> QED BY <1>7, <1>8, <1>9, <1>12, <1>13, <1>14, <1>15 DEF GraphInvariant

\* What a call that is taken from the pool leaves, whatever it has come to.
LEMMA PoppedFits ==
  ASSUME GraphInvariant, NEW t \in Nodes, PopCall(t)
  PROVE  /\ coord.pc = "collect" /\ t \in running /\ t \notin pending /\ ~Answered(t)
         /\ left' \subseteq running' \cap ended' /\ running' = running \ {t} /\ running' \subseteq Nodes
         /\ UNCHANGED <<ended, attempts, cancelled, late>>
         /\ inUse' \in [Resources -> Nat] /\ held' \subseteq ConflictKeys
         /\ UseFits'
         /\ Cardinality(running' \cap Counting) \in Nat
         /\ successes + Cardinality(running' \cap Counting) + (IF t \in Counting THEN 1 ELSE 0) <= GraphTarget
<1>1. /\ coord.pc = "collect" /\ t \in left /\ left' = left \ {t} /\ running' = running \ {t}
      /\ inUse' = [r \in Resources |-> inUse[r] - Claims[t][r]] /\ held' = held \ Conflicts[t]
      /\ UNCHANGED <<ended, attempts, cancelled, late>>
  BY DEF PopCall
<1>2. /\ t \in running /\ t \notin pending /\ ~Answered(t)
      /\ running \subseteq Nodes /\ left \subseteq running \cap ended
  BY <1>1, GraphTypes DEF GraphInvariant, LoopsFit, TasksApart
<1>3. PICK S \in SUBSET Nodes : S = running' /\ t \notin S /\ running = S \cup {t} /\ S \subseteq running
  BY <1>1, <1>2
<1>4. ASSUME NEW r \in Resources
      PROVE  /\ inUse'[r] = Cardinality(Units(r, running)') /\ inUse'[r] \in Nat
             /\ \/ inUse'[r] <= CapacityOf[r]
                \/ \E u \in running' : inUse'[r] + Largest[u][r] <= CapacityOf[r] + Claims[u][r]
  <2>1. /\ IsFiniteSet(Units(r, S))
        /\ Cardinality(Units(r, S \cup {t})) = Cardinality(Units(r, S)) + Claims[t][r]
    BY <1>3, UnitsOfMore
  <2>2. Units(r, running)' = Units(r, S)
    BY <1>3 DEF Units
  <2>3. inUse[r] = Cardinality(Units(r, running))
    BY DEF GraphInvariant, UseFits
  <2>4. /\ Cardinality(Units(r, S)) \in Nat /\ Claims[t][r] \in Nat /\ CapacityOf[r] \in Nat
        /\ \A u \in Nodes : Largest[u][r] \in Nat /\ Claims[u][r] \in Nat
    BY <2>1, FS_CardinalityType, GraphTypes
  <2>5. inUse'[r] = Cardinality(Units(r, S)) /\ inUse[r] = Cardinality(Units(r, S)) + Claims[t][r]
    <3>1. inUse'[r] = inUse[r] - Claims[t][r]
      BY <1>1
    <3>2. Units(r, running) = Units(r, S \cup {t})
      BY <1>3
    <3>3. inUse[r] = Cardinality(Units(r, S)) + Claims[t][r]
      BY <2>1, <2>3, <3>2
    <3> HIDE DEF Units
    <3> QED BY <2>4, <3>1, <3>3
  \* If the call had claimed more than there was, what is left fits again.
  <2>6. \/ inUse'[r] <= CapacityOf[r]
        \/ \E u \in running' : inUse'[r] + Largest[u][r] <= CapacityOf[r] + Claims[u][r]
    <3>1. CASE inUse[r] <= CapacityOf[r]
      BY <2>4, <2>5, <3>1
    <3>2. ASSUME NEW u \in running, inUse[r] + Largest[u][r] <= CapacityOf[r] + Claims[u][r]
          PROVE  \/ inUse'[r] <= CapacityOf[r]
                 \/ u \in running' /\ inUse'[r] + Largest[u][r] <= CapacityOf[r] + Claims[u][r]
      <4>1. Largest[u][r] \in Nat /\ Claims[u][r] \in Nat
        BY <1>2, <2>4
      <4>2. CASE u = t
        BY <2>4, <2>5, <3>2, <4>1, <4>2
      <4>3. CASE u # t
        BY <1>1, <2>4, <2>5, <3>2, <4>1, <4>3
      <4> QED BY <4>2, <4>3
    <3> QED BY <3>1, <3>2 DEF GraphInvariant, UseFits
  <2> QED BY <2>2, <2>4, <2>5, <2>6
<1>5. UseFits'
  <2>1. \A u \in S : u # t /\ Conflicts[u] \cap Conflicts[t] = {} /\ Conflicts[u] \subseteq held
    BY <1>2, <1>3 DEF GraphInvariant, UseFits
  <2>2. \A u \in running' : Conflicts[u] \subseteq held'
    BY <1>1, <1>3, <2>1
  <2>3. \A k \in held' : \E u \in running' : k \in Conflicts[u]
    BY <1>1, <1>3 DEF GraphInvariant, UseFits
  <2>4. \A u, w \in running' : u # w => Conflicts[u] \cap Conflicts[w] = {}
    BY <1>3 DEF GraphInvariant, UseFits
  <2> QED BY <1>4, <2>2, <2>3, <2>4 DEF UseFits
<1>6. inUse' \in [Resources -> Nat] /\ held' \subseteq ConflictKeys
  BY <1>1, <1>4, GraphTypes
<1>7. /\ Cardinality(S \cap Counting) \in Nat /\ successes \in Nat /\ GraphTarget \in Nat
      /\ Cardinality(running \cap Counting) = Cardinality(S \cap Counting) + (IF t \in Counting THEN 1 ELSE 0)
      /\ successes + Cardinality(running \cap Counting) <= GraphTarget
  BY <1>3, CountedMore, GraphTypes DEF GraphInvariant, TargetKept
<1>8. successes + Cardinality(running' \cap Counting) + (IF t \in Counting THEN 1 ELSE 0) <= GraphTarget
  BY <1>3, <1>7
<1>9. Cardinality(running' \cap Counting) \in Nat
  BY <1>3, <1>7
<1>10. left' \subseteq running' \cap ended' /\ running' \subseteq Nodes
  BY <1>1, <1>2
<1> QED BY <1>1, <1>2, <1>5, <1>6, <1>8, <1>9, <1>10

\* A call is tried again.
LEMMA RetryKeeps ==
  ASSUME GraphInvariant, NEW t \in Nodes, RetryTask(t)
  PROVE  GraphInvariant'
<1>1. /\ PopCall(t) /\ attempts[t] <= Retries[t] /\ pending' = pending \cup {t}
      /\ UNCHANGED <<coord, results, successes>>
  BY DEF RetryTask
<1>2. /\ coord.pc = "collect" /\ t \in running /\ t \notin pending
      /\ left' \subseteq running' \cap ended' /\ running' = running \ {t} /\ running' \subseteq Nodes
      /\ UNCHANGED <<ended, attempts, cancelled, late>>
      /\ inUse' \in [Resources -> Nat] /\ held' \subseteq ConflictKeys /\ UseFits'
  BY <1>1, PoppedFits
<1>3. GraphTypeOK'
  BY <1>1, <1>2, GraphTypes DEF GraphTypeOK
<1>4. TasksApart'
  <2>1. pending' \cap running' = {} /\ pending' \cup running' = pending \cup running
    BY <1>1, <1>2 DEF GraphInvariant, TasksApart
  <2>2. \A u \in Nodes : attempts'[u] = attempts[u] /\ (u \in pending' => u \in pending \/ u = t)
    BY <1>1, <1>2
  <2>3. \A u \in Nodes : attempts'[u] <= Retries[u] + 1 /\ (u \in pending' => attempts'[u] <= Retries[u])
    BY <1>1, <2>2 DEF GraphInvariant, TasksApart
  <2>4. \A u \in Nodes : Answered(u)' <=> Answered(u)
    BY <1>1 DEF Answered
  <2> QED BY <1>1, <2>1, <2>3, <2>4 DEF GraphInvariant, TasksApart
<1>5. StartedInOrder'
  BY <1>1, <1>2 DEF GraphInvariant, StartedInOrder, Unblocked, Answered, Succeeded
<1>6. LoopsFit' /\ ScanKnows' /\ RoundsMove'
  BY <1>1, <1>2 DEF LoopsFit, ScanKnows, RoundsMove
<1>7. TargetKept'
  <2>1. /\ Cardinality(running' \cap Counting) \in Nat /\ successes \in Nat /\ GraphTarget \in Nat
        /\ successes + Cardinality(running' \cap Counting) + (IF t \in Counting THEN 1 ELSE 0) <= GraphTarget
    BY <1>1, PoppedFits, GraphTypes
  <2>2. successes + Cardinality(running' \cap Counting) <= GraphTarget
    BY <2>1
  <2> QED BY <1>1, <2>2 DEF TargetKept
<1> QED BY <1>2, <1>3, <1>4, <1>5, <1>6, <1>7 DEF GraphInvariant

\* The result of a task is collected, and the reducer may raise.
LEMMA CollectKeeps ==
  ASSUME GraphInvariant, NEW t \in Nodes, CollectTask(t)
  PROVE  GraphInvariant'
<1>1. PICK v \in {"completed", "failed", "refused"} : Consume(t, v)
  BY DEF CollectTask
<1>2. PopCall(t) /\ pending' = pending
  BY DEF CollectTask
<1>3. /\ coord.pc = "collect" /\ t \in running /\ t \notin pending /\ ~Answered(t)
      /\ left' \subseteq running' \cap ended' /\ running' = running \ {t} /\ running' \subseteq Nodes
      /\ UNCHANGED <<ended, attempts, cancelled, late>>
      /\ inUse' \in [Resources -> Nat] /\ held' \subseteq ConflictKeys /\ UseFits'
  BY <1>2, PoppedFits
<1>4. /\ results' = [results EXCEPT ![t] = v] /\ v \in Statuses
      /\ successes' \in {successes, IF t \in Counting THEN successes + 1 ELSE successes}
  BY <1>1 DEF Consume, Statuses
<1>5. coord' \in [pc : CoordPcs, moved : BOOLEAN] /\ coord'.pc \in {"collect", "failed"}
  BY <1>1, <1>3, GraphTypes DEF Consume, CoordFails, CoordPcs
<1>6. /\ results' \in [Nodes -> Statuses \cup {None}] /\ StartedInOrder'
      /\ \A u \in Nodes : Answered(u)' <=> Answered(u) \/ u = t
  BY <1>3, <1>4, AnswersStay
<1>7. GraphTypeOK'
  <2>1. successes' \in Nat
    BY <1>4, GraphTypes
  <2> QED BY <1>2, <1>3, <1>5, <1>6, <2>1, GraphTypes DEF GraphTypeOK
<1>8. TasksApart'
  BY <1>2, <1>3, <1>6 DEF GraphInvariant, TasksApart
<1>9. LoopsFit' /\ ScanKnows' /\ RoundsMove'
  BY <1>3, <1>5 DEF LoopsFit, ScanKnows, RoundsMove
<1>10. TargetKept'
  <2>1. /\ Cardinality(running' \cap Counting) \in Nat /\ successes \in Nat /\ GraphTarget \in Nat
        /\ successes + Cardinality(running' \cap Counting) + (IF t \in Counting THEN 1 ELSE 0) <= GraphTarget
    BY <1>2, PoppedFits, GraphTypes
  <2>2. successes' + Cardinality(running' \cap Counting) <= GraphTarget
    BY <1>4, <2>1
  <2> QED BY <2>2 DEF TargetKept
<1> QED BY <1>3, <1>6, <1>7, <1>8, <1>9, <1>10 DEF GraphInvariant

\* A result that cannot be recorded ends the coordinator: it is the only one that is dropped.
LEMMA ForeignKeeps ==
  ASSUME GraphInvariant, NEW t \in Nodes, CollectForeign(t)
  PROVE  GraphInvariant'
<1>1. PopCall(t) /\ coord' = [coord EXCEPT !.pc = "failed"] /\ UNCHANGED <<pending, results, successes>>
  BY DEF CollectForeign, CoordFails
<1>2. /\ coord.pc = "collect" /\ t \in running /\ t \notin pending
      /\ left' \subseteq running' \cap ended' /\ running' = running \ {t} /\ running' \subseteq Nodes
      /\ UNCHANGED <<ended, attempts, cancelled, late>>
      /\ inUse' \in [Resources -> Nat] /\ held' \subseteq ConflictKeys /\ UseFits'
  BY <1>1, PoppedFits
<1>3. coord' \in [pc : CoordPcs, moved : BOOLEAN] /\ coord'.pc = "failed"
  BY <1>1, GraphTypes DEF CoordPcs
<1>4. GraphTypeOK'
  BY <1>1, <1>2, <1>3, GraphTypes DEF GraphTypeOK
<1>5. TasksApart'
  <2>1. \A u \in Nodes : (Answered(u)' <=> Answered(u)) /\ (u \notin pending \cup running => Answered(u))
    BY <1>1, <1>2 DEF GraphInvariant, TasksApart, Answered
  <2>2. \A u \in Nodes \ (pending' \cup running') : Answered(u) \/ u = t
    BY <1>1, <1>2, <2>1
  <2> QED BY <1>1, <1>2, <1>3, <2>1, <2>2 DEF GraphInvariant, TasksApart
<1>6. StartedInOrder'
  BY <1>1, <1>2 DEF GraphInvariant, StartedInOrder, Unblocked, Answered, Succeeded
<1>7. LoopsFit' /\ ScanKnows' /\ RoundsMove'
  BY <1>3 DEF LoopsFit, ScanKnows, RoundsMove
<1>8. TargetKept'
  <2>1. /\ Cardinality(running' \cap Counting) \in Nat /\ successes \in Nat /\ GraphTarget \in Nat
        /\ successes + Cardinality(running' \cap Counting) + (IF t \in Counting THEN 1 ELSE 0) <= GraphTarget
    BY <1>1, PoppedFits, GraphTypes
  <2>2. successes + Cardinality(running' \cap Counting) <= GraphTarget
    BY <2>1
  <2> QED BY <1>1, <2>2 DEF TargetKept
<1> QED BY <1>2, <1>4, <1>5, <1>6, <1>7, <1>8 DEF GraphInvariant

\* What holds before the first task starts.
LEMMA GraphStarts ==
  ASSUME GraphInit
  PROVE  GraphInvariant
<1>1. None \notin Statuses /\ GraphTarget \in Nat \ {0} /\ Retries \in [Nodes -> Nat]
      /\ CapacityOf \in [Resources -> Nat]
  BY GraphAssumption
<1>2. GraphTypeOK
  BY DEF GraphInit, GraphTypeOK, CoordPcs
<1>3. TasksApart
  BY <1>1 DEF GraphInit, TasksApart, Answered
<1>4. LoopsFit /\ StartedInOrder /\ ScanKnows
  BY DEF GraphInit, LoopsFit, StartedInOrder, ScanKnows
<1>5. UseFits
  <2>1. \A r \in Resources : Units(r, running) = {} /\ inUse[r] = 0 /\ CapacityOf[r] \in Nat
    BY <1>1 DEF GraphInit, Units
  <2> QED BY <2>1, FS_EmptySet DEF GraphInit, UseFits
<1>6. RoundsMove
  BY DEF GraphInit, RoundsMove
<1>7. TargetKept
  <2>1. running \cap Counting = {} /\ successes = 0
    BY DEF GraphInit
  <2> QED BY <1>1, <2>1, FS_EmptySet DEF TargetKept
<1> QED BY <1>2, <1>3, <1>4, <1>5, <1>6, <1>7 DEF GraphInvariant

\* Every behaviour of a task graph keeps the invariant.
LEMMA GraphsHold == GraphSpec => []GraphInvariant
<1>1. GraphInit => GraphInvariant
  BY GraphStarts
<1>2. GraphInvariant /\ [GraphNext]_graphVars => GraphInvariant'
  <2>1. ASSUME GraphInvariant, UNCHANGED graphVars PROVE GraphInvariant'
    BY <2>1, GraphTypes, CoordKeeps
       DEF graphVars, GraphInvariant, LoopsFit, ScanKnows, RoundsMove, GraphStopped, TargetReached,
           Unblocked, Answered, Fit, Succeeded
  <2> QED BY <2>1, OutsideKeeps, ReadyKeeps, StartsEndKeeps, WaitKeeps, ScanKeeps, StartKeeps, RetryKeeps,
             CollectKeeps, ForeignKeeps DEF GraphNext
<1> QED BY <1>1, <1>2, PTL DEF GraphSpec

\* Tasks start in order and fit the target, and their resources but for claims made twice; the
\* coordinator returns with an answer for each of them, gives up only when it was cancelled, and
\* drops at most the task whose result ended it, whatever the graph.
THEOREM GraphsAreScheduled == GraphSpec => []GraphIsScheduled
<1>1. GraphInvariant => GraphIsScheduled
  <2> SUFFICES ASSUME GraphInvariant PROVE GraphIsScheduled
    OBVIOUS
  <2>1. StartedInOrder /\ TargetKept
    BY DEF GraphInvariant
  <2>2. ClaimsFit
    BY DEF GraphInvariant, UseFits, ClaimsFit
  <2>3. GraphEnds
    BY DEF GraphInvariant, TasksApart, LoopsFit, RoundsMove, GraphEnds
  <2> QED BY <2>1, <2>2, <2>3 DEF GraphIsScheduled
<1> QED BY <1>1, GraphsHold, PTL

-----------------------------------------------------------------------------
(* The progress of a run *)

ThreadRow ==
  [pc : {"top", "copy", "acquire", "ticket", "attempt", "work", "early", "try", "slot",
         "submit", "consume", "finally", "release", "done", "died"},
   url : Urls \cup {NoUrl}, seen : SUBSET Urls, ticket : Tickets \cup {NoTicket},
   claimed : BOOLEAN, granted : BOOLEAN, outcome : {"none", "applied", "other"}]

\* What a thread knows of its job, its claim and its ticket.
ThreadFits(row) ==
  /\ row.pc \notin {"top", "copy", "acquire", "done"} => row.url \in Urls
  /\ row.claimed => row.pc \in {"slot", "submit", "finally", "release", "died"}
  /\ row.pc = "slot" => row.claimed
  /\ row.granted => row.claimed /\ row.url \in reserved
  /\ row.pc = "finally" /\ row.outcome = "applied" => row.granted
  /\ row.pc = "finally" => row.outcome # "none"
  /\ row.ticket # NoTicket => row.url = row.ticket.url

ThreadsFit == \A t \in Threads : ThreadFits(thread[t])

\* Whose claim or success is still to be recorded.
ClaimsBacked ==
  \A u \in claims \ (reserved \cup again) :
    \E t \in Threads : thread[t].url = u /\ thread[t].claimed /\ ~Stands(t, "release")

SuccessesCounted ==
  \A u \in applied \ again :
    \/ terminal[u] = "applied"
    \/ \E t \in Threads : thread[t].url = u /\ Stands(t, "finally") /\ thread[t].outcome = "applied"

PreviewsBounded ==
  /\ IsFiniteSet(consumed) /\ IsFiniteSet(tickets)
  /\ PreviewsTaken <= PreviewTarget

ProgressInvariant == ProgressTypeOK /\ ThreadsFit /\ ClaimsBacked /\ SuccessesCounted /\ PreviewsBounded

\* The types, in the form the provers need.
LEMMA ProgressTypes ==
  ASSUME ProgressInvariant
  PROVE  /\ dry \in BOOLEAN /\ exhausted \in BOOLEAN
         /\ attempted \subseteq Urls /\ consumed \subseteq Urls /\ claims \subseteq Urls
         /\ again \subseteq Urls /\ reserved \subseteq Urls /\ applied \subseteq Urls
         /\ tickets \subseteq Tickets /\ terminal \in [Urls -> {"none", "applied", "cancelled_before_action", "other"}]
         /\ job \in [Urls -> {"open", "closed"} \cup Threads] /\ thread \in [Threads -> ThreadRow]
         /\ NoUrl \notin Urls /\ PreviewTarget \in Nat
BY ProgressAssumption DEF ProgressInvariant, ProgressTypeOK, ThreadRow

\* A step of thread t to a row that fits keeps the invariant, if it loses no claim and no success.
LEMMA RowKeeps ==
  ASSUME ProgressInvariant, NEW t \in Threads, NEW row \in ThreadRow,
         thread' = [thread EXCEPT ![t] = row], ThreadFits(row)',
         UNCHANGED dry, exhausted' \in BOOLEAN, attempted' \subseteq Urls,
         tickets' \subseteq Tickets, consumed' \subseteq Urls, PreviewsBounded',
         claims' \subseteq Urls, again' \subseteq Urls, reserved' \subseteq Urls, applied' \subseteq Urls,
         terminal' \in [Urls -> {"none", "applied", "cancelled_before_action", "other"}],
         job' \in [Urls -> {"open", "closed"} \cup Threads],
         reserved \subseteq reserved', again \subseteq again',
         \A u \in claims' \ claims : row.url = u /\ row.claimed /\ row.pc # "release",
         \A u \in applied' \ applied : row.url = u /\ row.pc = "finally" /\ row.outcome = "applied",
         \A u \in Urls \ again' : terminal[u] = "applied" => terminal'[u] = "applied",
         \/ row.url = thread[t].url /\ row.claimed /\ row.pc # "release"
         \/ ~thread[t].claimed \/ thread[t].pc = "release"
         \/ thread[t].url \notin claims' \ (reserved' \cup again'),
         \/ thread[t].pc # "finally" \/ thread[t].outcome # "applied"
         \/ thread[t].url \in again' \/ terminal'[thread[t].url] = "applied"
  PROVE  ProgressInvariant'
<1>1. thread' \in [Threads -> ThreadRow] /\ thread'[t] = row /\ \A u \in Threads : u # t => thread'[u] = thread[u]
  BY ProgressTypes
<1>2. ProgressTypeOK'
  BY <1>1, ProgressTypes DEF ProgressTypeOK, ThreadRow
<1>3. ThreadsFit'
  <2>1. \A u \in Threads : u # t => ThreadFits(thread[u])'
    BY <1>1 DEF ProgressInvariant, ThreadsFit, ThreadFits
  <2>2. ThreadFits(thread[t])'
    BY <1>1 DEF ThreadFits
  <2> QED BY <2>1, <2>2 DEF ThreadsFit
<1>4. ClaimsBacked'
  <2> SUFFICES ASSUME NEW u \in claims' \ (reserved' \cup again')
               PROVE  \E w \in Threads : thread'[w].url = u /\ thread'[w].claimed /\ thread'[w].pc # "release"
    BY DEF ClaimsBacked, Stands
  <2>1. CASE u \notin claims
    BY <1>1, <2>1
  <2>2. CASE u \in claims
    <3>1. PICK w \in Threads : thread[w].url = u /\ thread[w].claimed /\ thread[w].pc # "release"
      BY <2>2 DEF ProgressInvariant, ClaimsBacked, Stands
    <3> QED BY <1>1, <3>1
  <2> QED BY <2>1, <2>2
<1>5. SuccessesCounted'
  <2> SUFFICES ASSUME NEW u \in applied' \ again', terminal'[u] # "applied"
               PROVE  \E w \in Threads : /\ thread'[w].url = u /\ thread'[w].pc = "finally"
                                         /\ thread'[w].outcome = "applied"
    BY DEF SuccessesCounted, Stands
  <2>1. CASE u \notin applied
    BY <1>1, <2>1
  <2>2. CASE u \in applied
    <3>1. PICK w \in Threads : thread[w].url = u /\ thread[w].pc = "finally" /\ thread[w].outcome = "applied"
      BY <2>2, ProgressTypes DEF ProgressInvariant, SuccessesCounted, Stands
    <3> QED BY <1>1, <3>1
  <2> QED BY <2>1, <2>2
<1> QED BY <1>2, <1>3, <1>4, <1>5 DEF ProgressInvariant

\* Tickets that are released make room.
LEMMA FewerTickets ==
  ASSUME ProgressInvariant, tickets' \subseteq tickets, UNCHANGED consumed
  PROVE  PreviewsBounded'
<1>1. IsFiniteSet(tickets) /\ IsFiniteSet(consumed) /\ PreviewsTaken <= PreviewTarget
  BY DEF ProgressInvariant, PreviewsBounded
<1>2. IsFiniteSet(tickets') /\ Cardinality(tickets') <= Cardinality(tickets)
  BY <1>1, FS_Subset
<1>3. /\ Cardinality(tickets) \in Nat /\ Cardinality(tickets') \in Nat /\ Cardinality(consumed) \in Nat
      /\ PreviewTarget \in Nat
  BY <1>1, <1>2, FS_CardinalityType, ProgressTypes
<1>4. PreviewsTaken' <= PreviewTarget
  BY <1>1, <1>2, <1>3 DEF PreviewsTaken
<1> QED BY <1>1, <1>2, <1>4 DEF PreviewsBounded

\* A job that is given back is open or closed, or somebody else's.
LEMMA BackFits ==
  ASSUME ProgressInvariant, NEW t \in Threads, NEW as \in {"open", "closed"}
  PROVE  GivenBack(t, as) \in [Urls -> {"open", "closed"} \cup Threads]
BY ProgressTypes DEF GivenBack

\* A step to another place of the loop, before any claim, keeps the invariant.
LEMMA PlaceKeeps ==
  ASSUME ProgressInvariant, NEW t \in Threads,
         NEW pc \in {"top", "copy", "acquire", "ticket", "attempt", "work", "early", "try", "consume", "done", "died"},
         Advances(t, pc), ~thread[t].claimed \/ pc = "died", thread[t].pc # "finally",
         pc \in {"top", "copy", "acquire", "done"} \/ thread[t].url \in Urls,
         exhausted' \in BOOLEAN, attempted' \subseteq Urls, tickets' \subseteq tickets,
         job' \in [Urls -> {"open", "closed"} \cup Threads],
         UNCHANGED <<dry, consumed, claims, terminal, again, durable>>
  PROVE  ProgressInvariant'
<1>0. thread[t] \in ThreadRow
  BY ProgressTypes
<1>1. PICK row \in ThreadRow : row = [thread[t] EXCEPT !.pc = pc]
  BY <1>0 DEF ThreadRow
<1>2. thread' = [thread EXCEPT ![t] = row]
  BY <1>1, ProgressTypes DEF Advances
<1>3. ThreadFits(thread[t]) /\ thread[t] \in ThreadRow
  BY ProgressTypes DEF ProgressInvariant, ThreadsFit
<1>4. /\ row.pc = pc /\ row.url = thread[t].url /\ row.claimed = thread[t].claimed
      /\ row.granted = thread[t].granted /\ row.ticket = thread[t].ticket /\ row.outcome = thread[t].outcome
  BY <1>1, <1>3 DEF ThreadRow
<1>5. ThreadFits(row)'
  BY <1>3, <1>4 DEF ThreadFits, durable
<1>6. PreviewsBounded'
  BY FewerTickets
<1> QED BY <1>2, <1>4, <1>5, <1>6, RowKeeps, ProgressTypes DEF durable

\* What a thread knows, at each place.
LEMMA ThreadKnows ==
  ASSUME ProgressInvariant, NEW t \in Threads
  PROVE  /\ ThreadFits(thread[t]) /\ thread[t] \in ThreadRow
         /\ thread[t].pc \notin {"slot", "submit", "finally", "release", "died"} => ~thread[t].claimed /\ ~thread[t].granted
         /\ thread[t].pc \notin {"top", "copy", "acquire", "done"} => thread[t].url \in Urls
BY ProgressTypes DEF ProgressInvariant, ThreadsFit, ThreadFits, ThreadRow

\* The steps that only go on, give the job back or release the ticket.
LEMMA PlainStepsKeep ==
  ASSUME ProgressInvariant, NEW t \in Threads,
         \/ ShouldAcquire(t) \/ NothingToAcquire(t) \/ TicketRefused(t) \/ MarkAttempted(t)
         \/ InitializationFails(t) \/ ExitEarly(t) \/ ThreadDies(t) \/ EnterTry(t) \/ Previewed(t)
         \/ LoseOutcome(t)
  PROVE  ProgressInvariant'
<1> USE ProgressTypes, ThreadKnows, BackFits DEF shared, durable, Stands
<1>1. CASE ShouldAcquire(t)
  BY <1>1, PlaceKeeps DEF ShouldAcquire
<1>2. CASE NothingToAcquire(t)
  BY <1>2, PlaceKeeps DEF NothingToAcquire
<1>3. CASE TicketRefused(t)
  BY <1>3, PlaceKeeps DEF TicketRefused
<1>4. CASE MarkAttempted(t)
  BY <1>4, PlaceKeeps DEF MarkAttempted
<1>5. CASE InitializationFails(t)
  BY <1>5, PlaceKeeps DEF InitializationFails
<1>6. CASE ExitEarly(t)
  BY ZenonT(60), <1>6, PlaceKeeps DEF ExitEarly
<1>7. CASE ThreadDies(t)
  BY <1>7, PlaceKeeps DEF ThreadDies
<1>8. CASE EnterTry(t)
  BY <1>8, PlaceKeeps DEF EnterTry
<1>9. CASE Previewed(t)
  BY <1>9, PlaceKeeps DEF Previewed
<1>10. CASE LoseOutcome(t)
  BY <1>10, PlaceKeeps DEF LoseOutcome
<1> QED BY <1>1, <1>2, <1>3, <1>4, <1>5, <1>6, <1>7, <1>8, <1>9, <1>10

\* A thread looks for a job and takes one.
LEMMA AcquireKeeps ==
  ASSUME ProgressInvariant, NEW t \in Threads, CopyAttempted(t) \/ AcquireJob(t)
  PROVE  ProgressInvariant'
<1> USE ProgressTypes, ThreadKnows DEF shared, durable, Stands
<1>1. PreviewsBounded'
  BY FewerTickets DEF CopyAttempted, AcquireJob
<1>2. CASE CopyAttempted(t)
  <2>1. PICK row \in ThreadRow : row = [thread[t] EXCEPT !.pc = "acquire", !.seen = attempted]
    BY ZenonT(60) DEF ThreadRow
  <2>2. /\ row.pc = "acquire" /\ row.url = thread[t].url /\ row.claimed = FALSE /\ row.granted = FALSE
        /\ row.ticket = thread[t].ticket
    BY <1>2, <2>1 DEF CopyAttempted, ThreadRow
  <2>3. ThreadFits(row)' /\ thread' = [thread EXCEPT ![t] = row]
    BY <1>2, <2>1, <2>2 DEF CopyAttempted, ThreadFits
  <2> QED BY <1>1, <1>2, <2>2, <2>3, RowKeeps DEF CopyAttempted
<1>3. CASE AcquireJob(t)
  <2>1. PICK u \in Urls : /\ job' = [job EXCEPT ![u] = t]
                          /\ thread' = [thread EXCEPT ![t] =
                               [Starts EXCEPT !.pc = IF dry THEN "ticket" ELSE "attempt", !.url = u]]
    BY <1>3 DEF AcquireJob
  <2>2. PICK row \in ThreadRow : row = [Starts EXCEPT !.pc = IF dry THEN "ticket" ELSE "attempt", !.url = u]
    BY ZenonT(60) DEF ThreadRow, Starts
  <2>3. /\ row.pc \in {"ticket", "attempt"} /\ row.url = u /\ row.claimed = FALSE /\ row.granted = FALSE
        /\ row.ticket = NoTicket
    BY <2>2 DEF Starts
  <2>4. ThreadFits(row)' /\ thread' = [thread EXCEPT ![t] = row]
    BY <2>1, <2>2, <2>3 DEF ThreadFits
  <2> QED BY <1>1, <1>3, <2>1, <2>3, <2>4, RowKeeps DEF AcquireJob
<1> QED BY <1>2, <1>3

\* A ticket is drawn while there is room, or shared.
LEMMA TicketKeeps ==
  ASSUME ProgressInvariant, NEW t \in Threads, ClaimPreviewTicket(t)
  PROVE  ProgressInvariant'
<1>0. /\ ThreadFits(thread[t]) /\ thread[t] \in ThreadRow /\ thread[t].url \in Urls
      /\ ~thread[t].claimed /\ ~thread[t].granted
  BY ThreadKnows DEF ClaimPreviewTicket, Stands
<1>1. PICK k \in Tickets :
        /\ k.url = thread[t].url /\ (k \in tickets \/ PreviewsTaken < PreviewTarget)
        /\ tickets' = tickets \cup {k}
        /\ thread' = [thread EXCEPT ![t].pc = "attempt", ![t].ticket = k]
  BY <1>0, ProgressTypes DEF ClaimPreviewTicket, Tickets, TicketsFor
<1>2. /\ IsFiniteSet(tickets) /\ IsFiniteSet(consumed) /\ PreviewsTaken <= PreviewTarget
      /\ Cardinality(tickets) \in Nat /\ Cardinality(consumed) \in Nat
  BY FS_CardinalityType DEF ProgressInvariant, PreviewsBounded
<1>3. /\ IsFiniteSet(tickets')
      /\ Cardinality(tickets') = IF k \in tickets THEN Cardinality(tickets) ELSE Cardinality(tickets) + 1
  BY <1>1, <1>2, FS_AddElement
<1>4. PreviewsBounded'
  <2>1. UNCHANGED consumed
    BY DEF ClaimPreviewTicket
  <2>2. Cardinality(consumed) + Cardinality(tickets') <= PreviewTarget
    BY <1>1, <1>2, <1>3, ProgressTypes DEF PreviewsTaken
  <2> QED BY <1>2, <1>3, <2>1, <2>2 DEF PreviewsBounded, PreviewsTaken
<1>5. PICK row \in ThreadRow : row = [thread[t] EXCEPT !.pc = "attempt", !.ticket = k]
  BY <1>0 DEF ThreadRow
<1>6. /\ row.pc = "attempt" /\ row.url = thread[t].url /\ row.claimed = FALSE /\ row.granted = FALSE
      /\ row.ticket = k /\ row.url \in Urls
  BY <1>0, <1>5 DEF ThreadRow
<1>7. ThreadFits(row)' /\ thread' = [thread EXCEPT ![t] = row]
  BY <1>1, <1>5, <1>6, ProgressTypes DEF ThreadFits, ThreadRow
<1>8. UNCHANGED <<dry, exhausted, attempted, consumed, claims, terminal, again, reserved, applied, job>>
  BY DEF ClaimPreviewTicket, durable
<1>9. ~thread[t].claimed /\ thread[t].pc # "finally" /\ tickets' \subseteq Tickets
  BY <1>0, <1>1, ProgressTypes DEF ClaimPreviewTicket, Stands
<1>10. ProgressInvariant'
  BY <1>4, <1>7, <1>8, <1>9, RowKeeps, ProgressTypes
<1> QED BY <1>10

\* A preview is counted in place of its ticket.
LEMMA ConsumeKeeps ==
  ASSUME ProgressInvariant, NEW t \in Threads, ConsumePreview(t)
  PROVE  ProgressInvariant'
<1>0. /\ ThreadFits(thread[t]) /\ thread[t] \in ThreadRow /\ thread[t].url \in Urls
      /\ ~thread[t].claimed /\ ~thread[t].granted
  BY ThreadKnows DEF ConsumePreview, Stands
<1>1. /\ IsFiniteSet(tickets) /\ IsFiniteSet(consumed) /\ PreviewsTaken <= PreviewTarget
      /\ Cardinality(tickets) \in Nat /\ Cardinality(consumed) \in Nat
  BY FS_CardinalityType DEF ProgressInvariant, PreviewsBounded
<1>2. PreviewsBounded'
  <2>1. CASE thread[t].ticket \in tickets
    <3>1. consumed' = consumed \cup {thread[t].url} /\ tickets' = tickets \ {thread[t].ticket}
      BY <2>1 DEF ConsumePreview
    <3>2. /\ IsFiniteSet(consumed') /\ Cardinality(consumed') \in Nat
          /\ Cardinality(consumed') <= Cardinality(consumed) + 1
      <4>1. /\ IsFiniteSet(consumed')
            /\ \/ Cardinality(consumed') = Cardinality(consumed)
               \/ Cardinality(consumed') = Cardinality(consumed) + 1
        BY <1>1, <3>1, FS_AddElement
      <4> QED BY <1>1, <4>1
    <3>3. IsFiniteSet(tickets') /\ Cardinality(tickets') = Cardinality(tickets) - 1
      BY <1>1, <2>1, <3>1, FS_RemoveElement
    <3>4. Cardinality(consumed') + Cardinality(tickets') <= PreviewTarget
      BY <1>1, <3>2, <3>3, ProgressTypes DEF PreviewsTaken
    <3> QED BY <3>2, <3>3, <3>4 DEF PreviewsBounded, PreviewsTaken
  <2>2. CASE thread[t].ticket \notin tickets
    BY <2>2, FewerTickets DEF ConsumePreview
  <2> QED BY <2>1, <2>2
<1>3. PICK row \in ThreadRow : row = [thread[t] EXCEPT !.pc = "finally", !.outcome = "other", !.ticket = NoTicket]
  BY <1>0 DEF ThreadRow
<1>4. /\ row.pc = "finally" /\ row.url = thread[t].url /\ row.claimed = FALSE /\ row.granted = FALSE
      /\ row.ticket = NoTicket /\ row.url \in Urls /\ row.outcome = "other"
  BY <1>0, <1>3 DEF ThreadRow
<1>5. ThreadFits(row)' /\ thread' = [thread EXCEPT ![t] = row]
  BY <1>3, <1>4, ProgressTypes DEF ThreadFits, ConsumePreview, ThreadRow
<1>6. UNCHANGED <<dry, exhausted, attempted, claims, terminal, again, reserved, applied, job>>
  BY DEF ConsumePreview, durable
<1>7. /\ ~thread[t].claimed /\ thread[t].pc # "finally"
      /\ consumed' \subseteq Urls /\ tickets' \subseteq Tickets
  BY <1>0, ProgressTypes DEF ConsumePreview, Stands
<1>8. ProgressInvariant'
  BY <1>2, <1>5, <1>6, <1>7, RowKeeps, ProgressTypes
<1> QED BY <1>8

\* A claim and its reservation.
LEMMA SlotKeeps ==
  ASSUME ProgressInvariant, NEW t \in Threads, BeforeSubmit(t) \/ ReserveSlot(t)
  PROVE  ProgressInvariant'
<1>0. ThreadFits(thread[t]) /\ thread[t] \in ThreadRow /\ thread[t].url \in Urls /\ thread[t].pc # "finally"
  BY ThreadKnows DEF BeforeSubmit, ReserveSlot, Stands
<1>1. PreviewsBounded'
  BY FewerTickets DEF BeforeSubmit, ReserveSlot, shared
<1>2. CASE BeforeSubmit(t)
  <2>1. PICK row \in ThreadRow : row = [thread[t] EXCEPT !.pc = "slot", !.claimed = TRUE]
    BY <1>0 DEF ThreadRow
  <2>2. /\ row.pc = "slot" /\ row.url = thread[t].url /\ row.claimed = TRUE
        /\ row.granted = thread[t].granted /\ row.ticket = thread[t].ticket
    BY <1>0, <2>1 DEF ThreadRow
  <2>3. ThreadFits(row)'
    BY <1>0, <1>2, <2>2 DEF BeforeSubmit, ThreadFits, durable
  <2>4. thread' = [thread EXCEPT ![t] = row]
    BY <1>2, <2>1, ProgressTypes DEF BeforeSubmit, ThreadRow
  <2>5. claims' = claims \cup {row.url}
    BY <1>2, <2>2 DEF BeforeSubmit
  <2>6. UNCHANGED <<dry, exhausted, attempted, tickets, consumed, terminal, again, reserved, applied, job>>
    BY <1>2 DEF BeforeSubmit, durable
  <2> QED BY <1>0, <1>1, <2>2, <2>3, <2>4, <2>5, <2>6, RowKeeps, ProgressTypes
<1>3. CASE ReserveSlot(t)
  <2>1. PICK seen \in BOOLEAN : thread' = [thread EXCEPT ![t].pc = "submit", ![t].granted = seen]
    BY <1>3 DEF ReserveSlot
  <2>2. PICK row \in ThreadRow : row = [thread[t] EXCEPT !.pc = "submit", !.granted = seen]
    BY <1>0 DEF ThreadRow
  <2>3. /\ row.pc = "submit" /\ row.url = thread[t].url /\ row.claimed = TRUE /\ row.ticket = thread[t].ticket
    BY <1>0, <1>3, <2>2 DEF ReserveSlot, ThreadRow, ThreadFits, Stands
  <2>4. thread' = [thread EXCEPT ![t] = row]
    BY <2>1, <2>2, ProgressTypes DEF ThreadRow
  <2>5. /\ UNCHANGED <<dry, exhausted, attempted, tickets, consumed, claims, terminal, again, applied, job>>
        /\ reserved' = reserved \cup {thread[t].url}
    BY <1>3 DEF ReserveSlot, shared
  <2>6. ThreadFits(row)'
    BY <1>0, <2>3, <2>5 DEF ThreadFits
  <2> QED BY <1>0, <1>1, <2>3, <2>4, <2>5, <2>6, RowKeeps, ProgressTypes
<1> QED BY <1>2, <1>3

\* An attempt ends; only a thread that was granted its reservation applies.
LEMMA AttemptKeeps ==
  ASSUME ProgressInvariant, NEW t \in Threads, EndAttempt(t)
  PROVE  ProgressInvariant'
<1>0. ThreadFits(thread[t]) /\ thread[t] \in ThreadRow /\ thread[t].url \in Urls /\ thread[t].pc # "finally"
  BY ThreadKnows DEF EndAttempt
<1>1. PICK outcome \in {"applied", "other"}, as \in {"open", "closed"} :
        /\ outcome = "applied" => thread[t].granted
        /\ applied' = IF outcome = "applied" THEN applied \cup {thread[t].url} ELSE applied
        /\ thread' = [thread EXCEPT ![t].pc = "finally", ![t].outcome = outcome]
        /\ job' = GivenBack(t, as)
  BY DEF EndAttempt
<1>2. PreviewsBounded'
  BY FewerTickets DEF EndAttempt, shared
<1>3. PICK row \in ThreadRow : row = [thread[t] EXCEPT !.pc = "finally", !.outcome = outcome]
  BY <1>0 DEF ThreadRow
<1>4. /\ row.pc = "finally" /\ row.url = thread[t].url /\ row.claimed = thread[t].claimed
      /\ row.granted = thread[t].granted /\ row.ticket = thread[t].ticket /\ row.outcome = outcome
  BY <1>0, <1>3 DEF ThreadRow
<1>5. thread' = [thread EXCEPT ![t] = row]
  BY <1>1, <1>3, ProgressTypes DEF ThreadRow
<1>6. job' \in [Urls -> {"open", "closed"} \cup Threads]
  BY <1>1, BackFits
<1>7. UNCHANGED <<dry, exhausted, attempted, tickets, consumed, claims, terminal, again, reserved>>
  BY DEF EndAttempt, shared
<1>8. ThreadFits(row)'
  BY <1>0, <1>1, <1>4, <1>7 DEF ThreadFits
<1>9. \A u \in applied' \ applied : row.url = u /\ row.pc = "finally" /\ row.outcome = "applied"
  BY <1>1, <1>4
<1>10. applied' \subseteq Urls
  BY <1>0, <1>1, ProgressTypes
<1>11. (row.url = thread[t].url /\ row.claimed /\ row.pc # "release") \/ ~thread[t].claimed
  BY <1>4
<1> QED BY <1>0, <1>2, <1>5, <1>6, <1>7, <1>8, <1>9, <1>10, <1>11, RowKeeps, ProgressTypes

\* What is recorded loses neither a claim nor a success.
LEMMA RecordFits ==
  ASSUME ProgressInvariant, NEW u \in Urls, NEW o \in {"applied", "cancelled_before_action", "other"}, Record(u, o)
  PROVE  /\ claims' \subseteq claims /\ again' \subseteq Urls /\ again \subseteq again'
         /\ terminal' \in [Urls -> {"none", "applied", "cancelled_before_action", "other"}]
         /\ \A w \in Urls : terminal[w] = "applied" => terminal'[w] = "applied"
         /\ u \in again' \/ terminal'[u] = o
         /\ u \in again' \/ o # "cancelled_before_action" \/ u \notin claims'
BY ProgressTypes DEF Record

\* A thread records the outcome and releases its ticket.
LEMMA RecordKeeps ==
  ASSUME ProgressInvariant, NEW t \in Threads, RecordEarly(t) \/ RecordTerminal(t) \/ ReleaseTicket(t)
  PROVE  ProgressInvariant'
<1> USE ProgressTypes, ThreadKnows DEF Stands, durable
<1>1. PreviewsBounded'
  BY FewerTickets DEF RecordEarly, RecordTerminal, ReleaseTicket
<1>2. ASSUME NEW pc \in {"top", "done"}
      PROVE  /\ [Starts EXCEPT !.pc = pc] \in ThreadRow
             /\ [Starts EXCEPT !.pc = pc].claimed = FALSE /\ [Starts EXCEPT !.pc = pc].granted = FALSE
             /\ [Starts EXCEPT !.pc = pc].pc = pc /\ [Starts EXCEPT !.pc = pc].ticket = NoTicket
  BY <1>2 DEF Starts, ThreadRow
<1>3. CASE RecordEarly(t)
  <2>1. PICK row \in ThreadRow : row = Starts
    BY DEF Starts, ThreadRow
  <2>2. row.claimed = FALSE /\ row.granted = FALSE /\ row.pc = "top" /\ row.ticket = NoTicket
    BY <2>1 DEF Starts
  <2>3. ThreadFits(row)' /\ thread' = [thread EXCEPT ![t] = row]
    BY <1>3, <2>1, <2>2 DEF RecordEarly, ThreadFits
  <2>4. /\ claims' \subseteq claims /\ again' \subseteq Urls /\ again \subseteq again'
        /\ terminal' \in [Urls -> {"none", "applied", "cancelled_before_action", "other"}]
        /\ \A w \in Urls : terminal[w] = "applied" => terminal'[w] = "applied"
    BY <1>3, RecordFits DEF RecordEarly
  <2> QED BY <1>1, <1>3, <2>2, <2>3, <2>4, RowKeeps DEF RecordEarly
<1>4. CASE RecordTerminal(t)
  <2>1. PICK o \in {"applied", "cancelled_before_action", "other"} :
          /\ o = IF thread[t].claimed /\ ~thread[t].granted THEN "cancelled_before_action" ELSE thread[t].outcome
          /\ Record(thread[t].url, o)
    BY <1>4 DEF RecordTerminal, ThreadFits, ThreadRow
  <2>2. PICK row \in ThreadRow : row = [thread[t] EXCEPT !.pc = "release"]
    BY ZenonT(60) DEF ThreadRow
  <2>3. /\ row.pc = "release" /\ row.url = thread[t].url /\ row.claimed = thread[t].claimed
        /\ row.granted = thread[t].granted /\ row.ticket = thread[t].ticket /\ row.url \in Urls
    BY <1>4, <2>2 DEF RecordTerminal, ThreadRow
  <2>4. ThreadFits(row)' /\ thread' = [thread EXCEPT ![t] = row]
    BY <1>4, <2>2, <2>3 DEF RecordTerminal, ThreadFits, Advances
  <2>5. /\ claims' \subseteq claims /\ again' \subseteq Urls /\ again \subseteq again'
        /\ terminal' \in [Urls -> {"none", "applied", "cancelled_before_action", "other"}]
        /\ \A w \in Urls : terminal[w] = "applied" => terminal'[w] = "applied"
        /\ thread[t].url \in again' \/ terminal'[thread[t].url] = o
        /\ thread[t].url \in again' \/ o # "cancelled_before_action" \/ thread[t].url \notin claims'
    BY <2>1, <2>3, RecordFits
  <2>6. UNCHANGED <<dry, exhausted, attempted, tickets, consumed, durable, job>>
    BY <1>4 DEF RecordTerminal
  <2>7. \/ ~thread[t].claimed
        \/ thread[t].url \notin claims' \ (reserved' \cup again')
    BY <2>1, <2>5, <2>6 DEF ThreadFits
  <2>8. thread[t].outcome # "applied" \/ thread[t].url \in again' \/ terminal'[thread[t].url] = "applied"
    BY <1>4, <2>1, <2>5 DEF ThreadFits, RecordTerminal
  <2> QED BY <1>1, <2>3, <2>4, <2>5, <2>6, <2>7, <2>8, RowKeeps
<1>5. CASE ReleaseTicket(t)
  <2>1. PICK pc \in {"top", "done"} : thread' = [thread EXCEPT ![t] = [Starts EXCEPT !.pc = pc]]
    BY <1>5 DEF ReleaseTicket
  <2>2. PICK row \in ThreadRow : row = [Starts EXCEPT !.pc = pc]
    BY <1>2
  <2>3. row.claimed = FALSE /\ row.granted = FALSE /\ row.pc \in {"top", "done"} /\ row.ticket = NoTicket
    BY <1>2, <2>2
  <2>4. ThreadFits(row)' /\ thread' = [thread EXCEPT ![t] = row]
    BY <2>1, <2>2, <2>3 DEF ThreadFits
  <2> QED BY <1>1, <1>5, <2>3, <2>4, RowKeeps DEF ReleaseTicket
<1> QED BY <1>3, <1>4, <1>5

\* What counts and what is out cover the URLs that a dry run works on.
LEMMA PreviewsCover ==
  ASSUME ProgressInvariant, NEW S \in SUBSET Threads,
         \A t \in S : thread[t].ticket \in tickets
  PROVE  Cardinality(consumed \cup {thread[t].url : t \in S}) <= PreviewTarget
<1>1. /\ IsFiniteSet(tickets) /\ IsFiniteSet(consumed) /\ PreviewsTaken <= PreviewTarget
      /\ Cardinality(tickets) \in Nat /\ Cardinality(consumed) \in Nat /\ PreviewTarget \in Nat
  BY FS_CardinalityType, ProgressTypes DEF ProgressInvariant, PreviewsBounded
<1> DEFINE out == {k.url : k \in tickets}
           f == [k \in tickets |-> k.url]
           near == {thread[t].url : t \in S}
<1>2. f \in Surjection(tickets, out)
  <2>1. f \in [tickets -> out] /\ \A u \in out : \E k \in tickets : f[k] = u
    OBVIOUS
  <2> QED BY <2>1, Fun_IsSurj
<1>3. IsFiniteSet(out) /\ Cardinality(out) <= Cardinality(tickets) /\ Cardinality(out) \in Nat
  BY <1>1, <1>2, FS_Surjection, FS_CardinalityType
<1>4. near \subseteq out
  <2>1. ASSUME NEW t \in S PROVE thread[t].url \in out
    <3>1. thread[t].ticket \in tickets /\ ThreadFits(thread[t]) /\ NoTicket \notin tickets
      BY ThreadKnows, ProgressTypes DEF Tickets, NoTicket
    <3>2. thread[t].url = thread[t].ticket.url
      BY <3>1 DEF ThreadFits
    <3> QED BY <3>1, <3>2
  <2> QED BY <2>1
<1> HIDE DEF out, near
<1>5. IsFiniteSet(near) /\ Cardinality(near) <= Cardinality(out) /\ Cardinality(near) \in Nat
  BY <1>3, <1>4, FS_Subset, FS_CardinalityType
<1>6. /\ IsFiniteSet(consumed \cap near) /\ Cardinality(consumed \cap near) \in Nat
      /\ Cardinality(consumed \cup near) = Cardinality(consumed) + Cardinality(near) - Cardinality(consumed \cap near)
  <2>1. consumed \cap near \subseteq consumed
    OBVIOUS
  <2> QED BY <1>1, <1>5, <2>1, FS_Union, FS_Subset, FS_CardinalityType
<1>7. Cardinality(consumed \cup near) <= PreviewTarget
  BY <1>1, <1>3, <1>5, <1>6 DEF PreviewsTaken
<1> QED BY <1>7 DEF near

\* Every behaviour of a run keeps the invariant.
LEMMA RunsHold == ProgressSpec => []ProgressInvariant
<1>1. ProgressInit => ProgressInvariant
  <2> SUFFICES ASSUME ProgressInit PROVE ProgressInvariant
    OBVIOUS
  <2>1. ProgressTypeOK
    BY DEF ProgressInit, ProgressTypeOK, Starts
  <2>2. ThreadsFit
    BY DEF ProgressInit, ThreadsFit, ThreadFits, Starts
  <2>3. ClaimsBacked /\ SuccessesCounted
    BY DEF ProgressInit, ClaimsBacked, SuccessesCounted
  <2>4. PreviewsBounded
    BY FS_EmptySet, ProgressAssumption DEF ProgressInit, PreviewsBounded, PreviewsTaken
  <2> QED BY <2>1, <2>2, <2>3, <2>4 DEF ProgressInvariant
<1>2. ProgressInvariant /\ [ProgressNext]_progressVars => ProgressInvariant'
  <2> SUFFICES ASSUME ProgressInvariant, [ProgressNext]_progressVars PROVE ProgressInvariant'
    OBVIOUS
  <2>1. CASE UNCHANGED progressVars
    BY <2>1 DEF progressVars, ProgressInvariant, ProgressTypeOK, ThreadsFit, ThreadFits, ClaimsBacked,
                SuccessesCounted, PreviewsBounded, PreviewsTaken, Stands
  <2>2. ASSUME NEW u \in Urls, LeaseRunsOutOn(u) PROVE ProgressInvariant'
    <3>1. job' \in [Urls -> {"open", "closed"} \cup Threads] /\ UNCHANGED <<dry, shared, durable, thread>>
      BY <2>2, ProgressTypes DEF LeaseRunsOutOn
    <3> QED BY <3>1 DEF shared, durable, ProgressInvariant, ProgressTypeOK, ThreadsFit, ThreadFits, ClaimsBacked,
                        SuccessesCounted, PreviewsBounded, PreviewsTaken, Stands
  <2> QED BY <2>1, <2>2, PlainStepsKeep, AcquireKeeps, TicketKeeps, ConsumeKeeps, SlotKeeps, AttemptKeeps, RecordKeeps
          DEF ProgressNext, ThreadStep
<1> QED BY <1>1, <1>2, PTL DEF ProgressSpec

\* A run loses neither capacity nor a success, and a dry run does not overshoot, for any number of
\* threads and URLs.
THEOREM RunsAccount == ProgressSpec => []RunAccounts
<1>1. ProgressInvariant => RunAccounts
  <2> SUFFICES ASSUME ProgressInvariant PROVE RunAccounts
    OBVIOUS
  <2> DEFINE working == {t \in Threads : thread[t].ticket # NoTicket /\ ~Stands(t, "died")}
  <2>1. (\A t \in working : thread[t].ticket \in tickets)
          => Cardinality(consumed \cup {thread[t].url : t \in working}) <= PreviewTarget
    <3>1. PICK S \in SUBSET Threads : S = working
      OBVIOUS
    <3> QED BY <3>1, PreviewsCover
  <2> QED BY <2>1 DEF RunAccounts, ProgressInvariant, ClaimsBacked, SuccessesCounted
<1> QED BY <1>1, RunsHold, PTL

=============================================================================
