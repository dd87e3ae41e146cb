--------------------------- MODULE StagePipeline ----------------------------
(***************************************************************************)
(* The streaming mode of the pipeline: every selected stage is a thread    *)
(* that counts its pending rows, runs its batch over them and ends when    *)
(* nothing is pending and its upstream has ended.  The database is the     *)
(* conveyor belt, and it moves between any two of these steps: a batch     *)
(* writes by URL what it made of rows that others may have changed since.  *)
(***************************************************************************)
EXTENDS RuntimeBase

CONSTANTS
  PipelineJobs,     \* rows of the jobs table
  Selections,       \* the sets of stages a run may be asked for
  FailureBudget     \* _STREAM_FAILURE_BUDGET

Downstream == {"enrich", "score", "tailor", "cover", "pdf"}
StageNames == {"discover"} \cup Downstream

Upstream ==
  [enrich |-> "discover", score |-> "enrich", tailor |-> "score", cover |-> "tailor", pdf |-> "cover"]

Position ==
  [discover |-> 0, enrich |-> 1, score |-> 2, tailor |-> 3, cover |-> 4, pdf |-> 5]

\* Whose writes make a row pending by _PENDING_SQL.  Discovery stores rows with or without their
\* description; the score batch gives the score that tailor asks for; cover and pdf both read
\* what tailor wrote, and a company's name that discovery fills in is all that cover may lack.
Feeders ==
  [enrich |-> {"discover"}, score |-> {"discover", "enrich"}, tailor |-> {"score"},
   cover |-> {"discover", "tailor"}, pdf |-> {"tailor"}]

\* Whose batch first brings the verdicts on eligibility up to date.
Judges == {"score", "tailor", "cover"}

ASSUME StageAssumption ==
  /\ \A chosen \in Selections : chosen \subseteq StageNames
  /\ FailureBudget \in Nat \ {0}

VARIABLES
  ordered,          \* the selected stages
  coverOff,         \* full_pipeline, and the profile does not opt into cover letters
  unfound,          \* rows that discovery has not inserted yet
  todo,             \* per selected stage, the rows its pending query asks for, eligible or not
  ineligible,       \* rows with the verdict that no stage counts
  taken,            \* per stage, the rows that its batch under way has read
  stage,            \* per stage, where its thread stands, and its consecutive failures
  result,           \* per stage, what the tracker has; anything but unknown is a set event
  stopEvent,        \* the interrupted main thread asked the stages to stop
  reported,         \* the main thread built the results and left
  gap               \* per stage, the rows that became pending between its last count and its
                    \* look, or were found eligible after its last count

Rows == <<unfound, todo, ineligible, taken, gap>>
Run == <<ordered, coverOff, stopEvent, reported>>
stageVars == <<Run, Rows, stage, result>>

StagePcs ==
  {"top", "counting", "reading", "running", "looking", "finishing", "skipping", "done", "dead"}

StageTypeOK ==
  /\ ordered \subseteq StageNames /\ coverOff \in BOOLEAN
  /\ unfound \subseteq PipelineJobs /\ ineligible \subseteq PipelineJobs
  /\ todo \in [Downstream -> SUBSET PipelineJobs] /\ taken \in [Downstream -> SUBSET PipelineJobs]
  /\ stage \in [StageNames -> [pc : StagePcs, failures : 0..FailureBudget]]
  /\ result \in [StageNames -> {"unknown", "skipped", "ok", "error"}]
  /\ stopEvent \in BOOLEAN /\ reported \in BOOLEAN
  /\ gap \in [Downstream -> SUBSET PipelineJobs]

StageAt(s, pc) == ~reported /\ stage[s].pc = pc
StageMoves(s, pc) == stage' = [stage EXCEPT ![s].pc = pc]
StageEnded(s) == result[s] # "unknown"

FirstPc(s, chosen, off) ==
  IF s \notin chosen THEN "done"
  ELSE IF s = "discover" THEN "running"
  ELSE IF s = "cover" /\ off THEN "skipping" ELSE "top"

\* Every row is still to be found, or pending somewhere.
StageInit ==
  /\ ordered \in Selections
  /\ coverOff \in BOOLEAN /\ (coverOff => "cover" \in ordered)
  /\ \E at \in [PipelineJobs -> {"unfound", "enrich", "score", "tailor", "pdf"}] :
       /\ unfound = {j \in PipelineJobs : at[j] = "unfound"}
       /\ todo = [s \in Downstream |-> {j \in PipelineJobs : at[j] = s /\ s \in ordered}]
  /\ ineligible \in SUBSET (PipelineJobs \ unfound)
  /\ taken = [s \in Downstream |-> {}]
  /\ stage = [s \in StageNames |-> [pc |-> FirstPc(s, ordered, coverOff), failures |-> 0]]
  /\ result = [s \in StageNames |-> IF s \in ordered THEN "unknown" ELSE "skipped"]
  /\ stopEvent = FALSE /\ reported = FALSE
  /\ gap = [s \in Downstream |-> {}]

\* The rows that _count_pending finds.
RowsDue(s) == todo[s] \ ineligible

\* The selected stages whose query asks for a row.
Pending(j) == {s \in Downstream : j \in todo[s]}

\* A write leaves the row pending for these stages.  Whoever stands between its count and its
\* look has not seen it come.
Pend(j, at) ==
  /\ todo' = [s \in Downstream |-> IF s \in at \cap ordered THEN todo[s] \cup {j} ELSE todo[s] \ {j}]
  /\ gap' = [s \in Downstream |->
               IF s \in at \cap ordered /\ stage[s].pc = "looking" THEN gap[s] \cup {j} ELSE gap[s]]

\* What the batches of these stages read of the row is not written any more.
Forget(j, S) == taken' = [s \in Downstream |-> IF s \in S THEN taken[s] \ {j} ELSE taken[s]]

\* Where a row may be pending after its score inputs changed: the trigger has taken its score,
\* its resume and its letter, unless the row was applied to or may have been.
AfterTrigger(j) ==
  {Pending(j)} \cup {(Pending(j) \cap {"enrich"}) \cup at : at \in SUBSET {"score"}}

-----------------------------------------------------------------------------
(* Discovery: one crawl, whose threads store rows until it returns or raises *)

\* A new row comes with its description or without, with a verdict on its text.
FindRow(j) ==
  /\ StageAt("discover", "running")
  /\ j \in unfound
  /\ unfound' = unfound \ {j}
  /\ \E at \in {{}, {"enrich"}, {"score"}} : Pend(j, at)
  /\ \E out \in SUBSET {j} : ineligible' = (ineligible \ {j}) \cup out
  /\ UNCHANGED <<Run, taken, stage, result>>

\* A row that the crawl meets again takes what it lacks and the better text; its details may now
\* count as scraped.  If the trigger was held back, the text may be all that a score waits for,
\* and the company's name all that a letter does.
RefreshRow(j) ==
  /\ StageAt("discover", "running")
  /\ j \notin unfound
  /\ \E scraped \in SUBSET {"enrich"} :
       \/ Pend(j, Pending(j) \ scraped) /\ UNCHANGED taken
       \/ /\ \E at \in AfterTrigger(j) \cup {Pending(j) \cup more : more \in SUBSET {"score", "cover"}} :
               Pend(j, at \ scraped)
          /\ Forget(j, {"score"})
  /\ UNCHANGED <<Run, unfound, ineligible, stage, result>>

DiscoveryEnds ==
  /\ StageAt("discover", "running")
  /\ \E r \in {"ok", "error"} : result' = [result EXCEPT !["discover"] = r]
  /\ StageMoves("discover", "done")
  /\ UNCHANGED <<Run, Rows>>

-----------------------------------------------------------------------------
(* A downstream stage *)

\* The loop condition; the bounded wait for the first work of upstream decides nothing.
EnterPass(s) ==
  /\ StageAt(s, "top")
  /\ StageMoves(s, IF stopEvent THEN "finishing" ELSE "counting")
  /\ UNCHANGED <<Run, Rows, result>>

CountPending(s) ==
  /\ StageAt(s, "counting")
  /\ StageMoves(s, IF RowsDue(s) # {} THEN "reading" ELSE "looking")
  /\ gap' = [gap EXCEPT ![s] = {}]
  /\ UNCHANGED <<Run, unfound, todo, ineligible, taken, result>>

\* The count is not caught: the thread is gone, and nobody sets the event of its stage.
CountFails(s) ==
  /\ StageAt(s, "counting")
  /\ StageMoves(s, "dead")
  /\ UNCHANGED <<Run, Rows, result>>

\* Before it reads its batch, enrichment makes relative addresses absolute.  A row under a new
\* URL is out of the reach of every batch, and one whose new URL was taken is deleted.
ResolveUrl(j) ==
  /\ StageAt("enrich", "reading")
  /\ j \notin unfound
  /\ \/ /\ \E at \in AfterTrigger(j) : Pend(j, at)
        /\ \E lost \in {Downstream, {"score"}} : Forget(j, lost)
        /\ UNCHANGED <<unfound, ineligible>>
     \/ /\ Pend(j, {}) /\ Forget(j, Downstream)
        /\ unfound' = unfound \cup {j} /\ ineligible' = ineligible \ {j}
  /\ UNCHANGED <<Run, stage, result>>

\* The rows whose verdict is out of date, for their text or the profile has changed, are judged
\* again, and stages that have counted already do not see who is eligible now.  Enrichment does
\* not ask for the verdict.
TakeBatch(s) ==
  /\ StageAt(s, "reading")
  /\ StageMoves(s, "running")
  /\ ineligible' \in IF s \in Judges THEN SUBSET (PipelineJobs \ unfound) ELSE {ineligible}
  /\ gap' = [t \in Downstream |->
               IF stage[t].pc \in {"looking", "finishing", "done"}
               THEN gap[t] \cup ((todo[t] \cap ineligible) \ ineligible') ELSE gap[t]]
  /\ taken' = [taken EXCEPT ![s] = IF s = "enrich" THEN todo[s] ELSE todo[s] \ ineligible']
  /\ UNCHANGED <<Run, unfound, todo, result>>

\* Where a row may be pending once the batch of a stage has written it, or given it up.  The
\* score batch writes only what has not changed since it read it, the others by URL alone.  The
\* PDF batch writes files and leaves every row as it was.
AfterBatch(s, j) ==
  CASE s = "enrich" -> {at \ {"enrich"} : at \in AfterTrigger(j)}
                       \cup {(Pending(j) \ {"enrich", "score"}) \cup more : more \in SUBSET {"score"}}
    [] s = "score" -> {(Pending(j) \ {"score"}) \cup more : more \in SUBSET {"tailor"}}
    [] s = "tailor" -> {Pending(j) \ {"cover", "pdf"}}
                       \cup {(Pending(j) \ {"tailor", "cover", "pdf"}) \cup more : more \in SUBSET {"cover", "pdf"}}
    [] s = "cover" -> {Pending(j) \ {"cover"}}
    [] OTHER -> {}

SettleRow(s, j) ==
  /\ StageAt(s, "running")
  /\ j \in taken[s]
  /\ \E at \in AfterBatch(s, j) : Pend(j, at)
  /\ Forget(j, IF s = "enrich" THEN {"enrich", "score"} ELSE {s})
  /\ UNCHANGED <<Run, unfound, ineligible, stage, result>>

\* The runner returns ok, whatever it left pending, and the thread counts again at once.
PassSucceeds(s) ==
  /\ s \in Downstream
  /\ StageAt(s, "running")
  /\ stage' = [stage EXCEPT ![s] = [pc |-> "top", failures |-> 0]]
  /\ taken' = [taken EXCEPT ![s] = {}]
  /\ UNCHANGED <<Run, unfound, todo, ineligible, gap, result>>

\* The runner reports an error or raises; below the budget the thread backs off.
PassFails(s) ==
  /\ s \in Downstream
  /\ StageAt(s, "reading") \/ StageAt(s, "running")
  /\ LET n == stage[s].failures + 1
     IN  stage' = [stage EXCEPT ![s] = [pc |-> IF n >= FailureBudget THEN "finishing" ELSE "top",
                                        failures |-> n]]
  /\ taken' = [taken EXCEPT ![s] = {}]
  /\ UNCHANGED <<Run, unfound, todo, ineligible, gap, result>>

\* Mutant of LookUpstream: a stage without work ends whether or not upstream has.
LookUpstreamHasty(s) ==
  /\ StageAt(s, "looking")
  /\ StageMoves(s, "finishing")
  /\ UNCHANGED <<Run, Rows, result>>

\* Nothing was pending: the stage ends if upstream has by now, and polls again if not.
LookUpstream(s) ==
  /\ StageAt(s, "looking")
  /\ StageMoves(s, IF StageEnded(Upstream[s]) THEN "finishing" ELSE "top")
  /\ UNCHANGED <<Run, Rows, result>>

\* An interrupted stage is marked ok as well.
MarkStage(s) ==
  /\ StageAt(s, "finishing")
  /\ result' = [result EXCEPT ![s] = IF stage[s].failures >= FailureBudget THEN "error" ELSE "ok"]
  /\ StageMoves(s, "done")
  /\ UNCHANGED <<Run, Rows>>

\* Cover letters nobody asked for: the thread waits for upstream, deaf to the stop event.
SkipCover ==
  /\ StageAt("cover", "skipping")
  /\ StageEnded(Upstream["cover"])
  /\ result' = [result EXCEPT !["cover"] = "skipped"]
  /\ StageMoves("cover", "done")
  /\ UNCHANGED <<Run, Rows>>

-----------------------------------------------------------------------------
(* The main thread *)

Interrupt ==
  /\ ~reported /\ ~stopEvent
  /\ stopEvent' = TRUE
  /\ UNCHANGED <<ordered, coverOff, Rows, stage, result, reported>>

\* All threads were joined, or each got ten seconds after the interrupt.  A stage whose thread
\* died is reported as unknown.
ReportRun ==
  /\ ~reported
  /\ stopEvent \/ \A s \in ordered : stage[s].pc \in {"done", "dead"}
  /\ reported' = TRUE
  /\ UNCHANGED <<ordered, coverOff, Rows, stage, result, stopEvent>>

StageNext ==
  \/ \E j \in PipelineJobs : FindRow(j) \/ RefreshRow(j) \/ ResolveUrl(j) \/ \E s \in Downstream : SettleRow(s, j)
  \/ DiscoveryEnds
  \/ \E s \in Downstream : EnterPass(s) \/ CountPending(s) \/ CountFails(s) \/ TakeBatch(s)
  \/ \E s \in Downstream : PassSucceeds(s) \/ PassFails(s) \/ LookUpstream(s) \/ MarkStage(s)
  \/ SkipCover \/ Interrupt \/ ReportRun

StageSpec == StageInit /\ [][StageNext]_stageVars

-----------------------------------------------------------------------------
(* Whatever makes rows of the stage pending is one of the stages it waits for: every stage      *)
(* between the two was selected and has not spent its failure budget, so that each of them      *)
(* waited for the one before.  The waits follow one chain from stage to stage, the rows do not: *)
(* without enrich, score does not wait for the discovery that stores rows for it.               *)
FedThroughUpstream(s) ==
  \A f \in Feeders[s] \cap ordered : \A t \in Downstream :
    Position[f] < Position[t] /\ Position[t] < Position[s] => t \in ordered /\ result[t] # "error"

(* A stage that ends well in a run that nobody interrupts leaves at most the rows that became    *)
(* pending between its last count and its look at upstream (_run_stage_streaming), or that a     *)
(* later batch found eligible after all.  A stage is held to it only if the chain of waits       *)
(* from it to whatever makes rows pending for it was whole.                                      *)
StagesDrain ==
  ~stopEvent => \A s \in ordered \cap Downstream :
    result[s] = "ok" /\ FedThroughUpstream(s) => RowsDue(s) \subseteq gap[s]

=============================================================================
