---------------------------- MODULE JournalSystem ----------------------------
(***************************************************************************)
(* What the runtime keeps of its own work: the journals of the uploads and *)
(* batches of controls that it writes to a page itself, of the tasks that  *)
(* it runs in the background, of the commands that recover an attempt or   *)
(* close its exception, the progress of a run, the schedulers of the       *)
(* pipeline's stages and of specialist tasks, and the end of one turn.  As *)
(* in RuntimeSystem they write no common row, and an instance explores     *)
(* them one at a time.                                                     *)
(***************************************************************************)
EXTENDS SemanticWrites, PatchBatches, TaskJournal, RunProgress, OperatorCommands, RecoveryCommands,
        StagePipeline, TaskGraph, TurnSupervisor

VARIABLE focus

systemVars ==
  <<now, writeVars, batchVars, journalVars, progressVars, operatorVars, recoveryVars, stageVars, graphVars,
    superVars, focus>>

JournalsInit ==
  /\ now = 0
  /\ focus \in {"writes", "batches", "tasks", "progress", "operator", "recovery", "stages", "graph", "turn"}
  /\ WriteInit /\ BatchInit /\ JournalInit /\ ProgressInit /\ OperatorInit /\ RecoveryInit
  /\ StageInit /\ GraphInit /\ SuperInit
  /\ realSubmit => focus = "turn"
  /\ dry => focus = "progress"
  /\ lane = "receipt_reconciliation" => focus = "operator"
  /\ effectKind # "nothing" => focus = "recovery"
  /\ focus # "stages" => ordered = {"tailor", "pdf"} /\ unfound = PipelineJobs

\* Of the pages and tasks, of the attempts, and of the schedulers and turns.
PageVars == <<writeVars, batchVars, journalVars>>
AttemptVars == <<progressVars, operatorVars, recoveryVars>>
ScheduleVars == <<stageVars, graphVars, superVars>>

JournalsNext ==
  /\ \/ /\ UNCHANGED <<AttemptVars, ScheduleVars>>
        /\ \/ focus = "writes" /\ WriteNext /\ UNCHANGED <<batchVars, journalVars>>
           \/ focus = "batches" /\ BatchNext /\ UNCHANGED <<writeVars, journalVars>>
           \/ focus = "tasks" /\ JournalNext /\ UNCHANGED <<writeVars, batchVars>>
     \/ /\ UNCHANGED <<PageVars, ScheduleVars>>
        /\ \/ focus = "progress" /\ ProgressNext /\ UNCHANGED <<now, operatorVars, recoveryVars>>
           \/ focus = "operator" /\ OperatorNext /\ UNCHANGED <<progressVars, recoveryVars>>
           \/ focus = "recovery" /\ RecoveryNext /\ UNCHANGED <<progressVars, operatorVars>>
     \/ /\ UNCHANGED <<now, PageVars, AttemptVars>>
        /\ \/ focus = "stages" /\ StageNext /\ UNCHANGED <<graphVars, superVars>>
           \/ focus = "graph" /\ GraphNext /\ UNCHANGED <<stageVars, superVars>>
           \/ focus = "turn" /\ SuperNext /\ UNCHANGED <<stageVars, graphVars>>
  /\ UNCHANGED focus

JournalsSpec == JournalsInit /\ [][JournalsNext]_systemVars

\* The rows and whoever works on them have the shapes their modules declare.
JournalsTypeOK ==
  /\ WriteTypeOK /\ BatchTypeOK /\ JournalTypeOK
  /\ ProgressTypeOK /\ OperatorTypeOK /\ RecoveryTypeOK
  /\ StageTypeOK /\ GraphTypeOK /\ SuperTypeOK

=============================================================================
