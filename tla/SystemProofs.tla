----------------------------- MODULE SystemProofs ----------------------------
(***************************************************************************)
(* The journals together: a behaviour of the composition is a behaviour of *)
(* each of its parts, so that what is proved of a part alone holds where   *)
(* the parts run side by side.                                             *)
(***************************************************************************)
EXTENDS JournalSystem, WriteProofs, JournalProofs, ScheduleProofs

\* A step of the composition is a step of one part, and leaves the others and the clock alone.
LEMMA OnePartMoves ==
  ASSUME [JournalsNext]_systemVars
  PROVE  /\ [WriteNext]_<<now, writeVars>> /\ [BatchNext]_<<now, batchVars>>
         /\ [JournalNext]_<<now, journalVars>> /\ [ProgressNext]_progressVars
         /\ [OperatorNext]_<<now, operatorVars>> /\ [RecoveryNext]_<<now, recoveryVars>>
         /\ [StageNext]_stageVars /\ [GraphNext]_graphVars /\ [SuperNext]_superVars
<1>1. CASE UNCHANGED systemVars
  BY <1>1 DEF systemVars
<1>2. ASSUME UNCHANGED <<AttemptVars, ScheduleVars>>,
             \/ WriteNext /\ UNCHANGED <<batchVars, journalVars>>
             \/ BatchNext /\ UNCHANGED <<writeVars, journalVars>>
             \/ JournalNext /\ UNCHANGED <<writeVars, batchVars>>
      PROVE  /\ UNCHANGED <<now, progressVars, operatorVars, recoveryVars, stageVars, graphVars, superVars>>
             /\ WriteNext \/ UNCHANGED writeVars
             /\ BatchNext \/ UNCHANGED batchVars
             /\ JournalNext \/ UNCHANGED journalVars
  BY <1>2 DEF AttemptVars, ScheduleVars, WriteNext, BatchNext, JournalNext
<1>3. ASSUME UNCHANGED <<PageVars, ScheduleVars>>,
             \/ ProgressNext /\ UNCHANGED <<now, operatorVars, recoveryVars>>
             \/ OperatorNext /\ UNCHANGED <<progressVars, recoveryVars>>
             \/ RecoveryNext /\ UNCHANGED <<progressVars, operatorVars>>
      PROVE  /\ UNCHANGED <<now, writeVars, batchVars, journalVars, stageVars, graphVars, superVars>>
             /\ ProgressNext \/ UNCHANGED progressVars
             /\ OperatorNext \/ UNCHANGED operatorVars
             /\ RecoveryNext \/ UNCHANGED recoveryVars
  BY <1>3 DEF PageVars, ScheduleVars, OperatorNext, RecoveryNext
<1>4. ASSUME UNCHANGED <<now, PageVars, AttemptVars>>,
             \/ StageNext /\ UNCHANGED <<graphVars, superVars>>
             \/ GraphNext /\ UNCHANGED <<stageVars, superVars>>
             \/ SuperNext /\ UNCHANGED <<stageVars, graphVars>>
      PROVE  /\ UNCHANGED <<now, writeVars, batchVars, journalVars, progressVars, operatorVars, recoveryVars>>
             /\ StageNext \/ UNCHANGED stageVars
             /\ GraphNext \/ UNCHANGED graphVars
             /\ SuperNext \/ UNCHANGED superVars
  BY <1>4 DEF PageVars, AttemptVars
<1> QED BY <1>1, <1>2, <1>3, <1>4 DEF JournalsNext

\* Every part starts as it does alone.
LEMMA PartsStart ==
  JournalsInit => /\ now = 0 /\ WriteInit /\ BatchInit /\ JournalInit /\ ProgressInit /\ OperatorInit
                  /\ RecoveryInit /\ StageInit /\ GraphInit /\ SuperInit
BY DEF JournalsInit

\* The composition implements each part, for any constants: the theorems about the parts hold
\* of the journals as the runs check them.
THEOREM PartsCompose ==
  JournalsSpec => /\ WriteSpec /\ BatchSpec /\ JournalSpec /\ ProgressSpec /\ OperatorSpec
                  /\ RecoverySpec /\ StageSpec /\ GraphSpec /\ SuperSpec
<1>1. JournalsSpec => WriteSpec
  BY PartsStart, OnePartMoves, PTL DEF JournalsSpec, WriteSpec
<1>2. JournalsSpec => BatchSpec
  BY PartsStart, OnePartMoves, PTL DEF JournalsSpec, BatchSpec
<1>3. JournalsSpec => JournalSpec
  BY PartsStart, OnePartMoves, PTL DEF JournalsSpec, JournalSpec
<1>4. JournalsSpec => ProgressSpec
  BY PartsStart, OnePartMoves, PTL DEF JournalsSpec, ProgressSpec
<1>5. JournalsSpec => OperatorSpec
  BY PartsStart, OnePartMoves, PTL DEF JournalsSpec, OperatorSpec
<1>6. JournalsSpec => RecoverySpec
  BY PartsStart, OnePartMoves, PTL DEF JournalsSpec, RecoverySpec
<1>7. JournalsSpec => StageSpec
  BY PartsStart, OnePartMoves, PTL DEF JournalsSpec, StageSpec
<1>8. JournalsSpec => GraphSpec
  BY PartsStart, OnePartMoves, PTL DEF JournalsSpec, GraphSpec
<1>9. JournalsSpec => SuperSpec
  BY PartsStart, OnePartMoves, PTL DEF JournalsSpec, SuperSpec
<1> QED BY <1>1, <1>2, <1>3, <1>4, <1>5, <1>6, <1>7, <1>8, <1>9

\* Rows, processes and schedulers keep the shapes their modules declare.
THEOREM JournalsTyped == JournalsSpec => []JournalsTypeOK
<1>1. /\ WriteInvariant /\ BatchInvariant /\ TaskInvariant
      /\ ProgressInvariant /\ VerdictInvariant /\ EffectInvariant
      /\ StageInvariant /\ GraphInvariant /\ SupervisorInvariant
      => JournalsTypeOK
  BY DEF WriteInvariant, BatchInvariant, TaskInvariant, ProgressInvariant, VerdictInvariant, EffectInvariant,
         StageInvariant, GraphInvariant, SupervisorInvariant, JournalsTypeOK
<1> QED BY <1>1, PartsCompose, WritesHold, BatchesHold, TasksTyped, RunsHold, VerdictsHold, EffectsHold,
           StagesHold, GraphsHold, TurnsHold, PTL

\* What the parts promise holds of the composition: an upload and a recovery happen once, a
\* batch is told as it was, one verdict closes an exception, tasks and stages end in order, and
\* neither a cancellation nor an uncertain Submit is overruled.
THEOREM JournalsHold ==
  JournalsSpec => /\ [](UploadsAgree /\ BatchIsExact /\ CancelHolds /\ EffectsOnce /\ ClaimsBounded)
                  /\ [](RunAccounts /\ VerdictsAgree /\ EffectsExact)
                  /\ [](StagesDrain /\ GraphIsScheduled /\ SupervisedTurn)
                  /\ LegacyBeforeUpload
BY PartsCompose, UploadsAreOnce, BatchesAreExact, CancellationsHold, EffectsClaimedOnce, TaskClaimsBounded,
   RunsAccount, OneVerdict, EffectsAreExact, StagesAreDrained, GraphsAreScheduled, TurnsAreSupervised,
   LegacyComesFirst, PTL

=============================================================================
