---------------------------- MODULE ExclusionProofs ----------------------------
(***************************************************************************)
(* Three ways in which processes of the runtime are kept apart.  Profile   *)
(* locks: whoever passes the check of the sidecar is alone with the        *)
(* profile until the sidecar is gone, so two browsers never run on it.     *)
(* Runtime cells: the lease of a session stays its own until the session   *)
(* gives it up, so no other process is given its host or its cell.         *)
(* Browser leases: a profile and a page belong to one process until it     *)
(* gives them up or the lease runs out.                                    *)
(***************************************************************************)
EXTENDS RuntimeCells, BrowserLeases, ProfileLocks, TLAPS

USE ProfileAssumption DEF Launching, Attached, Owning, HandleOpen

SlotRow ==
  [pc : HandleOpen \cup {"idle", "opening", "unlinking", "popping", "stuck", "dead"},
   after : {"idle", "popping", "stuck", "dead"}]

SidecarRow ==
  [state : {"none", "acquired", "spawn_attempted", "running", "recovery_required"},
   by : Processes \cup {None}]

Holds(p) == slot[p].pc \in Launching \cup Attached

HandlesKept == \A p \in Processes : slot[p].pc \in HandleOpen => p \in handles

MutexKept == \A p \in Processes : Holds(p) => mutex = p

\* A conflict unlinks nothing.
StuckKeepsFile == \A p \in Processes : At(p, "unlinking") => slot[p].after # "stuck"

\* The browser of p may be running.
Spawned(p) == slot[p].pc \in {"spawned"} \cup Attached

\* Past the check of the sidecar, whose removal by p itself is still to come.
Past(p) ==
  \/ slot[p].pc \in {"clear", "ready"} \/ Spawned(p)
  \/ slot[p].pc \in {"releasing", "closing", "unlinking"} /\ slot[p].after \in {"idle", "popping"}

OnePast == \A p, q \in Processes : Past(p) /\ Past(q) => p = q

PastHasSidecar ==
  \A p \in Processes : Past(p) /\ ~At(p, "clear") =>
    ~Absent /\ (sidecar.state = "acquired" => sidecar.by = p)

PastIsAlone == \A p \in Processes : Past(p) => \A q \in alive : q = p /\ Spawned(p)

BrowserHasSidecar == alive # {} => ~Absent

LocksKept == HandlesKept /\ MutexKept /\ StuckKeepsFile

Guarded ==
  /\ OnePast /\ PastHasSidecar /\ PastIsAlone
  /\ BrowserHasSidecar
  /\ \A p, q \in alive : p = q

ProfileInvariant ==
  /\ ProfileTypeOK
  /\ LocksKept
  /\ ~slipped => Guarded

\* The record types of the slots and of the sidecar, in the form the provers need for EXCEPT.
LEMMA ProfileTypes ==
  ASSUME ProfileTypeOK PROVE slot \in [Processes -> SlotRow] /\ sidecar \in SidecarRow
  BY DEF ProfileTypeOK, SlotRow, SidecarRow

\* Before the first launch nothing is owned and nobody runs, so every part holds.
LEMMA ProfileStart == ProfileInit => ProfileInvariant
<1> SUFFICES ASSUME ProfileInit PROVE ProfileInvariant
  OBVIOUS
<1>1. ProfileTypeOK
  BY DEF ProfileInit, ProfileTypeOK, NoSidecar
<1>2. LocksKept
  BY DEF ProfileInit, LocksKept, HandlesKept, MutexKept, StuckKeepsFile, Holds, At
<1>3. Guarded
  BY DEF ProfileInit, Guarded, OnePast, PastHasSidecar, PastIsAlone, BrowserHasSidecar, Past, Spawned
<1> QED BY <1>1, <1>2, <1>3 DEF ProfileInvariant

-----------------------------------------------------------------------------
(* What a step of a process preserves *)

\* No step of a launch, a cleanup or a crash leaves the types of the slot and the sidecar.
LEMMA ProfileTypesKept ==
  ASSUME ProfileTypeOK, NEW p \in Processes, SlotStep(p)
  PROVE  ProfileTypeOK'
<1>0. ProfileTypeOK /\ slot \in [Processes -> SlotRow] /\ sidecar \in SidecarRow
  BY ProfileTypes
<1> USE DEF ProfileTypeOK, SlotRow, SidecarRow
<1>1. CASE BeginLaunch(p)
  BY <1>0, <1>1 DEF BeginLaunch, Goes
<1>2. CASE OpenMutex(p)
  BY <1>0, <1>2 DEF OpenMutex, Goes
<1>3. CASE Conflict(p)
  BY <1>0, <1>3 DEF Conflict, Goes, Closes
<1>4. CASE TakeMutex(p)
  BY <1>0, <1>4 DEF TakeMutex, Goes
<1>5. CASE MarkAbandoned(p)
  BY <1>0, <1>5 DEF MarkAbandoned, Releases, Writes
<1>6. CASE CheckSidecar(p)
  BY <1>0, <1>6 DEF CheckSidecar, Goes, Releases
<1>7. CASE WriteAcquired(p)
  BY <1>0, <1>7 DEF WriteAcquired, Goes, Releases, Writes
<1>8. CASE AbortLaunch(p)
  BY <1>0, <1>8 DEF AbortLaunch, Releases
<1>9. CASE SpawnBrowser(p)
  BY <1>0, <1>9 DEF SpawnBrowser, Goes
<1>10. CASE RecordSpawn(p)
  BY <1>0, <1>10 DEF RecordSpawn, Goes, Writes
<1>11. CASE RecordBrowser(p)
  BY <1>0, <1>11 DEF RecordBrowser, Goes, Writes
<1>12. CASE MarkRecoveryRequired(p)
  BY <1>0, <1>12 DEF MarkRecoveryRequired, Goes, Writes
<1>13. CASE BrowserStops(p)
  BY <1>0, <1>13 DEF BrowserStops
<1>14. CASE Cleanup(p)
  BY <1>0, <1>14 DEF Cleanup, Releases
<1>15. CASE ReleaseMutex(p)
  BY <1>0, <1>15 DEF ReleaseMutex, Goes
<1>16. CASE CloseMutex(p)
  BY <1>0, <1>16 DEF CloseMutex, Goes, Closes
<1>17. CASE UnlinkSidecar(p)
  <2>1. slot[p].after \in {"idle", "popping", "stuck", "dead"}
    BY <1>0
  <2>2. \E pc \in {"idle", "popping", "stuck", "dead"} : slot' = [slot EXCEPT ![p].pc = pc]
    BY <1>17, <2>1 DEF UnlinkSidecar, Goes
  <2>3. slot' \in [Processes -> SlotRow]
    BY <1>0, <2>2
  <2>4. sidecar' \in SidecarRow /\ UNCHANGED <<mutex, handles, alive>>
    BY <1>0, <1>17 DEF UnlinkSidecar, NoSidecar
  <2>5. slipped' \in BOOLEAN
    BY <1>0, <1>17, Zenon DEF UnlinkSidecar
  <2> QED BY <1>0, <2>3, <2>4, <2>5
<1>18. CASE StopTracking(p)
  BY <1>0, <1>18 DEF StopTracking, Goes
<1>19. CASE Interrupt(p)
  BY <1>0, <1>19 DEF Interrupt, Releases
<1>20. CASE ProfileCrash(p)
  BY <1>0, <1>20 DEF ProfileCrash, Goes, Closes
<1>21. CASE ProfileRestart(p)
  BY <1>0, <1>21 DEF ProfileRestart
<1> QED BY <1>1, <1>2, <1>3, <1>4, <1>5, <1>6, <1>7, <1>8, <1>9, <1>10, <1>11, <1>12,
         <1>13, <1>14, <1>15, <1>16, <1>17, <1>18, <1>19, <1>20, <1>21 DEF SlotStep

\* The mutex changes hands only through its owner or through the death of its owner, and
\* a handle closes only with its process or in _release_mutex.
LEMMA LocksAreKept ==
  ASSUME ProfileTypeOK, LocksKept, NEW p \in Processes, SlotStep(p)
  PROVE  LocksKept'
<1>0. slot \in [Processes -> SlotRow]
  BY ProfileTypes
<1> USE DEF LocksKept, HandlesKept, MutexKept, StuckKeepsFile, Holds, At, SlotRow
<1>1. CASE BeginLaunch(p)
  BY <1>0, <1>1 DEF BeginLaunch, Goes
<1>2. CASE OpenMutex(p)
  BY <1>0, <1>2 DEF OpenMutex, Goes
<1>3. CASE Conflict(p)
  BY <1>0, <1>3 DEF Conflict, Goes, Closes
<1>4. CASE TakeMutex(p)
  BY <1>0, <1>4 DEF TakeMutex, Goes
<1>5. CASE MarkAbandoned(p)
  BY <1>0, <1>5 DEF MarkAbandoned, Releases, Writes
<1>6. CASE CheckSidecar(p)
  BY <1>0, <1>6 DEF CheckSidecar, Goes, Releases
<1>7. CASE WriteAcquired(p)
  BY <1>0, <1>7 DEF WriteAcquired, Goes, Releases, Writes
<1>8. CASE AbortLaunch(p)
  BY <1>0, <1>8 DEF AbortLaunch, Releases
<1>9. CASE SpawnBrowser(p)
  BY <1>0, <1>9 DEF SpawnBrowser, Goes
<1>10. CASE RecordSpawn(p)
  BY <1>0, <1>10 DEF RecordSpawn, Goes, Writes
<1>11. CASE RecordBrowser(p)
  BY <1>0, <1>11 DEF RecordBrowser, Goes, Writes
<1>12. CASE MarkRecoveryRequired(p)
  BY <1>0, <1>12 DEF MarkRecoveryRequired, Goes, Writes
<1>13. CASE BrowserStops(p)
  BY <1>0, <1>13 DEF BrowserStops
<1>14. CASE Cleanup(p)
  BY <1>0, <1>14 DEF Cleanup, Releases
<1>15. CASE ReleaseMutex(p)
  BY <1>0, <1>15 DEF ReleaseMutex, Goes
<1>16. CASE CloseMutex(p)
  BY <1>0, <1>16 DEF CloseMutex, Goes, Closes
<1>17. CASE UnlinkSidecar(p)
  BY <1>0, <1>17 DEF UnlinkSidecar, Goes, NoSidecar
<1>18. CASE StopTracking(p)
  BY <1>0, <1>18 DEF StopTracking, Goes
<1>19. CASE Interrupt(p)
  BY <1>0, <1>19 DEF Interrupt, Releases
<1>20. CASE ProfileCrash(p)
  BY <1>0, <1>20 DEF ProfileCrash, Goes, Closes
<1>21. CASE ProfileRestart(p)
  BY <1>0, <1>21 DEF ProfileRestart
<1> QED BY <1>1, <1>2, <1>3, <1>4, <1>5, <1>6, <1>7, <1>8, <1>9, <1>10, <1>11, <1>12,
         <1>13, <1>14, <1>15, <1>16, <1>17, <1>18, <1>19, <1>20, <1>21 DEF SlotStep

\* As long as no interrupt has removed a needed sidecar, whoever gets past the sidecar check
\* does so while no other process is past it and no browser runs.
LEMMA GuardedKept ==
  ASSUME ProfileTypeOK, LocksKept, Guarded, NEW p \in Processes, SlotStep(p), ~slipped, ~slipped'
  PROVE  Guarded'
<1>0. slot \in [Processes -> SlotRow] /\ sidecar \in SidecarRow
  BY ProfileTypes
<1> USE DEF LocksKept, HandlesKept, MutexKept, StuckKeepsFile, Holds, At, SlotRow, SidecarRow,
            Guarded, OnePast, PastHasSidecar, PastIsAlone, BrowserHasSidecar, Past, Spawned, Absent
<1>1. CASE BeginLaunch(p)
  BY <1>0, <1>1 DEF BeginLaunch, Goes
<1>2. CASE OpenMutex(p)
  BY <1>0, <1>2 DEF OpenMutex, Goes
<1>3. CASE Conflict(p)
  BY <1>0, <1>3 DEF Conflict, Goes, Closes
<1>4. CASE TakeMutex(p)
  BY <1>0, <1>4 DEF TakeMutex, Goes
<1>5. CASE MarkAbandoned(p)
  BY <1>0, <1>5 DEF MarkAbandoned, Releases, Writes
<1>6. CASE CheckSidecar(p)
  BY <1>0, <1>6 DEF CheckSidecar, Goes, Releases
<1>7. CASE WriteAcquired(p)
  BY <1>0, <1>7 DEF WriteAcquired, Goes, Releases, Writes
<1>8. CASE AbortLaunch(p)
  BY <1>0, <1>8 DEF AbortLaunch, Releases
<1>9. CASE SpawnBrowser(p)
  BY <1>0, <1>9 DEF SpawnBrowser, Goes
<1>10. CASE RecordSpawn(p)
  BY <1>0, <1>10 DEF RecordSpawn, Goes, Writes
<1>11. CASE RecordBrowser(p)
  BY <1>0, <1>11 DEF RecordBrowser, Goes, Writes
<1>12. CASE MarkRecoveryRequired(p)
  BY <1>0, <1>12 DEF MarkRecoveryRequired, Goes, Writes
<1>13. CASE BrowserStops(p)
  BY <1>0, <1>13 DEF BrowserStops
<1>14. CASE Cleanup(p)
  BY <1>0, <1>14 DEF Cleanup, Releases
<1>15. CASE ReleaseMutex(p)
  BY <1>0, <1>15 DEF ReleaseMutex, Goes
<1>16. CASE CloseMutex(p)
  BY <1>0, <1>16 DEF CloseMutex, Goes, Closes
<1>17. CASE UnlinkSidecar(p)
  <2>1. CASE sidecar' = sidecar
    BY <1>0, <1>17, <2>1 DEF UnlinkSidecar, Goes, NoSidecar
  <2>2. CASE sidecar' = NoSidecar /\ Past(p)
    BY SMTT(30), <1>0, <1>17, <2>2 DEF UnlinkSidecar, Goes
  <2>3. CASE sidecar' = NoSidecar /\ slot[p].after = "dead"
    <3>1. Absent \/ (sidecar = [state |-> "acquired", by |-> p] /\ alive = {})
      <4>1. CASE sidecar = NoSidecar
        BY <4>1 DEF NoSidecar
      <4>2. CASE sidecar # NoSidecar
        <5>1. slipped' = (slipped \/ (slot[p].after = "dead" /\ Needed(p)))
          BY <1>17, <2>3, <4>2, Zenon DEF UnlinkSidecar
        <5>2. ~Needed(p)
          BY <2>3, <5>1
        <5> QED BY <5>2 DEF Needed
      <4> QED BY <4>1, <4>2
    <3> QED BY <1>0, <1>17, <2>3, <3>1 DEF UnlinkSidecar, Goes, NoSidecar
  <2> QED BY <1>0, <1>17, <2>1, <2>2, <2>3 DEF UnlinkSidecar
<1>18. CASE StopTracking(p)
  BY <1>0, <1>18 DEF StopTracking, Goes
<1>19. CASE Interrupt(p)
  BY <1>0, <1>19 DEF Interrupt, Releases
<1>20. CASE ProfileCrash(p)
  BY <1>0, <1>20 DEF ProfileCrash, Goes, Closes
<1>21. CASE ProfileRestart(p)
  BY <1>0, <1>21 DEF ProfileRestart
<1> QED BY <1>1, <1>2, <1>3, <1>4, <1>5, <1>6, <1>7, <1>8, <1>9, <1>10, <1>11, <1>12,
         <1>13, <1>14, <1>15, <1>16, <1>17, <1>18, <1>19, <1>20, <1>21 DEF SlotStep

\* The three parts together are kept by every step.
LEMMA ProfileStepKeeps ==
  ASSUME ProfileInvariant, [ProfileNext]_profileVars
  PROVE  ProfileInvariant'
<1> USE DEF ProfileInvariant
<1>1. ASSUME NEW p \in Processes, SlotStep(p) PROVE ProfileInvariant'
  <2>1. slipped => slipped'
    BY <1>1 DEF SlotStep, BeginLaunch, OpenMutex, Conflict, TakeMutex, MarkAbandoned, CheckSidecar,
       WriteAcquired, AbortLaunch, SpawnBrowser, RecordSpawn, RecordBrowser, MarkRecoveryRequired,
       BrowserStops, Cleanup, ReleaseMutex, CloseMutex, UnlinkSidecar, StopTracking, Interrupt,
       ProfileCrash, ProfileRestart
  <2> QED BY <1>1, <2>1, ProfileTypesKept, LocksAreKept, GuardedKept
<1>2. CASE RecoverProfile
  <2>1. ProfileTypeOK'
    BY <1>2 DEF RecoverProfile, ProfileTypeOK, NoSidecar
  <2>2. LocksKept'
    BY <1>2 DEF RecoverProfile, LocksKept, HandlesKept, MutexKept, StuckKeepsFile, Holds, At
  <2>3. \A p \in Processes : ~Past(p)
    BY <1>2 DEF RecoverProfile, LocksKept, HandlesKept, Past, Spawned, At
  <2>4. ~slipped' => Guarded'
    BY <1>2, <2>3 DEF RecoverProfile, Guarded, OnePast, PastHasSidecar, PastIsAlone,
       BrowserHasSidecar, Past, Spawned
  <2> QED BY <2>1, <2>2, <2>4
<1>3. CASE UNCHANGED profileVars
  BY <1>3 DEF profileVars, ProfileTypeOK, LocksKept, HandlesKept, MutexKept, StuckKeepsFile, Holds,
     At, Guarded, OnePast, PastHasSidecar, PastIsAlone, BrowserHasSidecar, Past, Spawned, Absent
<1> QED BY <1>1, <1>2, <1>3 DEF ProfileNext

-----------------------------------------------------------------------------
(* The theorems *)

\* However launches, cleanups, crashes and interrupts interleave, the mutex and the handle
\* belong to those who think so, and whoever is past the sidecar is alone.
THEOREM ProfilesGuarded == ProfileSpec => []ProfileInvariant
<1>1. ProfileSpec => ProfileInvariant
  BY ProfileStart DEF ProfileSpec
<1>2. ProfileInvariant /\ [ProfileNext]_profileVars => ProfileInvariant'
  BY ProfileStepKeeps
<1> QED BY <1>1, <1>2, PTL DEF ProfileSpec

\* Two browsers never run on one profile unless an interrupt removed a sidecar that was
\* needed, for any number of processes that run the slot.
THEOREM OneBrowserRuns == ProfileSpec => []OneBrowser
<1>1. ProfileInvariant => OneBrowser
  BY DEF ProfileInvariant, OneBrowser, Guarded, PastIsAlone, Past, Spawned, At
<1> QED BY <1>1, ProfilesGuarded, PTL

-----------------------------------------------------------------------------
(* Runtime cells *)

HIDE DEF Launching, Attached, Owning, HandleOpen
USE BaseAssumption, CellAssumption DEF Live, Running

LeaseRow ==
  [status : LeaseStatus, owner : Processes \cup {None}, host : Hosts \cup {None}, expires : Nat]

GenerationRow == [cell : Cells \cup {None}, status : GenerationStatus]

SessionRow ==
  [pc : {"off", "idle", "claimed", "adopted", "open", "leaving", "gone", "dead"},
   attempt : Attempts \cup {None}, context : BOOLEAN]

Keeps(a, p) == lease[a].owner = p /\ lease[a].status \in Live

\* The state of a live lease that goes with the state of its generation.
Fitting(status) == IF status = "active" THEN "open" ELSE status

\* A live lease names who has it, and nobody has two or shares a host.
LeasesApart ==
  /\ \A a \in Attempts : lease[a].status \in Live => lease[a].owner \in Processes
  /\ \A a, b \in Attempts :
       /\ lease[a].status \in Live /\ lease[b].status \in Live
       /\ lease[a].owner = lease[b].owner \/ lease[a].host = lease[b].host
       => a = b

GenerationsApart ==
  \A p, q \in Processes :
    /\ generation[p].status \in Running /\ generation[q].status \in Running
    /\ generation[p].cell = generation[q].cell
    => p = q

\* The state of a generation and of the lease that it has, if any.
RowsFit ==
  \A p \in Processes :
    /\ \A a \in Attempts : Keeps(a, p) =>
         /\ generation[p].status \notin {"none", "closed"}
         /\ generation[p].status \in Running => lease[a].status = Fitting(generation[p].status)
    /\ generation[p].status \in {"suspect", "draining"} => \E a \in Attempts : Keeps(a, p)

\* A session that works on an attempt, or whose context may be open, keeps its lease.
SessionsFit ==
  \A p \in Processes :
    /\ session[p].pc \in {"claimed", "adopted", "open"} \/ session[p].context =>
         /\ Mine(p) \in Attempts /\ Keeps(Mine(p), p)
         /\ generation[p].status \in Running
    /\ session[p].context => session[p].pc \in {"open", "dead"}
    /\ session[p].pc = "idle" =>
         generation[p].status = "active" /\ \A a \in Attempts : ~Keeps(a, p)

CellInvariant == CellTypeOK /\ LeasesApart /\ GenerationsApart /\ RowsFit /\ SessionsFit

\* The record types of the rows, in the form the provers need for EXCEPT.
LEMMA CellTypes ==
  ASSUME CellTypeOK
  PROVE  /\ lease \in [Attempts -> LeaseRow]
         /\ generation \in [Processes -> GenerationRow]
         /\ session \in [Processes -> SessionRow]
BY DEF CellTypeOK, LeaseRow, GenerationRow, SessionRow

\* The empty registries satisfy the invariant.
LEMMA CellStart == ASSUME CellInit PROVE CellInvariant
BY DEF CellInit, CellInvariant, CellTypeOK, LeasesApart, GenerationsApart, RowsFit, SessionsFit,
   Keeps, LeaseStatus, GenerationStatus

\* What the marks of an expiry leave alone: every lease stays its owner's and its host's,
\* and a generation that runs goes on.
LEMMA MarksKeep ==
  ASSUME CellInvariant
  PROVE  /\ MarkedLeases \in [Attempts -> LeaseRow]
         /\ MarkedGenerations \in [Processes -> GenerationRow]
         /\ \A a \in Attempts :
              /\ MarkedLeases[a].owner = lease[a].owner /\ MarkedLeases[a].host = lease[a].host
              /\ MarkedLeases[a].status \in Live <=> lease[a].status \in Live
              /\ MarkedLeases[a].status # lease[a].status =>
                   lease[a].status = "open" /\ MarkedLeases[a].status = "suspect"
         /\ \A p \in Processes :
              /\ MarkedGenerations[p].cell = generation[p].cell
              /\ MarkedGenerations[p].status # generation[p].status =>
                   /\ generation[p].status = "active" /\ MarkedGenerations[p].status = "suspect"
                   /\ \E a \in Attempts : Keeps(a, p)
              /\ \A a \in Attempts : Keeps(a, p) /\ generation[p].status \in Running =>
                   MarkedLeases[a].status = Fitting(MarkedGenerations[p].status)
<1>0. lease \in [Attempts -> LeaseRow] /\ generation \in [Processes -> GenerationRow]
  BY CellTypes DEF CellInvariant
<1>1. \A a \in Attempts :
        /\ MarkedLeases[a] \in LeaseRow
        /\ MarkedLeases[a].owner = lease[a].owner /\ MarkedLeases[a].host = lease[a].host
        /\ MarkedLeases[a].status = IF Overdue(a) THEN "suspect" ELSE lease[a].status
  BY <1>0 DEF MarkedLeases, LeaseRow, LeaseStatus
<1>2. MarkedLeases \in [Attempts -> LeaseRow]
  BY <1>1 DEF MarkedLeases
<1>3. \A p \in Processes :
        /\ MarkedGenerations[p] \in GenerationRow
        /\ MarkedGenerations[p].cell = generation[p].cell
        /\ MarkedGenerations[p].status =
             IF generation[p].status = "active" /\ \E a \in Attempts : lease[a].owner = p /\ Overdue(a)
             THEN "suspect" ELSE generation[p].status
  BY <1>0 DEF MarkedGenerations, GenerationRow, GenerationStatus
<1>4. MarkedGenerations \in [Processes -> GenerationRow]
  BY <1>3 DEF MarkedGenerations
<1>5. \A a \in Attempts : Overdue(a) => lease[a].status = "open"
  BY DEF Overdue
<1>6. ASSUME NEW p \in Processes, NEW a \in Attempts, Keeps(a, p), generation[p].status \in Running
      PROVE  MarkedLeases[a].status = Fitting(MarkedGenerations[p].status)
  <2>1. lease[a].status = Fitting(generation[p].status)
    BY <1>6 DEF CellInvariant, RowsFit
  <2>2. \A b \in Attempts : lease[b].owner = p /\ Overdue(b) => b = a
    BY <1>5, <1>6 DEF CellInvariant, LeasesApart, Keeps
  <2> QED BY <1>1, <1>3, <1>5, <1>6, <2>1, <2>2 DEF Fitting, Keeps
<1> QED BY <1>1, <1>2, <1>3, <1>4, <1>5, <1>6 DEF Keeps

\* Every step of a process keeps the invariant.
LEMMA SessionKeeps ==
  ASSUME CellInvariant, NEW p \in Processes, SessionStep(p), UNCHANGED now, now \in Nat
  PROVE  CellInvariant'
<1>0. /\ lease \in [Attempts -> LeaseRow]
      /\ generation \in [Processes -> GenerationRow]
      /\ session \in [Processes -> SessionRow]
  BY CellTypes DEF CellInvariant
<1> USE DEF CellInvariant
<1>1. ASSUME NEW c \in Cells, Register(p, c) PROVE CellInvariant'
  <2>1. CellTypeOK'
    <3>0. session[p].pc \in {"claimed", "adopted", "open"} => Mine(p) \in Attempts
      BY DEF SessionsFit
    <3>1. lease' \in [Attempts -> LeaseRow]
      BY <1>0, <3>0, <1>1 DEF Register, LeaseRow, LeaseStatus
    <3>2. generation' \in [Processes -> GenerationRow]
      BY <1>0, <1>1 DEF Register, GenerationRow, GenerationStatus
    <3>3. session' \in [Processes -> SessionRow]
      BY <1>0, <1>1 DEF Register, SessionRow
    <3> QED BY <3>1, <3>2, <3>3 DEF CellTypeOK, LeaseRow, GenerationRow, SessionRow
  <2>2. LeasesApart'
    BY <1>0, <1>1 DEF Register, LeasesApart, LeaseRow, GenerationRow, SessionRow, SessionsFit, Keeps, Mine, LiveLeases
  <2>3. GenerationsApart'
    BY <1>0, <1>1 DEF Register, GenerationsApart, LeaseRow, GenerationRow, SessionRow, SessionsFit, Keeps, Mine, LiveLeases
  <2>4. RowsFit'
    BY <1>0, <1>1 DEF Register, RowsFit, LeasesApart, LeaseRow, GenerationRow, SessionRow, SessionsFit, Keeps, Fitting, Mine, LiveLeases
  <2>5. SessionsFit'
    BY <1>0, <1>1 DEF Register, SessionsFit, RowsFit, LeasesApart, LeaseRow, GenerationRow, SessionRow, Keeps, Fitting, Mine, LiveLeases
  <2> QED BY <2>1, <2>2, <2>3, <2>4, <2>5
<1>2. ASSUME NEW a \in Attempts, NEW h \in Hosts, Claim(p, a, h) PROVE CellInvariant'
  <2>1. CellTypeOK'
    <3>0. session[p].pc \in {"claimed", "adopted", "open"} => Mine(p) \in Attempts
      BY DEF SessionsFit
    <3>1. lease' \in [Attempts -> LeaseRow]
      BY <1>0, <3>0, <1>2, MarksKeep DEF Claim, LeaseRow, LeaseStatus
    <3>2. generation' \in [Processes -> GenerationRow]
      BY <1>0, <1>2, MarksKeep DEF Claim, GenerationRow, GenerationStatus
    <3>3. session' \in [Processes -> SessionRow]
      BY <1>0, <1>2 DEF Claim, SessionRow
    <3> QED BY <3>1, <3>2, <3>3 DEF CellTypeOK, LeaseRow, GenerationRow, SessionRow
  <2>2. LeasesApart'
    BY <1>0, <1>2, MarksKeep DEF Claim, LeasesApart, LeaseRow, GenerationRow, SessionRow, SessionsFit, Keeps, Mine, LiveLeases
  <2>3. GenerationsApart'
    BY <1>0, <1>2, MarksKeep DEF Claim, GenerationsApart, LeaseRow, GenerationRow, SessionRow, SessionsFit, Keeps, Mine, LiveLeases
  <2>4. RowsFit'
    BY <1>0, <1>2, MarksKeep DEF Claim, RowsFit, LeasesApart, LeaseRow, GenerationRow, SessionRow, SessionsFit, Keeps, Fitting, Mine, LiveLeases
  <2>5. SessionsFit'
    BY <1>0, <1>2, MarksKeep DEF Claim, SessionsFit, RowsFit, LeasesApart, LeaseRow, GenerationRow, SessionRow, Keeps, Fitting, Mine, LiveLeases
  <2> QED BY <2>1, <2>2, <2>3, <2>4, <2>5
<1>3. ASSUME Adopt(p) PROVE CellInvariant'
  <2>1. CellTypeOK'
    <3>0. session[p].pc \in {"claimed", "adopted", "open"} => Mine(p) \in Attempts
      BY DEF SessionsFit
    <3>1. lease' \in [Attempts -> LeaseRow]
      BY <1>0, <3>0, <1>3, MarksKeep DEF Adopt, LeaseRow, LeaseStatus
    <3>2. generation' \in [Processes -> GenerationRow]
      BY <1>0, <1>3, MarksKeep DEF Adopt, GenerationRow, GenerationStatus
    <3>3. session' \in [Processes -> SessionRow]
      BY <1>0, <1>3 DEF Adopt, SessionRow
    <3> QED BY <3>1, <3>2, <3>3 DEF CellTypeOK, LeaseRow, GenerationRow, SessionRow
  <2>2. LeasesApart'
    BY <1>0, <1>3, MarksKeep DEF Adopt, LeasesApart, LeaseRow, GenerationRow, SessionRow, SessionsFit, Keeps, Mine, LiveLeases
  <2>3. GenerationsApart'
    BY <1>0, <1>3, MarksKeep DEF Adopt, GenerationsApart, LeaseRow, GenerationRow, SessionRow, SessionsFit, Keeps, Mine, LiveLeases
  <2>4. RowsFit'
    BY <1>0, <1>3, MarksKeep DEF Adopt, RowsFit, LeasesApart, LeaseRow, GenerationRow, SessionRow, SessionsFit, Keeps, Fitting, Mine, LiveLeases
  <2>5. SessionsFit'
    BY <1>0, <1>3, MarksKeep DEF Adopt, SessionsFit, RowsFit, LeasesApart, LeaseRow, GenerationRow, SessionRow, Keeps, Fitting, Mine, LiveLeases
  <2> QED BY <2>1, <2>2, <2>3, <2>4, <2>5
<1>4. ASSUME AdoptRefused(p) PROVE CellInvariant'
  <2>1. CellTypeOK'
    <3>0. session[p].pc \in {"claimed", "adopted", "open"} => Mine(p) \in Attempts
      BY DEF SessionsFit
    <3>1. lease' \in [Attempts -> LeaseRow]
      BY <1>0, <3>0, <1>4 DEF AdoptRefused, LeaseRow, LeaseStatus
    <3>2. generation' \in [Processes -> GenerationRow]
      BY <1>0, <1>4 DEF AdoptRefused, GenerationRow, GenerationStatus
    <3>3. session' \in [Processes -> SessionRow]
      BY <1>0, <1>4 DEF AdoptRefused, SessionRow
    <3> QED BY <3>1, <3>2, <3>3 DEF CellTypeOK, LeaseRow, GenerationRow, SessionRow
  <2>2. LeasesApart'
    BY <1>0, <1>4 DEF AdoptRefused, LeasesApart, LeaseRow, GenerationRow, SessionRow, SessionsFit, Keeps, Mine, LiveLeases
  <2>3. GenerationsApart'
    BY <1>0, <1>4 DEF AdoptRefused, GenerationsApart, LeaseRow, GenerationRow, SessionRow, SessionsFit, Keeps, Mine, LiveLeases
  <2>4. RowsFit'
    BY <1>0, <1>4 DEF AdoptRefused, RowsFit, LeasesApart, LeaseRow, GenerationRow, SessionRow, SessionsFit, Keeps, Fitting, Mine, LiveLeases
  <2>5. SessionsFit'
    BY <1>0, <1>4 DEF AdoptRefused, SessionsFit, RowsFit, LeasesApart, LeaseRow, GenerationRow, SessionRow, Keeps, Fitting, Mine, LiveLeases
  <2> QED BY <2>1, <2>2, <2>3, <2>4, <2>5
<1>5. ASSUME OpenContext(p) PROVE CellInvariant'
  <2>1. CellTypeOK'
    <3>0. session[p].pc \in {"claimed", "adopted", "open"} => Mine(p) \in Attempts
      BY DEF SessionsFit
    <3>1. lease' \in [Attempts -> LeaseRow]
      BY <1>0, <3>0, <1>5 DEF OpenContext, LeaseRow, LeaseStatus
    <3>2. generation' \in [Processes -> GenerationRow]
      BY <1>0, <1>5 DEF OpenContext, GenerationRow, GenerationStatus
    <3>3. session' \in [Processes -> SessionRow]
      BY <1>0, <1>5 DEF OpenContext, SessionRow
    <3> QED BY <3>1, <3>2, <3>3 DEF CellTypeOK, LeaseRow, GenerationRow, SessionRow
  <2>2. LeasesApart'
    BY <1>0, <1>5 DEF OpenContext, LeasesApart, LeaseRow, GenerationRow, SessionRow, SessionsFit, Keeps, Mine, LiveLeases
  <2>3. GenerationsApart'
    BY <1>0, <1>5 DEF OpenContext, GenerationsApart, LeaseRow, GenerationRow, SessionRow, SessionsFit, Keeps, Mine, LiveLeases
  <2>4. RowsFit'
    BY <1>0, <1>5 DEF OpenContext, RowsFit, LeasesApart, LeaseRow, GenerationRow, SessionRow, SessionsFit, Keeps, Fitting, Mine, LiveLeases
  <2>5. SessionsFit'
    BY <1>0, <1>5 DEF OpenContext, SessionsFit, RowsFit, LeasesApart, LeaseRow, GenerationRow, SessionRow, Keeps, Fitting, Mine, LiveLeases
  <2> QED BY <2>1, <2>2, <2>3, <2>4, <2>5
<1>6. ASSUME OpenFails(p) PROVE CellInvariant'
  <2>1. CellTypeOK'
    <3>0. session[p].pc \in {"claimed", "adopted", "open"} => Mine(p) \in Attempts
      BY DEF SessionsFit
    <3>1. lease' \in [Attempts -> LeaseRow]
      BY <1>0, <3>0, <1>6 DEF OpenFails, Quarantined, Quarantinable, LeaseRow, LeaseStatus
    <3>2. generation' \in [Processes -> GenerationRow]
      BY <1>0, <1>6 DEF OpenFails, Quarantined, Quarantinable, GenerationRow, GenerationStatus
    <3>3. session' \in [Processes -> SessionRow]
      BY <1>0, <1>6 DEF OpenFails, Quarantined, Quarantinable, SessionRow
    <3> QED BY <3>1, <3>2, <3>3 DEF CellTypeOK, LeaseRow, GenerationRow, SessionRow
  <2>2. LeasesApart'
    BY <1>0, <1>6 DEF OpenFails, Quarantined, Quarantinable, LeasesApart, LeaseRow, GenerationRow, SessionRow, SessionsFit, Keeps, Mine, LiveLeases
  <2>3. GenerationsApart'
    BY <1>0, <1>6 DEF OpenFails, Quarantined, Quarantinable, GenerationsApart, LeaseRow, GenerationRow, SessionRow, SessionsFit, Keeps, Mine, LiveLeases
  <2>4. RowsFit'
    BY SMTT(30), <1>0, <1>6 DEF OpenFails, Quarantined, RowsFit, SessionsFit, Keeps
  <2>5. SessionsFit'
    BY <1>0, <1>6 DEF OpenFails, Quarantined, Quarantinable, SessionsFit, RowsFit, LeasesApart, LeaseRow, GenerationRow, SessionRow, Keeps, Fitting, Mine, LiveLeases
  <2> QED BY <2>1, <2>2, <2>3, <2>4, <2>5
<1>7. ASSUME BeginDrain(p) PROVE CellInvariant'
  <2>1. CellTypeOK'
    <3>0. session[p].pc \in {"claimed", "adopted", "open"} => Mine(p) \in Attempts
      BY DEF SessionsFit
    <3>1. lease' \in [Attempts -> LeaseRow]
      BY <1>0, <3>0, <1>7 DEF BeginDrain, LeaseRow, LeaseStatus
    <3>2. generation' \in [Processes -> GenerationRow]
      BY <1>0, <1>7 DEF BeginDrain, GenerationRow, GenerationStatus
    <3>3. session' \in [Processes -> SessionRow]
      BY <1>0, <1>7 DEF BeginDrain, SessionRow
    <3> QED BY <3>1, <3>2, <3>3 DEF CellTypeOK, LeaseRow, GenerationRow, SessionRow
  <2>2. LeasesApart'
    BY <1>0, <1>7 DEF BeginDrain, LeasesApart, LeaseRow, GenerationRow, SessionRow, SessionsFit, Keeps, Mine, LiveLeases
  <2>3. GenerationsApart'
    BY <1>0, <1>7 DEF BeginDrain, GenerationsApart, LeaseRow, GenerationRow, SessionRow, SessionsFit, Keeps, Mine, LiveLeases
  <2>4. RowsFit'
    BY <1>0, <1>7 DEF BeginDrain, RowsFit, LeasesApart, LeaseRow, GenerationRow, SessionRow, SessionsFit, Keeps, Fitting, Mine, LiveLeases
  <2>5. SessionsFit'
    BY <1>0, <1>7 DEF BeginDrain, SessionsFit, RowsFit, LeasesApart, LeaseRow, GenerationRow, SessionRow, Keeps, Fitting, Mine, LiveLeases
  <2> QED BY <2>1, <2>2, <2>3, <2>4, <2>5
<1>8. ASSUME CloseApplication(p) PROVE CellInvariant'
  <2>1. CellTypeOK'
    <3>0. session[p].pc \in {"claimed", "adopted", "open"} => Mine(p) \in Attempts
      BY DEF SessionsFit
    <3>1. lease' \in [Attempts -> LeaseRow]
      BY <1>0, <3>0, <1>8 DEF CloseApplication, Releasable, LeaseRow, LeaseStatus
    <3>2. generation' \in [Processes -> GenerationRow]
      BY <1>0, <1>8 DEF CloseApplication, Releasable, GenerationRow, GenerationStatus
    <3>3. session' \in [Processes -> SessionRow]
      BY <1>0, <1>8 DEF CloseApplication, Releasable, SessionRow
    <3> QED BY <3>1, <3>2, <3>3 DEF CellTypeOK, LeaseRow, GenerationRow, SessionRow
  <2>2. LeasesApart'
    BY <1>0, <1>8 DEF CloseApplication, Releasable, LeasesApart, LeaseRow, GenerationRow, SessionRow, SessionsFit, Keeps, Mine, LiveLeases
  <2>3. GenerationsApart'
    BY <1>0, <1>8 DEF CloseApplication, Releasable, GenerationsApart, LeaseRow, GenerationRow, SessionRow, SessionsFit, Keeps, Mine, LiveLeases
  <2>4. RowsFit'
    BY <1>0, <1>8 DEF CloseApplication, Releasable, RowsFit, LeasesApart, LeaseRow, GenerationRow, SessionRow, SessionsFit, Keeps, Fitting, Mine, LiveLeases
  <2>5. SessionsFit'
    BY <1>0, <1>8 DEF CloseApplication, Releasable, SessionsFit, RowsFit, LeasesApart, LeaseRow, GenerationRow, SessionRow, Keeps, Fitting, Mine, LiveLeases
  <2> QED BY <2>1, <2>2, <2>3, <2>4, <2>5
<1>9. ASSUME ReleaseRefused(p) PROVE CellInvariant'
  <2>1. CellTypeOK'
    <3>0. session[p].pc \in {"claimed", "adopted", "open"} => Mine(p) \in Attempts
      BY DEF SessionsFit
    <3>1. lease' \in [Attempts -> LeaseRow]
      BY <1>0, <3>0, <1>9 DEF ReleaseRefused, Releasable, Leaves, LeaseRow, LeaseStatus
    <3>2. generation' \in [Processes -> GenerationRow]
      BY <1>0, <1>9 DEF ReleaseRefused, Releasable, Leaves, GenerationRow, GenerationStatus
    <3>3. session' \in [Processes -> SessionRow]
      <4>1. PICK pc \in {"leaving", "gone"} :
              session' = [session EXCEPT ![p] = [@ EXCEPT !.pc = pc, !.context = FALSE]]
        BY <1>9 DEF ReleaseRefused, Leaves
      <4> QED BY ZenonT(60), <1>0, <4>1 DEF SessionRow
    <3> QED BY <3>1, <3>2, <3>3 DEF CellTypeOK, LeaseRow, GenerationRow, SessionRow
  <2>2. LeasesApart'
    BY <1>0, <1>9 DEF ReleaseRefused, Releasable, Leaves, LeasesApart, LeaseRow, GenerationRow, SessionRow, SessionsFit, Keeps, Mine, LiveLeases
  <2>3. GenerationsApart'
    BY <1>0, <1>9 DEF ReleaseRefused, Releasable, Leaves, GenerationsApart, LeaseRow, GenerationRow, SessionRow, SessionsFit, Keeps, Mine, LiveLeases
  <2>4. RowsFit'
    BY <1>0, <1>9 DEF ReleaseRefused, Releasable, Leaves, RowsFit, LeasesApart, LeaseRow, GenerationRow, SessionRow, SessionsFit, Keeps, Fitting, Mine, LiveLeases
  <2>5. SessionsFit'
    BY <1>0, <1>9 DEF ReleaseRefused, Releasable, Leaves, SessionsFit, RowsFit, LeasesApart, LeaseRow, GenerationRow, SessionRow, Keeps, Fitting, Mine, LiveLeases
  <2> QED BY <2>1, <2>2, <2>3, <2>4, <2>5
<1>10. ASSUME CleanupFails(p) PROVE CellInvariant'
  <2>1. CellTypeOK'
    <3>0. session[p].pc \in {"claimed", "adopted", "open"} => Mine(p) \in Attempts
      BY DEF SessionsFit
    <3>1. lease' \in [Attempts -> LeaseRow]
      BY <1>0, <3>0, <1>10 DEF CleanupFails, Quarantined, Quarantinable, Leaves, LeaseRow, LeaseStatus
    <3>2. generation' \in [Processes -> GenerationRow]
      BY <1>0, <1>10 DEF CleanupFails, Quarantined, Quarantinable, Leaves, GenerationRow, GenerationStatus
    <3>3. session' \in [Processes -> SessionRow]
      <4>1. PICK pc \in {"leaving", "gone"} :
              session' = [session EXCEPT ![p] = [@ EXCEPT !.pc = pc, !.context = FALSE]]
        BY <1>10 DEF CleanupFails, Leaves
      <4> QED BY ZenonT(60), <1>0, <4>1 DEF SessionRow
    <3> QED BY <3>1, <3>2, <3>3 DEF CellTypeOK, LeaseRow, GenerationRow, SessionRow
  <2>2. LeasesApart'
    BY <1>0, <1>10 DEF CleanupFails, Quarantined, Quarantinable, Leaves, LeasesApart, LeaseRow, GenerationRow, SessionRow, SessionsFit, Keeps, Mine, LiveLeases
  <2>3. GenerationsApart'
    BY <1>0, <1>10 DEF CleanupFails, Quarantined, Quarantinable, Leaves, GenerationsApart, LeaseRow, GenerationRow, SessionRow, SessionsFit, Keeps, Mine, LiveLeases
  <2>4. RowsFit'
    BY SMTT(30), <1>0, <1>10 DEF CleanupFails, Quarantined, RowsFit, SessionsFit, Keeps
  <2>5. SessionsFit'
    BY <1>0, <1>10 DEF CleanupFails, Quarantined, Quarantinable, Leaves, SessionsFit, RowsFit, LeasesApart, LeaseRow, GenerationRow, SessionRow, Keeps, Fitting, Mine, LiveLeases
  <2> QED BY <2>1, <2>2, <2>3, <2>4, <2>5
<1>11. ASSUME CloseGeneration(p) PROVE CellInvariant'
  <2>1. CellTypeOK'
    <3>0. session[p].pc \in {"claimed", "adopted", "open"} => Mine(p) \in Attempts
      BY DEF SessionsFit
    <3>1. lease' \in [Attempts -> LeaseRow]
      BY <1>0, <3>0, <1>11 DEF CloseGeneration, LiveLeases, LeaseRow, LeaseStatus
    <3>2. generation' \in [Processes -> GenerationRow]
      BY <1>0, <1>11 DEF CloseGeneration, LiveLeases, GenerationRow, GenerationStatus
    <3>3. session' \in [Processes -> SessionRow]
      BY <1>0, <1>11 DEF CloseGeneration, LiveLeases, SessionRow
    <3> QED BY <3>1, <3>2, <3>3 DEF CellTypeOK, LeaseRow, GenerationRow, SessionRow
  <2>2. LeasesApart'
    BY <1>0, <1>11 DEF CloseGeneration, LiveLeases, LeasesApart, LeaseRow, GenerationRow, SessionRow, SessionsFit, Keeps, Mine, LiveLeases
  <2>3. GenerationsApart'
    BY <1>0, <1>11 DEF CloseGeneration, LiveLeases, GenerationsApart, LeaseRow, GenerationRow, SessionRow, SessionsFit, Keeps, Mine, LiveLeases
  <2>4. RowsFit'
    BY <1>0, <1>11 DEF CloseGeneration, LiveLeases, RowsFit, LeasesApart, LeaseRow, GenerationRow, SessionRow, SessionsFit, Keeps, Fitting, Mine, LiveLeases
  <2>5. SessionsFit'
    BY <1>0, <1>11 DEF CloseGeneration, LiveLeases, SessionsFit, RowsFit, LeasesApart, LeaseRow, GenerationRow, SessionRow, Keeps, Fitting, Mine, LiveLeases
  <2> QED BY <2>1, <2>2, <2>3, <2>4, <2>5
<1>12. ASSUME CellCrash(p) PROVE CellInvariant'
  <2>1. CellTypeOK'
    <3>0. session[p].pc \in {"claimed", "adopted", "open"} => Mine(p) \in Attempts
      BY DEF SessionsFit
    <3>1. lease' \in [Attempts -> LeaseRow]
      BY <1>0, <3>0, <1>12 DEF CellCrash, LeaseRow, LeaseStatus
    <3>2. generation' \in [Processes -> GenerationRow]
      BY <1>0, <1>12 DEF CellCrash, GenerationRow, GenerationStatus
    <3>3. session' \in [Processes -> SessionRow]
      BY <1>0, <1>12 DEF CellCrash, SessionRow
    <3> QED BY <3>1, <3>2, <3>3 DEF CellTypeOK, LeaseRow, GenerationRow, SessionRow
  <2>2. LeasesApart'
    BY <1>0, <1>12 DEF CellCrash, LeasesApart, LeaseRow, GenerationRow, SessionRow, SessionsFit, Keeps, Mine, LiveLeases
  <2>3. GenerationsApart'
    BY <1>0, <1>12 DEF CellCrash, GenerationsApart, LeaseRow, GenerationRow, SessionRow, SessionsFit, Keeps, Mine, LiveLeases
  <2>4. RowsFit'
    BY <1>0, <1>12 DEF CellCrash, RowsFit, LeasesApart, LeaseRow, GenerationRow, SessionRow, SessionsFit, Keeps, Fitting, Mine, LiveLeases
  <2>5. SessionsFit'
    BY <1>0, <1>12 DEF CellCrash, SessionsFit, RowsFit, LeasesApart, LeaseRow, GenerationRow, SessionRow, Keeps, Fitting, Mine, LiveLeases
  <2> QED BY <2>1, <2>2, <2>3, <2>4, <2>5
<1> QED BY <1>1, <1>2, <1>3, <1>4, <1>5, <1>6, <1>7, <1>8, <1>9, <1>10, <1>11, <1>12 DEF SessionStep

\* The marks alone, and the clock, keep it too.
LEMMA CellStepKeeps ==
  ASSUME CellInvariant, now \in Nat, [CellNext]_<<now, cellVars>>
  PROVE  CellInvariant' /\ now' \in Nat
<1>1. CASE MarkExpiredSuspect /\ UNCHANGED now
  <2>1. CellTypeOK'
    BY <1>1, MarksKeep DEF MarkExpiredSuspect, CellInvariant, CellTypeOK, LeaseRow, GenerationRow
  <2>2. LeasesApart' /\ GenerationsApart'
    BY <1>1, MarksKeep DEF MarkExpiredSuspect, CellInvariant, LeasesApart, GenerationsApart
  <2>3. RowsFit'
    BY <1>1, MarksKeep DEF MarkExpiredSuspect, CellInvariant, RowsFit, Keeps, Fitting
  <2>4. SessionsFit'
    BY <1>1, MarksKeep DEF MarkExpiredSuspect, CellInvariant, SessionsFit, Keeps, Mine
  <2> QED BY <1>1, <2>1, <2>2, <2>3, <2>4 DEF CellInvariant
<1>2. ASSUME NEW p \in Processes, SessionStep(p), UNCHANGED now PROVE CellInvariant' /\ now' \in Nat
  BY <1>2, SessionKeeps
<1>3. CASE UNCHANGED cellVars /\ (Tick \/ UNCHANGED now)
  BY <1>3 DEF Tick, cellVars, CellInvariant, CellTypeOK, LeasesApart, GenerationsApart, RowsFit,
     SessionsFit, Keeps, Mine
<1> QED BY <1>1, <1>2, <1>3 DEF CellNext, cellVars

-----------------------------------------------------------------------------
(* No resource is entered twice *)

Occupied == [r \in Hosts \cup Cells |-> UsedBy(r)]

\* A step that opens and closes no context, and moves no row under an open one, is a stutter.
LEMMA OccupiedStays ==
  ASSUME CellInvariant,
         \A q \in Processes :
           /\ session'[q].context = session[q].context
           /\ session[q].context =>
                /\ session'[q].attempt = session[q].attempt
                /\ lease'[Mine(q)].host = lease[Mine(q)].host
                /\ generation'[q].cell = generation[q].cell
  PROVE  Occupied' = Occupied
BY DEF Occupied, UsedBy, Mine

\* The step that closes the context of p lets its resources go.
LEMMA OccupiedLeft ==
  ASSUME CellInvariant, NEW p \in Processes,
         session'[p].context = FALSE,
         \A q \in Processes \ {p} :
           /\ session'[q].context = session[q].context
           /\ session[q].context =>
                /\ session'[q].attempt = session[q].attempt
                /\ lease'[Mine(q)].host = lease[Mine(q)].host
                /\ generation'[q].cell = generation[q].cell
  PROVE  CellExclusion!Leave(p)
<1>1. \A r \in Hosts \cup Cells : UsedBy(r)' = UsedBy(r) \ {p}
  BY DEF UsedBy, Mine
<1> QED BY <1>1 DEF CellExclusion!Leave

\* A context opens on a host and a cell that nobody else can be using: whoever did would
\* still have a live lease on that host, or a generation of that cell that runs.
LEMMA OccupiedEntered ==
  ASSUME CellInvariant, NEW p \in Processes, OpenContext(p)
  PROVE  \E S \in SUBSET (Hosts \cup Cells) : CellExclusion!Enter(p, S)
<1> DEFINE S == {lease[Mine(p)].host, generation[p].cell} \cap (Hosts \cup Cells)
<1>0. /\ session \in [Processes -> SessionRow]
      /\ generation \in [Processes -> GenerationRow]
      /\ lease \in [Attempts -> LeaseRow]
  BY CellTypes DEF CellInvariant
<1>1. Mine(p) \in Attempts /\ Keeps(Mine(p), p) /\ generation[p].status \in Running /\ ~session[p].context
  BY <1>0 DEF OpenContext, CellInvariant, SessionsFit, SessionRow
<1>2. ASSUME NEW r \in S, NEW q \in UsedBy(r) PROVE FALSE
  <2>1. /\ q \in Processes /\ q # p /\ session[q].context
        /\ Mine(q) \in Attempts /\ Keeps(Mine(q), q) /\ generation[q].status \in Running
        /\ r \in {lease[Mine(q)].host, generation[q].cell}
    BY <1>1, <1>2 DEF UsedBy, CellInvariant, SessionsFit
  <2>2. r \in Hosts => r = lease[Mine(q)].host /\ r = lease[Mine(p)].host
    BY <1>0, <1>1, <1>2, <2>1 DEF GenerationRow
  <2>3. r \in Cells => r = generation[q].cell /\ r = generation[p].cell
    BY <1>0, <1>1, <1>2, <2>1 DEF LeaseRow
  <2>4. r \notin Hosts
    BY <1>1, <2>1, <2>2 DEF CellInvariant, LeasesApart, Keeps
  <2>5. r \notin Cells
    BY <1>1, <2>1, <2>3 DEF CellInvariant, GenerationsApart
  <2> QED BY <1>2, <2>4, <2>5
<1>3. \A r \in Hosts \cup Cells : UsedBy(r)' = IF r \in S THEN {p} ELSE UsedBy(r)
  <2>1. session' = [session EXCEPT ![p] = [@ EXCEPT !.pc = "open", !.context = TRUE]]
        /\ UNCHANGED <<generation, lease>>
    BY DEF OpenContext
  <2>2. \A q \in Processes : /\ session'[q].attempt = session[q].attempt
                             /\ session'[q].context = (q = p \/ session[q].context)
    BY ZenonT(60), <1>0, <2>1 DEF SessionRow
  <2>3. \A r \in Hosts \cup Cells : UsedBy(r)' = UsedBy(r) \cup (IF r \in S THEN {p} ELSE {})
    BY <2>1, <2>2 DEF UsedBy, Mine
  <2> QED BY <1>2, <2>3
<1>4. \A r \in S : UsedBy(r) = {}
  BY <1>2
<1> QED BY <1>3, <1>4 DEF CellExclusion!Enter

\* Every step of the registry and of its sessions is an Enter, a Leave or a stutter.
LEMMA ExclusionStep ==
  ASSUME CellInvariant, [CellNext]_<<now, cellVars>>
  PROVE  CellExclusion!Next \/ Occupied' = Occupied
<1>0. /\ session \in [Processes -> SessionRow]
      /\ generation \in [Processes -> GenerationRow]
      /\ lease \in [Attempts -> LeaseRow]
  BY CellTypes DEF CellInvariant
<1>1. CASE MarkExpiredSuspect
  BY <1>1, MarksKeep, OccupiedStays DEF MarkExpiredSuspect, CellInvariant, SessionsFit
<1>2. CASE UNCHANGED cellVars
  BY <1>2, OccupiedStays DEF cellVars
<1>3. ASSUME NEW p \in Processes, SessionStep(p) PROVE CellExclusion!Next \/ Occupied' = Occupied
  <2>0. \A q \in Processes : session[q].context =>
          /\ session[q].pc \in {"open", "dead"}
          /\ Mine(q) \in Attempts /\ lease[Mine(q)].status \in Live
    BY DEF CellInvariant, SessionsFit, Keeps
  <2>1. ASSUME NEW c \in Cells, Register(p, c) PROVE Occupied' = Occupied
    BY <1>0, <2>0, <2>1, OccupiedStays DEF Register, SessionRow, GenerationRow
  <2>2. ASSUME NEW a \in Attempts, NEW h \in Hosts, Claim(p, a, h) PROVE Occupied' = Occupied
    <3>1. \A q \in Processes :
            /\ session'[q].context = session[q].context
            /\ session[q].context => q # p
            /\ q # p => session'[q].attempt = session[q].attempt
      BY <1>0, <2>0, <2>2 DEF Claim, SessionRow
    <3>2. \A b \in Attempts : lease[b].status \in Live => lease'[b].host = lease[b].host
      BY <2>2, MarksKeep DEF Claim
    <3>3. \A q \in Processes : generation'[q].cell = generation[q].cell
      BY <2>2, MarksKeep DEF Claim
    <3> QED BY <2>0, <3>1, <3>2, <3>3, OccupiedStays DEF Mine
  <2>3. CASE Adopt(p)
    BY <1>0, <2>0, <2>3, MarksKeep, OccupiedStays DEF Adopt, SessionRow, LeaseRow
  <2>4. CASE AdoptRefused(p) \/ CellCrash(p)
    BY <1>0, <2>0, <2>4, OccupiedStays DEF AdoptRefused, CellCrash, SessionRow
  <2>5. CASE OpenContext(p)
    BY <2>5, OccupiedEntered DEF CellExclusion!Next
  <2>6. CASE OpenFails(p)
    BY <1>0, <2>0, <2>6, OccupiedStays DEF OpenFails, Quarantined, SessionRow, LeaseRow, GenerationRow
  <2>7. CASE BeginDrain(p)
    BY <1>0, <2>0, <2>7, OccupiedStays DEF BeginDrain, SessionRow, LeaseRow, GenerationRow
  <2>8. CASE CloseApplication(p)
    <3>1. /\ session'[p].context = FALSE
          /\ \A q \in Processes : generation'[q].cell = generation[q].cell
          /\ \A q \in Processes \ {p} : session'[q] = session[q]
      BY <1>0, <2>8 DEF CloseApplication, SessionRow, GenerationRow
    <3>2. \A b \in Attempts : lease'[b].host = lease[b].host
      BY <1>0, <2>8 DEF CloseApplication, LeaseRow
    <3>3. CellExclusion!Leave(p)
      BY <2>0, <3>1, <3>2, OccupiedLeft DEF Mine
    <3> QED BY <3>3 DEF CellExclusion!Next
  <2>9. CASE ReleaseRefused(p)
    <3>0. PICK pc \in {"leaving", "gone"} :
            session' = [session EXCEPT ![p] = [@ EXCEPT !.pc = pc, !.context = FALSE]]
      BY <2>9 DEF ReleaseRefused, Leaves
    <3>1. /\ session'[p].context = FALSE
          /\ \A q \in Processes \ {p} : session'[q] = session[q]
      BY <1>0, <3>0 DEF SessionRow
    <3>2. CellExclusion!Leave(p)
      BY <2>0, <2>9, <3>1, OccupiedLeft DEF ReleaseRefused, Mine
    <3> QED BY <3>2 DEF CellExclusion!Next
  <2>10. CASE CleanupFails(p)
    <3>0. PICK pc \in {"leaving", "gone"} :
            session' = [session EXCEPT ![p] = [@ EXCEPT !.pc = pc, !.context = FALSE]]
      BY <2>10 DEF CleanupFails, Leaves
    <3>1. /\ session'[p].context = FALSE
          /\ \A q \in Processes : generation'[q].cell = generation[q].cell
          /\ \A q \in Processes \ {p} : session'[q] = session[q]
      BY <1>0, <2>10, <3>0 DEF CleanupFails, Quarantined, SessionRow, GenerationRow
    <3>2. \A b \in Attempts : lease'[b].host = lease[b].host
      BY <1>0, <2>10 DEF CleanupFails, Quarantined, LeaseRow
    <3>3. CellExclusion!Leave(p)
      BY <2>0, <3>1, <3>2, OccupiedLeft DEF Mine
    <3> QED BY <3>3 DEF CellExclusion!Next
  <2>11. CASE CloseGeneration(p)
    BY <1>0, <2>0, <2>11, OccupiedStays DEF CloseGeneration, SessionRow, GenerationRow
  <2> QED BY <1>3, <2>1, <2>2, <2>3, <2>4, <2>5, <2>6, <2>7, <2>8, <2>9, <2>10, <2>11 DEF SessionStep
<1> QED BY <1>1, <1>2, <1>3 DEF CellNext, cellVars

-----------------------------------------------------------------------------
(* The theorems *)

\* The invariant of the registry holds along every run.
LEMMA CellsHold == CellSpec => [](CellInvariant /\ now \in Nat)
<1>1. CellSpec => CellInvariant /\ now \in Nat
  BY CellStart DEF CellSpec
<1>2. CellInvariant /\ now \in Nat /\ [CellNext]_<<now, cellVars>> => (CellInvariant /\ now \in Nat)'
  BY CellStepKeeps
<1> QED BY <1>1, <1>2, PTL DEF CellSpec

\* Leases and generations agree, and a worker that goes on to the next job can claim it,
\* whatever expired, drained or failed before, for any number of processes and attempts.
THEOREM CellTablesAgree == CellSpec => []TablesAgree
<1>1. CellInvariant => TablesAgree
  <2> SUFFICES ASSUME CellInvariant, NEW p \in Processes
               PROVE  LET held == {lease[a].status : a \in LiveLeases(p)} IN
                      /\ generation[p].status = "active" => held \subseteq {"open"}
                      /\ generation[p].status = "suspect" => held = {"suspect"}
                      /\ generation[p].status = "draining" => held = {"draining"}
                      /\ generation[p].status \in {"none", "closed"} => held = {}
                      /\ session[p].pc = "idle" => generation[p].status = "active" /\ held = {}
    BY DEF TablesAgree
  <2> DEFINE held == {lease[a].status : a \in LiveLeases(p)}
  <2>1. \A a \in Attempts : a \in LiveLeases(p) <=> Keeps(a, p)
    BY DEF LiveLeases, Keeps
  <2>2. \A s \in held : generation[p].status \in Running => s = Fitting(generation[p].status)
    BY <2>1 DEF CellInvariant, RowsFit, LiveLeases
  <2>3. generation[p].status \in {"suspect", "draining"} => held # {}
    BY <2>1 DEF CellInvariant, RowsFit
  <2>4. generation[p].status \in {"none", "closed"} => held = {}
    BY <2>1 DEF CellInvariant, RowsFit, LiveLeases
  <2>5. session[p].pc = "idle" => generation[p].status = "active" /\ held = {}
    BY <2>1 DEF CellInvariant, SessionsFit, LiveLeases
  <2> QED BY <2>2, <2>3, <2>4, <2>5 DEF Fitting
<1> QED BY <1>1, CellsHold, PTL

\* The cells implement the lock that Exclusion promises: a host or a cell whose browser
\* context may be open is never given to another process, however late its lease is.
THEOREM CellsExclude == CellSpec => ImplementsExclusion
<1>1. CellInit => CellExclusion!Init
  BY DEF CellInit, CellExclusion!Init, UsedBy
<1>2. CellInvariant /\ [CellNext]_<<now, cellVars>> => [CellExclusion!Next]_Occupied
  BY ExclusionStep
<1> QED BY <1>1, <1>2, CellsHold, PTL DEF CellSpec, ImplementsExclusion, CellExclusion!Spec, Occupied

-----------------------------------------------------------------------------
(* Browser leases *)

HIDE DEF Live, Running
USE BaseAssumption, LeaseAssumption

LeaseRecord == [status : {"free", "active", "expired", "released"},
                holder : Processes \cup {None}, attempt : Attempts \cup {None},
                runtime : Runtimes \cup {None}, profile : Profiles \cup {None},
                epoch : Nat, expires : Nat]

SeatRecord == [pc : {"idle", "acquiring", "dead"}, attempt : Attempts \cup {None},
               bundle : Leases \cup {None}, runtime : Runtimes \cup {None},
               profile : Profiles \cup {None}, found : Leases \cup {None}, latest : Nat, at : Nat]

\* An acquisition works on a job of its process, and read the clock before now.
SeatsFit ==
  \A p \in Processes :
    /\ seat[p].pc = "acquiring" \/ seat[p].bundle # None =>
         /\ seat[p].attempt \in Attempts
         /\ seat[p].runtime \in Runtimes
         /\ seat[p].profile \in Profiles
    /\ seat[p].pc = "acquiring" => seat[p].at <= now

\* Rows that were never inserted count for nobody.
FreeIsEmpty ==
  \A l \in Leases : /\ row[l].status = "free" => row[l].profile = None
                    /\ row[l].status = "active" => row[l].holder \in Processes

\* Whatever is active contends with nothing else that is active, also when its time is over.
ActiveApart ==
  \A l, k \in Active(row) :
    row[l].profile = row[k].profile \/ row[l].attempt = row[k].attempt => l = k

\* What is active is the newest row of its profile.
ActiveIsNewest ==
  \A l \in Active(row), k \in Leases :
    k # l /\ row[k].profile = row[l].profile => row[k].epoch < row[l].epoch

Epochs(f) == {0} \cup {row[l].epoch : l \in {k \in Leases : row[k].profile = f}}

\* The epochs of a profile have a greatest one, although the leases may be infinitely many.
EpochsBounded == \A f \in Profiles : \E m \in Epochs(f) : \A n \in Epochs(f) : m >= n

RowsApart == FreeIsEmpty /\ ActiveApart /\ ActiveIsNewest /\ EpochsBounded

LeaseInvariant ==
  now \in Nat /\ LeaseTypeOK /\ SeatsFit /\ RowsApart /\ ActiveIsKnown

\* The record types of the rows, in the form the provers need for EXCEPT.
LEMMA LeaseTypes ==
  ASSUME LeaseTypeOK
  PROVE  row \in [Leases -> LeaseRecord] /\ seat \in [Processes -> SeatRecord]
         /\ known \in [Processes -> SUBSET Leases]
BY DEF LeaseTypeOK, LeaseRecord, SeatRecord

\* The same, the other way round.
LEMMA LeaseTyped ==
  ASSUME row \in [Leases -> LeaseRecord], seat \in [Processes -> SeatRecord],
         known \in [Processes -> SUBSET Leases]
  PROVE  LeaseTypeOK
BY DEF LeaseTypeOK, LeaseRecord, SeatRecord

\* Nothing is leased at first.
LEMMA LeaseStart == ASSUME now = 0, LeaseInit PROVE LeaseInvariant
<1> USE DEF LeaseInit, NoRow, Idle
<1>1. LeaseTypeOK
  BY DEF LeaseTypeOK
<1>2. \A f \in Profiles : Epochs(f) = {0}
  BY DEF Epochs
<1>3. RowsApart
  BY <1>2 DEF RowsApart, FreeIsEmpty, ActiveApart, ActiveIsNewest, EpochsBounded, Active
<1> QED BY <1>1, <1>3 DEF LeaseInvariant, SeatsFit, ActiveIsKnown, Active

\* The epoch that an acquisition reads is the greatest of its profile.
LEMMA LatestIsGreatest ==
  ASSUME LeaseTypeOK, EpochsBounded, NEW f \in Profiles
  PROVE  /\ Latest(f) \in Nat
         /\ \A l \in Leases : row[l].profile = f => row[l].epoch <= Latest(f)
<1>0. row \in [Leases -> LeaseRecord]
  BY LeaseTypes
<1>1. Epochs(f) \subseteq Nat
  BY <1>0 DEF Epochs, LeaseRecord
<1>2. Latest(f) \in Epochs(f) /\ \A n \in Epochs(f) : Latest(f) >= n
  <2>1. \E m \in Epochs(f) : \A n \in Epochs(f) : m >= n
    BY DEF EpochsBounded
  <2>2. Latest(f) = CHOOSE m \in Epochs(f) : \A n \in Epochs(f) : m >= n
    BY DEF Latest, Epochs, Max
  <2> QED BY <2>1, <2>2
<1>3. \A l \in Leases : row[l].profile = f => row[l].epoch \in Epochs(f)
  BY DEF Epochs
<1> QED BY <1>1, <1>2, <1>3

\* A row that grows old keeps whose it is and its epoch, and stays active or is ended.
Ages(l) ==
  /\ row'[l].holder = row[l].holder /\ row'[l].attempt = row[l].attempt
  /\ row'[l].runtime = row[l].runtime /\ row'[l].profile = row[l].profile
  /\ row'[l].epoch = row[l].epoch
  /\ \/ row'[l].status = row[l].status
     \/ row[l].status = "active" /\ row'[l].status = "expired" /\ row[l].expires <= now
     \/ row[l].status = "active" /\ row'[l].status = "released"

\* Rows that only grow old stay apart.
LEMMA AgingKeepsApart ==
  ASSUME LeaseTypeOK, RowsApart, \A l \in Leases : Ages(l)
  PROVE  RowsApart'
<1>1. \A l \in Leases : l \in Active(row)' => l \in Active(row)
  BY DEF Active, Ages
<1>2. FreeIsEmpty'
  BY DEF RowsApart, FreeIsEmpty, Ages
<1>3. ActiveApart' /\ ActiveIsNewest'
  BY <1>1 DEF RowsApart, ActiveApart, ActiveIsNewest, Ages, Active
<1>4. \A f \in Profiles : Epochs(f)' = Epochs(f)
  BY DEF Epochs, Ages
<1>5. EpochsBounded'
  BY <1>4 DEF RowsApart, EpochsBounded
<1> QED BY <1>2, <1>3, <1>5 DEF RowsApart

\* Marks only end rows whose time is over.
LEMMA ExpiredAges ==
  ASSUME LeaseTypeOK, now \in Nat, NEW S, NEW instant \in Nat, instant <= now,
         row' = Expired(S, instant)
  PROVE  /\ row' \in [Leases -> LeaseRecord]
         /\ \A l \in Leases :
              /\ Ages(l) /\ row'[l].expires = row[l].expires
              /\ row'[l].status \in {row[l].status, "expired"}
<1>0. row \in [Leases -> LeaseRecord]
  BY LeaseTypes
<1>1. ASSUME NEW l \in Leases
      PROVE  /\ row'[l] \in LeaseRecord /\ Ages(l) /\ row'[l].expires = row[l].expires
             /\ row'[l].status \in {row[l].status, "expired"}
  BY <1>0, <1>1 DEF Expired, LeaseRecord, Ages
<1>2. row' \in [Leases -> LeaseRecord]
  BY <1>1 DEF Expired
<1> QED BY <1>1, <1>2

\* What every step owes: the rows age or are inserted, and end only as they may.
EndsFairly ==
  \A l \in Leases : row[l].status = "active" /\ row'[l].status # "active" =>
    \/ row[l].expires <= now /\ row'[l].status = "expired"
    \/ l \in known[row[l].holder] \ known'[row[l].holder]

StepKeeps ==
  row' \in [Leases -> LeaseRecord] /\ seat' \in [Processes -> SeatRecord]
  /\ known' \in [Processes -> SUBSET Leases]
  /\ SeatsFit' /\ RowsApart' /\ ActiveIsKnown' /\ EndsFairly

\* What it takes to change the seat of one process.
LEMMA SeatChanged ==
  ASSUME seat \in [Processes -> SeatRecord], NEW p \in Processes, NEW s \in SeatRecord,
         seat' = [seat EXCEPT ![p] = s]
  PROVE  /\ seat' \in [Processes -> SeatRecord] /\ seat'[p] = s
         /\ \A q \in Processes : q # p => seat'[q] = seat[q]
OBVIOUS

\* An inspection marks rows and takes a seat.
LEMMA InspectKeeps ==
  ASSUME LeaseInvariant, UNCHANGED <<now, known>>, NEW p \in Processes,
         NEW a \in Attempts, NEW r \in Runtimes, NEW f \in Profiles,
         seat[p].pc = "idle", Inspect(p, a, r, f)
  PROVE  StepKeeps
<1>0. /\ row \in [Leases -> LeaseRecord] /\ seat \in [Processes -> SeatRecord]
      /\ known \in [Processes -> SUBSET Leases] /\ now \in Nat /\ LeaseTypeOK
  BY LeaseTypes DEF LeaseInvariant
<1>1. row' = Expired(Contenders(a, f), now)
  BY DEF Inspect
<1>2. /\ row' \in [Leases -> LeaseRecord]
      /\ \A l \in Leases : Ages(l) /\ row'[l].status \in {row[l].status, "expired"}
  BY <1>0, <1>1, ExpiredAges
<1>3. \/ seat' = [seat EXCEPT ![p] = IF @.bundle = None THEN Idle ELSE @]
      \/ \E found \in Leases \cup {None} :
           seat' = [seat EXCEPT ![p] =
             [@ EXCEPT !.pc = "acquiring", !.attempt = a, !.runtime = r, !.profile = f,
                       !.found = found, !.latest = Latest(f), !.at = now]]
  BY DEF Inspect, Contenders, Active
<1>4. Latest(f) \in Nat
  BY LatestIsGreatest DEF LeaseInvariant, RowsApart
<1>5. seat' \in [Processes -> SeatRecord] /\ SeatsFit' /\ seat'[p].pc # "dead"
      /\ \A q \in Processes : q # p => seat'[q] = seat[q]
  <2>1. SeatsFit
    BY DEF LeaseInvariant
  <2>2. CASE seat' = [seat EXCEPT ![p] = IF @.bundle = None THEN Idle ELSE @]
    <3>1. seat'[p] = Idle \/ seat'[p] = seat[p]
      BY <1>0, <2>2
    <3>2. seat' \in [Processes -> SeatRecord]
      BY <1>0, <2>2 DEF Idle, SeatRecord
    <3>3. \A q \in Processes : q # p => seat'[q] = seat[q]
      BY <1>0, <2>2
    <3>4. SeatsFit'
      BY <2>1, <3>1, <3>3 DEF SeatsFit, Idle
    <3> QED BY <3>1, <3>2, <3>3, <3>4 DEF Idle
  <2>3. ASSUME NEW found \in Leases \cup {None},
               seat' = [seat EXCEPT ![p] =
                 [@ EXCEPT !.pc = "acquiring", !.attempt = a, !.runtime = r, !.profile = f,
                           !.found = found, !.latest = Latest(f), !.at = now]]
        PROVE  /\ seat' \in [Processes -> SeatRecord] /\ SeatsFit' /\ seat'[p].pc # "dead"
               /\ \A q \in Processes : q # p => seat'[q] = seat[q]
    <3> DEFINE s == [seat[p] EXCEPT !.pc = "acquiring", !.attempt = a, !.runtime = r,
                       !.profile = f, !.found = found, !.latest = Latest(f), !.at = now]
    <3>0. s \in SeatRecord
      <4>1. seat[p] \in SeatRecord /\ now \in Nat /\ Latest(f) \in Nat
        BY <1>0, <1>4
      <4> QED BY <4>1 DEF SeatRecord
    <3>1. /\ s.pc = "acquiring" /\ s.attempt = a /\ s.runtime = r
          /\ s.profile = f /\ s.at = now
      BY <1>0 DEF SeatRecord
    <3>2. seat' = [seat EXCEPT ![p] = s]
      BY <2>3
    <3> HIDE DEF s
    <3>3. /\ seat' \in [Processes -> SeatRecord] /\ seat'[p] = s
          /\ \A q \in Processes : q # p => seat'[q] = seat[q]
      BY <1>0, <3>0, <3>2, SeatChanged
    <3>4. SeatsFit'
      BY <1>0, <2>1, <3>1, <3>3 DEF SeatsFit
    <3> QED BY <3>1, <3>3, <3>4
  <2> QED BY <1>3, <2>2, <2>3
<1>6. ActiveIsKnown'
  BY <1>0, <1>2, <1>5 DEF LeaseInvariant, ActiveIsKnown, Active, Ages, RowsApart, FreeIsEmpty
<1>7. RowsApart'
  BY <1>0, <1>2, AgingKeepsApart DEF LeaseInvariant
<1>8. EndsFairly
  BY <1>2 DEF EndsFairly, Ages
<1> QED BY <1>0, <1>2, <1>5, <1>6, <1>7, <1>8 DEF StepKeeps

\* A renewal, or the mark that is left where it comes too late.
LEMMA RenewedAges ==
  ASSUME LeaseTypeOK, now \in Nat, NEW l \in Leases, NEW instant \in Nat, instant <= now,
         NEW ttl \in Nat, row' = Renewed(l, instant, ttl)
  PROVE  /\ row' \in [Leases -> LeaseRecord]
         /\ \A k \in Leases : Ages(k) /\ row'[k].status \in {row[k].status, "expired"}
<1>0. row \in [Leases -> LeaseRecord]
  BY LeaseTypes
<1>1. CASE Renewable(l, instant, ttl)
  BY <1>0, <1>1 DEF Renewed, Ages, LeaseRecord
<1>2. CASE ~Renewable(l, instant, ttl)
  BY <1>2, ExpiredAges DEF Renewed
<1> QED BY <1>1, <1>2

\* The seat that a process keeps when it fails, or leaves an acquisition behind.
LEMMA AgingKeeps ==
  ASSUME LeaseInvariant, row' \in [Leases -> LeaseRecord],
         \A l \in Leases : Ages(l) /\ row'[l].status \in {row[l].status, "expired"},
         seat' \in [Processes -> SeatRecord], SeatsFit',
         known' \in [Processes -> SUBSET Leases],
         \A q \in Processes : seat[q].pc = "dead" => seat'[q].pc = "dead",
         \A q \in Processes : seat'[q].pc = "dead" \/ known[q] \subseteq known'[q]
  PROVE  StepKeeps
<1>1. RowsApart'
  BY AgingKeepsApart DEF LeaseInvariant
<1>2. ActiveIsKnown'
  BY DEF LeaseInvariant, ActiveIsKnown, Active, Ages, RowsApart, FreeIsEmpty
<1>3. EndsFairly
  BY DEF EndsFairly, Ages
<1> QED BY <1>1, <1>2, <1>3 DEF StepKeeps

\* A heartbeat of any length touches the row of the bundle alone.
LEMMA HeartbeatKeeps ==
  ASSUME LeaseInvariant, UNCHANGED now, NEW p \in Processes, NEW ttl \in Nat, Heartbeat(p, ttl)
  PROVE  StepKeeps
<1>0. seat \in [Processes -> SeatRecord] /\ known \in [Processes -> SUBSET Leases]
      /\ now \in Nat /\ LeaseTypeOK
  BY LeaseTypes DEF LeaseInvariant
<1>1. seat[p].bundle \in Leases
  BY <1>0 DEF Heartbeat, SeatRecord
<1>2. /\ row' \in [Leases -> LeaseRecord]
      /\ \A k \in Leases : Ages(k) /\ row'[k].status \in {row[k].status, "expired"}
  BY <1>0, <1>1, RenewedAges DEF Heartbeat
<1>3. SeatsFit'
  BY DEF Heartbeat, LeaseInvariant, SeatsFit
<1> QED BY <1>0, <1>2, <1>3, AgingKeeps DEF Heartbeat

\* The seat of a process that remembers a lease, or whose turn fails.
LEMMA RememberSits ==
  ASSUME LeaseInvariant, UNCHANGED now, NEW p \in Processes, NEW l \in Leases,
         seat[p].pc = "acquiring", Remember(p, l)
  PROVE  /\ seat' \in [Processes -> SeatRecord] /\ SeatsFit' /\ seat'[p].pc = "idle"
         /\ \A q \in Processes : seat[q].pc = "dead" => seat'[q].pc = "dead"
<1>0. seat \in [Processes -> SeatRecord] /\ SeatsFit
  BY LeaseTypes DEF LeaseInvariant
<1>1. /\ seat'[p] \in SeatRecord /\ seat'[p].pc = "idle" /\ seat'[p].attempt = seat[p].attempt
      /\ seat'[p].runtime = seat[p].runtime /\ seat'[p].profile = seat[p].profile
  <2>1. seat'[p] = [seat[p] EXCEPT !.pc = "idle", !.bundle = l, !.found = None, !.latest = 0, !.at = 0]
    BY <1>0 DEF Remember
  <2>2. seat[p] \in SeatRecord
    BY <1>0
  <2>3. seat'[p] = [pc |-> "idle", attempt |-> seat[p].attempt, bundle |-> l,
                    runtime |-> seat[p].runtime, profile |-> seat[p].profile,
                    found |-> None, latest |-> 0, at |-> 0]
    BY <2>1, <2>2 DEF SeatRecord
  <2>4. /\ seat[p].attempt \in Attempts \cup {None} /\ seat[p].runtime \in Runtimes \cup {None}
        /\ seat[p].profile \in Profiles \cup {None}
    BY <2>2 DEF SeatRecord
  <2> QED BY <2>3, <2>4 DEF SeatRecord
<1>2. \A q \in Processes : q # p => seat'[q] = seat[q]
  BY <1>0 DEF Remember
<1>3. seat' \in [Processes -> SeatRecord]
  BY <1>0, <1>1, <1>2 DEF Remember
<1>4. SeatsFit'
  BY <1>0, <1>1, <1>2 DEF SeatsFit
<1> QED BY <1>1, <1>2, <1>3, <1>4

\* The same for a failed turn.
LEMMA FailSits ==
  ASSUME LeaseInvariant, UNCHANGED now, NEW p \in Processes, seat[p].pc = "acquiring", Fail(p)
  PROVE  /\ seat' \in [Processes -> SeatRecord] /\ SeatsFit'
         /\ \A q \in Processes : seat[q].pc = "dead" => seat'[q].pc = "dead"
<1>0. seat \in [Processes -> SeatRecord] /\ SeatsFit
  BY LeaseTypes DEF LeaseInvariant
<1> DEFINE s == IF seat[p].bundle = None THEN Idle
                 ELSE [seat[p] EXCEPT !.pc = "idle", !.found = None, !.latest = 0, !.at = 0]
<1>1. /\ s \in SeatRecord /\ s.pc = "idle"
      /\ s.bundle # None => /\ s.attempt = seat[p].attempt /\ s.runtime = seat[p].runtime
                            /\ s.profile = seat[p].profile /\ seat[p].bundle # None
  <2>1. seat[p] \in SeatRecord
    BY <1>0
  <2>2. CASE seat[p].bundle = None
    BY <2>2 DEF Idle, SeatRecord
  <2>3. CASE seat[p].bundle # None
    BY <2>1, <2>3 DEF SeatRecord
  <2> QED BY <2>2, <2>3
<1>2. seat' = [seat EXCEPT ![p] = s]
  BY DEF Fail
<1> HIDE DEF s
<1>3. /\ seat' \in [Processes -> SeatRecord] /\ seat'[p] = s
      /\ \A q \in Processes : q # p => seat'[q] = seat[q]
  BY <1>0, <1>1, <1>2, SeatChanged
<1>4. SeatsFit'
  BY <1>0, <1>1, <1>3 DEF SeatsFit
<1> QED BY <1>1, <1>3, <1>4

\* A found row is renewed and remembered, or the turn fails.
LEMMA RenewFoundKeeps ==
  ASSUME LeaseInvariant, UNCHANGED now, NEW p \in Processes, RenewFound(p)
  PROVE  StepKeeps
<1>0. seat \in [Processes -> SeatRecord] /\ known \in [Processes -> SUBSET Leases]
      /\ now \in Nat /\ LeaseTypeOK
  BY LeaseTypes DEF LeaseInvariant
<1> DEFINE l == seat[p].found
<1>1. l \in Leases /\ seat[p].at \in Nat /\ seat[p].at <= now /\ seat[p].pc = "acquiring"
  BY <1>0 DEF RenewFound, SeatRecord, LeaseInvariant, SeatsFit
<1>2. /\ row' \in [Leases -> LeaseRecord]
      /\ \A k \in Leases : Ages(k) /\ row'[k].status \in {row[k].status, "expired"}
  BY <1>0, <1>1, RenewedAges DEF RenewFound
<1>3. \/ Remember(p, l)
      \/ Fail(p)
  BY DEF RenewFound
<1>4. seat' \in [Processes -> SeatRecord] /\ SeatsFit'
      /\ \A q \in Processes : seat[q].pc = "dead" => seat'[q].pc = "dead"
  <2>1. CASE Remember(p, l)
    BY <1>0, <1>1, <2>1, RememberSits
  <2>2. CASE Fail(p)
    BY <1>0, <1>1, <2>2, FailSits
  <2> QED BY <1>3, <2>1, <2>2
<1>5. known' \in [Processes -> SUBSET Leases]
      /\ \A q \in Processes : known[q] \subseteq known'[q]
  BY <1>0, <1>1, <1>3 DEF Remember, Fail
<1> QED BY <1>2, <1>4, <1>5, AgingKeeps

\* What Insert makes of the rows.
Inserts(p, l) ==
  row' = [Expired(Contenders(seat[p].attempt, seat[p].profile), seat[p].at)
            EXCEPT ![l] = [status |-> "active", holder |-> p, attempt |-> seat[p].attempt,
                           runtime |-> seat[p].runtime, profile |-> seat[p].profile,
                           epoch |-> seat[p].latest + 1,
                           expires |-> seat[p].at + TurnTtl]]

\* The fencing step: a row is inserted only where no contender is active any more and the
\* greatest epoch of the profile is still the one that was read.
LEMMA InsertedApart ==
  ASSUME LeaseInvariant, UNCHANGED now, NEW p \in Processes, seat[p].pc = "acquiring",
         InsertAllowed(p), NEW l \in Leases, row[l].status = "free", Inserts(p, l)
  PROVE  /\ row' \in [Leases -> LeaseRecord] /\ RowsApart'
         /\ row'[l].holder = p
         /\ \A k \in Leases : k # l => Ages(k) /\ row'[k].status \in {row[k].status, "expired"}
<1> DEFINE a == seat[p].attempt
           f == seat[p].profile
           E == Expired(Contenders(a, f), seat[p].at)
           new == [status |-> "active", holder |-> p, attempt |-> a, runtime |-> seat[p].runtime,
                   profile |-> f, epoch |-> seat[p].latest + 1, expires |-> seat[p].at + TurnTtl]
<1>0. /\ row \in [Leases -> LeaseRecord] /\ seat[p] \in SeatRecord
      /\ a \in Attempts /\ f \in Profiles /\ seat[p].runtime \in Runtimes
      /\ seat[p].at \in Nat /\ seat[p].latest \in Nat /\ seat[p].at <= now /\ now \in Nat
  <2>1. row \in [Leases -> LeaseRecord] /\ seat[p] \in SeatRecord
    BY LeaseTypes DEF LeaseInvariant
  <2> QED BY <2>1 DEF LeaseInvariant, SeatsFit, SeatRecord
<1>1. \A k \in Leases :
        /\ E[k] \in LeaseRecord
        /\ E[k].holder = row[k].holder /\ E[k].attempt = row[k].attempt
        /\ E[k].runtime = row[k].runtime /\ E[k].profile = row[k].profile
        /\ E[k].epoch = row[k].epoch
        /\ \/ E[k].status = row[k].status
           \/ row[k].status = "active" /\ E[k].status = "expired" /\ row[k].expires <= now
  BY <1>0 DEF Expired, LeaseRecord
<1>2. new \in LeaseRecord
  BY <1>0 DEF LeaseRecord, LeaseAssumption
<1>3. /\ row' = [E EXCEPT ![l] = new]
      /\ DOMAIN E = Leases
  BY DEF Expired, Inserts
<1>4. \A k \in Leases : E[k].status = "active" => row[k].profile # f /\ row[k].attempt # a
  <2>1. Active(E) \cap Contenders(a, f) = {}
    BY DEF InsertAllowed
  <2> QED BY <2>1 DEF Active, Contenders
<1>5. /\ \A k \in Leases : row[k].profile = f => row[k].epoch <= seat[p].latest
  <2>1. Latest(f) = seat[p].latest
    BY DEF InsertAllowed
  <2>2. \A k \in Leases : row[k].profile = f => row[k].epoch <= Latest(f)
    BY <1>0, LatestIsGreatest DEF LeaseInvariant, RowsApart
  <2> QED BY <2>1, <2>2
<1>6. /\ new.status = "active" /\ new.holder = p /\ new.attempt = a /\ new.profile = f
      /\ new.epoch = seat[p].latest + 1
  OBVIOUS
<1> HIDE DEF E, new, a, f
<1>7. row'[l] = new /\ \A k \in Leases : k # l => row'[k] = E[k]
  BY <1>3
<1>8. row' \in [Leases -> LeaseRecord]
  BY <1>1, <1>2, <1>3, <1>7
<1>9. \A k \in Leases : k # l => Ages(k) /\ row'[k].status \in {row[k].status, "expired"}
  BY <1>1, <1>7 DEF Ages
<1>10. row[l].profile = None
  BY DEF LeaseInvariant, RowsApart, FreeIsEmpty
<1>11. FreeIsEmpty'
  BY <1>1, <1>6, <1>7 DEF FreeIsEmpty, LeaseInvariant, RowsApart
<1>12. \A k \in Active(row)' : k # l => k \in Active(row) /\ E[k].status = "active"
  BY <1>1, <1>7 DEF Active
<1>13. ActiveApart'
  <2> SUFFICES ASSUME NEW j \in Active(row)', NEW k \in Active(row)', j # k,
                      row'[j].profile = row'[k].profile \/ row'[j].attempt = row'[k].attempt
               PROVE  FALSE
    BY DEF ActiveApart
  <2>0. j \in Leases /\ k \in Leases
    BY DEF Active
  <2>1. CASE j # l /\ k # l
    BY SMTT(30), <1>1, <1>7, <1>12, <2>0, <2>1 DEF LeaseInvariant, RowsApart, ActiveApart
  <2>2. CASE j = l
    BY SMTT(30), <1>1, <1>4, <1>6, <1>7, <1>12, <2>0, <2>2
  <2>3. CASE k = l
    BY SMTT(30), <1>1, <1>4, <1>6, <1>7, <1>12, <2>0, <2>3
  <2> QED BY <2>1, <2>2, <2>3
<1>14. ActiveIsNewest'
  <2> SUFFICES ASSUME NEW j \in Active(row)', NEW k \in Leases, j # k,
                      row'[k].profile = row'[j].profile
               PROVE  row'[k].epoch < row'[j].epoch
    BY DEF ActiveIsNewest
  <2>0. j \in Leases
    BY DEF Active
  <2>1. CASE j # l /\ k # l
    BY <1>1, <1>7, <1>12, <2>0, <2>1 DEF LeaseInvariant, RowsApart, ActiveIsNewest
  <2>2. CASE j = l
    <3>1. row[k].profile = f /\ row'[k].epoch = row[k].epoch /\ row[k].epoch \in Nat
      BY <1>0, <1>1, <1>6, <1>7, <2>2 DEF LeaseRecord
    <3> QED BY <1>0, <1>5, <1>6, <1>7, <2>2, <3>1
  <2>3. CASE k = l
    BY <1>1, <1>4, <1>6, <1>7, <1>12, <2>0, <2>3
  <2> QED BY <2>1, <2>2, <2>3
<1>15. EpochsBounded'
  <2> SUFFICES ASSUME NEW g \in Profiles PROVE (\E m \in Epochs(g) : \A n \in Epochs(g) : m >= n)'
    BY DEF EpochsBounded
  <2>1. CASE g # f
    <3>1. \A k \in Leases : row'[k].profile = g <=> row[k].profile = g
      BY <1>1, <1>6, <1>7, <1>10, <2>1
    <3>2. \A k \in Leases : row'[k].profile = g => row'[k].epoch = row[k].epoch
      BY <1>1, <1>6, <1>7, <2>1
    <3>3. Epochs(g)' = Epochs(g)
      BY <3>1, <3>2 DEF Epochs
    <3> QED BY <3>3 DEF LeaseInvariant, RowsApart, EpochsBounded
  <2>2. CASE g = f
    <3>1. \A k \in Leases : row'[k].profile = f =>
            row'[k].epoch \in Nat /\ row'[k].epoch <= seat[p].latest + 1
      <4>1. ASSUME NEW k \in Leases, k # l, row'[k].profile = f
            PROVE  row'[k].epoch \in Nat /\ row'[k].epoch <= seat[p].latest + 1
        <5>1. row[k].profile = f /\ row'[k].epoch = row[k].epoch /\ row[k].epoch \in Nat
          BY <1>0, <1>1, <1>7, <4>1 DEF LeaseRecord
        <5> QED BY <1>0, <1>5, <5>1
      <4> QED BY <1>0, <1>6, <1>7, <4>1
    <3>2. seat[p].latest + 1 \in Epochs(g)'
      BY <1>6, <1>7, <2>2 DEF Epochs
    <3>3. \A n \in Epochs(g)' : seat[p].latest + 1 >= n
      BY SMTT(30), <1>0, <2>2, <3>1 DEF Epochs
    <3> QED BY <3>2, <3>3
  <2> QED BY <2>1, <2>2
<1> QED BY <1>6, <1>7, <1>8, <1>9, <1>11, <1>13, <1>14, <1>15 DEF RowsApart

\* An insertion that is refused leaves the rows alone.
LEMMA InsertKeeps ==
  ASSUME LeaseInvariant, UNCHANGED now, NEW p \in Processes, Insert(p)
  PROVE  StepKeeps
<1>0. /\ row \in [Leases -> LeaseRecord] /\ seat \in [Processes -> SeatRecord]
      /\ known \in [Processes -> SUBSET Leases] /\ seat[p].pc = "acquiring"
  BY LeaseTypes DEF LeaseInvariant, Insert
<1>1. CASE Fail(p) /\ UNCHANGED row
  <2>1. \A k \in Leases : Ages(k) /\ row'[k].status \in {row[k].status, "expired"}
    BY <1>1 DEF Ages
  <2> QED BY <1>0, <1>1, <2>1, FailSits, AgingKeeps DEF Fail
<1>2. ASSUME NEW l \in Leases, row[l].status = "free", InsertAllowed(p), Remember(p, l),
             Inserts(p, l)
      PROVE  StepKeeps
  <2>1. /\ row' \in [Leases -> LeaseRecord] /\ RowsApart' /\ row'[l].holder = p
        /\ \A k \in Leases : k # l => Ages(k) /\ row'[k].status \in {row[k].status, "expired"}
    BY <1>0, <1>2, InsertedApart
  <2>2. /\ seat' \in [Processes -> SeatRecord] /\ SeatsFit' /\ seat'[p].pc = "idle"
        /\ \A q \in Processes : seat[q].pc = "dead" => seat'[q].pc = "dead"
    BY <1>0, <1>2, RememberSits
  <2>3. /\ known' \in [Processes -> SUBSET Leases] /\ l \in known'[p]
        /\ \A q \in Processes : known[q] \subseteq known'[q]
    BY <1>0, <1>2 DEF Remember
  <2>4. ActiveIsKnown'
    <3> SUFFICES ASSUME NEW k \in Active(row)'
                 PROVE  seat'[row'[k].holder].pc = "dead" \/ k \in known'[row'[k].holder]
      BY DEF ActiveIsKnown
    <3>1. CASE k = l
      BY <2>1, <2>3, <3>1
    <3>2. CASE k # l
      <4>1. k \in Active(row) /\ row'[k].holder = row[k].holder
        BY <2>1, <3>2 DEF Active, Ages
      <4>2. row[k].holder \in Processes
        BY <4>1 DEF Active, LeaseInvariant, RowsApart, FreeIsEmpty
      <4> QED BY <2>2, <2>3, <4>1, <4>2 DEF LeaseInvariant, ActiveIsKnown
    <3> QED BY <3>1, <3>2
  <2>5. EndsFairly
    BY <1>2, <2>1 DEF EndsFairly, Ages
  <2> QED BY <2>1, <2>2, <2>3, <2>4, <2>5 DEF StepKeeps
<1> QED BY <1>1, <1>2 DEF Insert, Inserts

\* A release that succeeds ends exactly the rows of its process, which then forgets them;
\* one that does not succeed at most marks rows whose time is over.
LEMMA ReleaseEnds ==
  ASSUME LeaseInvariant, UNCHANGED now, NEW p \in Processes, NEW T \in SUBSET Leases,
         seat[p].pc # "dead", ReleaseScope(p, T, Expired(Leases, now))
  PROVE  /\ row' \in [Leases -> LeaseRecord] /\ \A l \in Leases : Ages(l)
         /\ known' \in [Processes -> SUBSET Leases]
         /\ \A q \in Processes : q # p => known'[q] = known[q]
         /\ \A l \in known[p] : l \in known'[p] \/ row'[l].status = "released"
         /\ EndsFairly
<1> DEFINE rows == Expired(Leases, now)
<1>0. /\ row \in [Leases -> LeaseRecord] /\ known \in [Processes -> SUBSET Leases]
      /\ now \in Nat
  BY LeaseTypes DEF LeaseInvariant
<1>1. \A l \in Leases :
        /\ rows[l] \in LeaseRecord
        /\ rows[l].holder = row[l].holder /\ rows[l].attempt = row[l].attempt
        /\ rows[l].runtime = row[l].runtime /\ rows[l].profile = row[l].profile
        /\ rows[l].epoch = row[l].epoch
        /\ \/ rows[l].status = row[l].status
           \/ row[l].status = "active" /\ rows[l].status = "expired" /\ row[l].expires <= now
  BY <1>0 DEF Expired, LeaseRecord
<1>2. rows \in [Leases -> LeaseRecord]
  BY <1>1 DEF Expired
<1>3. known' = [known EXCEPT ![p] = IF \A l \in T : row'[l].status = "released" THEN @ \ T ELSE @]
  BY DEF ReleaseScope
<1>4. /\ known' \in [Processes -> SUBSET Leases]
      /\ \A q \in Processes : q # p => known'[q] = known[q]
      /\ \A l \in known[p] : l \in known'[p] \/ row'[l].status = "released"
  BY <1>0, <1>3
<1>5. CASE row' = rows \/ row' = row
  <2>1. row' \in [Leases -> LeaseRecord]
    BY <1>0, <1>2, <1>5
  <2>2. \A l \in Leases : Ages(l) /\ row'[l].status \in {row[l].status, "expired"}
    BY <1>1, <1>5 DEF Ages
  <2>3. EndsFairly
    BY <2>2 DEF EndsFairly, Ages
  <2> QED BY <1>4, <2>1, <2>2, <2>3
<1>6. CASE ScopeIs(p, T, rows) /\ row' = Released(rows)
  <2>1. \A l \in Leases :
          /\ row'[l] \in LeaseRecord
          /\ row'[l].holder = rows[l].holder /\ row'[l].attempt = rows[l].attempt
          /\ row'[l].runtime = rows[l].runtime /\ row'[l].profile = rows[l].profile
          /\ row'[l].epoch = rows[l].epoch
          /\ row'[l].status = IF rows[l].status = "active" THEN "released" ELSE rows[l].status
    BY <1>1, <1>2, <1>6 DEF Released, Active, LeaseRecord
  <2>2. row' \in [Leases -> LeaseRecord]
    BY <1>6, <2>1 DEF Released
  <2>3. \A l \in Leases : Ages(l)
    BY <1>1, <2>1 DEF Ages
  <2>4. T = {l \in Leases : rows[l].status = "active"} /\ \A l \in T : rows[l].holder = p
    BY <1>6 DEF ScopeIs, Active
  <2>5. known'[p] = known[p] \ T
    BY <1>0, <1>3, <2>1, <2>4
  <2>6. ASSUME NEW l \in Leases, row[l].status = "active", row'[l].status # "active"
        PROVE  \/ row[l].expires <= now /\ row'[l].status = "expired"
               \/ l \in known[row[l].holder] \ known'[row[l].holder]
    <3>1. CASE l \in T
      <4>1. row[l].holder = p
        BY <1>1, <2>4, <3>1
      <4>2. l \in known[p]
        BY <2>6, <4>1 DEF LeaseInvariant, ActiveIsKnown, Active
      <4> QED BY <2>5, <3>1, <4>1, <4>2
    <3>2. CASE l \notin T
      BY <1>1, <2>1, <2>4, <2>6, <3>2
    <3> QED BY <3>1, <3>2
  <2>7. EndsFairly
    BY <2>6 DEF EndsFairly
  <2> QED BY <1>4, <2>2, <2>3, <2>7
<1> QED BY <1>5, <1>6 DEF ReleaseScope

\* The three steps that release: the end of a job, the cleanup and the switch.
LEMMA ReleasersKeep ==
  ASSUME LeaseInvariant, UNCHANGED now, NEW p \in Processes,
         EndJob(p) \/ CleanupWorker(p) \/ Switch(p)
  PROVE  StepKeeps
<1>0. /\ row \in [Leases -> LeaseRecord] /\ seat \in [Processes -> SeatRecord]
      /\ known \in [Processes -> SUBSET Leases] /\ seat[p] \in SeatRecord /\ LeaseTypeOK
      /\ seat[p].pc = "idle" /\ known[p] \in SUBSET Leases
  BY LeaseTypes DEF LeaseInvariant, EndJob, CleanupWorker, Switch
<1>1. PICK T \in SUBSET Leases : ReleaseScope(p, T, Expired(Leases, now))
  <2>1. EndJob(p) => {seat[p].bundle} \in SUBSET Leases
    BY <1>0 DEF EndJob, SeatRecord
  <2> QED BY <1>0, <2>1 DEF EndJob, CleanupWorker, Switch
<1>2. /\ row' \in [Leases -> LeaseRecord] /\ \A l \in Leases : Ages(l)
      /\ known' \in [Processes -> SUBSET Leases]
      /\ \A q \in Processes : q # p => known'[q] = known[q]
      /\ \A l \in known[p] : l \in known'[p] \/ row'[l].status = "released"
      /\ EndsFairly
  BY <1>0, <1>1, ReleaseEnds
<1>3. \/ seat' = seat
      \/ seat' = [seat EXCEPT ![p] = Idle]
      \/ seat' = [seat EXCEPT ![p].bundle = None]
  BY <1>0 DEF EndJob, CleanupWorker, Switch, SeatRecord
<1>4. /\ seat' \in [Processes -> SeatRecord]
      /\ \A q \in Processes : q # p => seat'[q] = seat[q]
      /\ seat'[p].pc = "idle"
      /\ seat'[p] = seat[p] \/ seat'[p].bundle = None
  BY <1>0, <1>3 DEF Idle, SeatRecord
<1>5. SeatsFit'
  BY <1>4 DEF LeaseInvariant, SeatsFit
<1>6. RowsApart'
  BY <1>0, <1>2, AgingKeepsApart DEF LeaseInvariant
<1>7. ActiveIsKnown'
  <2> SUFFICES ASSUME NEW l \in Active(row)'
               PROVE  seat'[row'[l].holder].pc = "dead" \/ l \in known'[row'[l].holder]
    BY DEF ActiveIsKnown
  <2>1. l \in Active(row) /\ l \in Leases /\ row'[l].holder = row[l].holder /\ row'[l].status = "active"
    BY <1>2 DEF Active, Ages
  <2>2. row[l].holder \in Processes
    BY <2>1 DEF Active, LeaseInvariant, RowsApart, FreeIsEmpty
  <2>3. seat[row[l].holder].pc = "dead" \/ l \in known[row[l].holder]
    BY <2>1 DEF LeaseInvariant, ActiveIsKnown
  <2> QED BY <1>0, <1>2, <1>4, <2>1, <2>2, <2>3
<1> QED BY <1>2, <1>4, <1>5, <1>6, <1>7 DEF StepKeeps

\* Whoever dies forgets everything, and is not asked any more.
LEMMA LeaseCrashKeeps ==
  ASSUME LeaseInvariant, UNCHANGED now, NEW p \in Processes, LeaseCrash(p)
  PROVE  StepKeeps
<1>0. /\ row \in [Leases -> LeaseRecord] /\ seat \in [Processes -> SeatRecord]
      /\ known \in [Processes -> SUBSET Leases]
  BY LeaseTypes DEF LeaseInvariant
<1>1. \A l \in Leases : Ages(l) /\ row'[l].status \in {row[l].status, "expired"}
  BY DEF LeaseCrash, Ages
<1>2. /\ seat' \in [Processes -> SeatRecord]
      /\ \A q \in Processes : q # p => seat'[q] = seat[q]
      /\ seat'[p].pc = "dead" /\ seat'[p].bundle = None
  BY <1>0 DEF LeaseCrash, Idle, SeatRecord
<1>3. SeatsFit'
  BY <1>2 DEF LeaseInvariant, SeatsFit
<1>4. known' \in [Processes -> SUBSET Leases] /\ \A q \in Processes : q # p => known[q] \subseteq known'[q]
  BY <1>0 DEF LeaseCrash
<1> QED BY <1>0, <1>1, <1>2, <1>3, <1>4, AgingKeeps DEF LeaseCrash

\* Every step of a holder keeps the invariant and ends rows only as it may.
LEMMA HolderKeeps ==
  ASSUME LeaseInvariant, UNCHANGED now, NEW p \in Processes, HolderStep(p)
  PROVE  LeaseInvariant' /\ EndsFairly
<1>0. seat \in [Processes -> SeatRecord]
  BY LeaseTypes DEF LeaseInvariant
<1>8. StepKeeps
  <2>1. ASSUME NEW a \in Attempts, NEW r \in Runtimes, NEW f \in Profiles, StartJob(p, a, r, f)
        PROVE  StepKeeps
    <3>1. seat[p].pc = "idle" /\ Inspect(p, a, r, f) /\ UNCHANGED <<now, known>>
      BY <2>1 DEF StartJob
    <3> QED BY <3>1, InspectKeeps
  <2>2. CASE Reacquire(p)
    <3>1. seat[p].attempt \in Attempts /\ seat[p].runtime \in Runtimes /\ seat[p].profile \in Profiles
      BY <1>0, <2>2 DEF Reacquire, LeaseInvariant, SeatsFit, SeatRecord
    <3>2. /\ seat[p].pc = "idle" /\ UNCHANGED <<now, known>>
          /\ Inspect(p, seat[p].attempt, seat[p].runtime, seat[p].profile)
      BY <2>2 DEF Reacquire
    <3> QED BY <3>1, <3>2, InspectKeeps
  <2>3. CASE Insert(p)
    BY <2>3, InsertKeeps
  <2>4. CASE RenewFound(p)
    BY <2>4, RenewFoundKeeps
  <2>5. CASE OperatorHandoff(p) \/ AdvancePage(p) \/ ContinueSame(p)
    <3>1. TurnTtl \in Nat /\ HandoffTtl \in Nat /\ DefaultTtl \in Nat
      BY LeaseAssumption DEF LeaseAssumption
    <3>2. \E ttl \in {TurnTtl, HandoffTtl, DefaultTtl} : Heartbeat(p, ttl)
      BY <2>5 DEF OperatorHandoff, AdvancePage, ContinueSame
    <3> QED BY <3>1, <3>2, HeartbeatKeeps
  <2>6. CASE EndJob(p) \/ CleanupWorker(p) \/ Switch(p)
    BY <2>6, ReleasersKeep
  <2>7. CASE LeaseCrash(p)
    BY <2>7, LeaseCrashKeeps
  <2> QED BY <2>1, <2>2, <2>3, <2>4, <2>5, <2>6, <2>7 DEF HolderStep
<1>9. LeaseTypeOK'
  BY <1>8 DEF StepKeeps, LeaseTypeOK, LeaseRecord, SeatRecord
<1> QED BY <1>8, <1>9 DEF StepKeeps, LeaseInvariant

\* So does the clock.
LEMMA LeaseStepKeeps ==
  ASSUME LeaseInvariant, [LeaseNext]_<<now, leaseVars>>
  PROVE  LeaseInvariant' /\ (EndsFairly \/ UNCHANGED leaseVars)
<1>1. ASSUME NEW p \in Processes, HolderStep(p), UNCHANGED now PROVE LeaseInvariant' /\ EndsFairly
  BY <1>1, HolderKeeps
<1>2. CASE UNCHANGED leaseVars /\ (Tick \/ UNCHANGED now)
  <2>1. now' \in Nat /\ now <= now' /\ seat' = seat /\ row' = row /\ known' = known
    BY <1>2 DEF Tick, leaseVars, LeaseInvariant
  <2>2. SeatsFit'
    <3>1. \A p \in Processes : seat[p].at \in Nat
      BY LeaseTypes DEF LeaseInvariant, SeatRecord
    <3> QED BY <2>1, <3>1 DEF SeatsFit, LeaseInvariant
  <2>3. RowsApart'
    BY <2>1 DEF LeaseInvariant, RowsApart, FreeIsEmpty, ActiveApart, ActiveIsNewest, EpochsBounded,
       Epochs, Active
  <2>4. LeaseTypeOK' /\ ActiveIsKnown'
    BY <2>1 DEF LeaseInvariant, LeaseTypeOK, ActiveIsKnown, Active
  <2> QED BY <1>2, <2>1, <2>2, <2>3, <2>4 DEF LeaseInvariant
<1> QED BY <1>1, <1>2 DEF LeaseNext, leaseVars

-----------------------------------------------------------------------------
(* A live lease is a lock *)

\* The live leases of a profile (part "profile") or of an attempt's page (part "attempt").
LeasesOn(part, x) == {l \in Leases : LiveRow(l) /\ row[l][part] = x}

\* The lock that these leases are for one profile or page: its users are the leases.
LeaseLock(part, x) == INSTANCE Exclusion WITH
  Resources <- {x}, Users <- Leases, users <- [y \in {x} |-> LeasesOn(part, x)]

\* At most one live lease is on a profile or page.
LEMMA OneOn ==
  ASSUME LeaseInvariant, NEW part \in {"profile", "attempt"}, NEW x,
         NEW l \in LeasesOn(part, x), NEW k \in LeasesOn(part, x)
  PROVE  l = k
BY DEF LeasesOn, LiveRow, LeaseInvariant, RowsApart, ActiveApart, Active

\* A step by which no lease comes to life leaves the lock or keeps it.
LEMMA NoneAwakes ==
  ASSUME LeaseInvariant, NEW part \in {"profile", "attempt"}, NEW x,
         \A l \in Leases : LiveRow(l)' => LiveRow(l) /\ row'[l][part] = row[l][part]
  PROVE  LeaseLock(part, x)!Next \/ LeasesOn(part, x)' = LeasesOn(part, x)
<1>1. LeasesOn(part, x)' \subseteq LeasesOn(part, x)
  BY DEF LeasesOn
<1>2. ASSUME NEW l \in LeasesOn(part, x), l \notin LeasesOn(part, x)'
      PROVE  LeaseLock(part, x)!Next
  <2>1. l \in Leases
    BY DEF LeasesOn
  <2>2. LeasesOn(part, x)' = LeasesOn(part, x) \ {l}
    BY <1>1, <1>2, OneOn
  <2>3. LeaseLock(part, x)!Leave(l)
    BY <2>2 DEF LeaseLock!Leave
  <2> QED BY <2>1, <2>3 DEF LeaseLock!Next
<1> QED BY <1>1, <1>2

\* A step that ends no live lease enters the lock or keeps it.
LEMMA NoneEnds ==
  ASSUME LeaseInvariant', NEW part \in {"profile", "attempt"}, NEW x,
         \A l \in Leases : LiveRow(l) => LiveRow(l)' /\ row'[l][part] = row[l][part]
  PROVE  LeaseLock(part, x)!Next \/ LeasesOn(part, x)' = LeasesOn(part, x)
<1>1. LeasesOn(part, x) \subseteq LeasesOn(part, x)'
  BY DEF LeasesOn
<1>2. ASSUME NEW l \in LeasesOn(part, x)', l \notin LeasesOn(part, x)
      PROVE  LeaseLock(part, x)!Next
  <2>1. l \in Leases
    BY <1>2 DEF LeasesOn
  <2>2. \A j, k \in LeasesOn(part, x)' : j = k
    BY DEF LeasesOn, LiveRow, LeaseInvariant, RowsApart, ActiveApart, Active
  <2>3. LeasesOn(part, x)' = {l} /\ LeasesOn(part, x) = {}
    BY <1>1, <1>2, <2>2
  <2>4. LeaseLock(part, x)!Enter(l, {x})
    BY <2>3 DEF LeaseLock!Enter
  <2> QED BY <2>1, <2>4 DEF LeaseLock!Next
<1> QED BY <1>1, <1>2

\* Inspections, releases, a crash and the clock bring no lease to life: they mark and
\* release rows, and no row's time is put off.
LEMMA EndersOnlyEnd ==
  ASSUME LeaseInvariant, NEW p \in Processes, UNCHANGED now,
         \/ \E a, r, f : Inspect(p, a, r, f)
         \/ EndJob(p) \/ CleanupWorker(p) \/ Switch(p) \/ LeaseCrash(p),
         NEW l \in Leases, LiveRow(l)'
  PROVE  LiveRow(l) /\ row'[l].profile = row[l].profile /\ row'[l].attempt = row[l].attempt
<1>0. row \in [Leases -> LeaseRecord] /\ row[l] \in LeaseRecord
  BY LeaseTypes DEF LeaseInvariant
<1>1. CASE row' = row
  BY <1>1 DEF LiveRow
<1>2. ASSUME NEW S, row' = Expired(S, now)
      PROVE  LiveRow(l) /\ row'[l].profile = row[l].profile /\ row'[l].attempt = row[l].attempt
  BY <1>0, <1>2 DEF Expired, LeaseRecord, LiveRow
<1>3. row' # Released(Expired(Leases, now))
  <2>1. Expired(Leases, now)[l] \in LeaseRecord
    BY <1>0 DEF Expired, LeaseRecord
  <2> QED BY <2>1 DEF Released, Active, LeaseRecord, LiveRow
<1>4. \/ row' = row \/ row' = Released(Expired(Leases, now))
      \/ \E S : row' = Expired(S, now)
  BY DEF Inspect, EndJob, CleanupWorker, Switch, LeaseCrash, ReleaseScope
<1> QED BY <1>1, <1>2, <1>3, <1>4

\* Renewals and insertions end no live lease, although they may go by a reading of the
\* clock that is old: an old reading only spares rows that a new one would mark.
LEMMA KeepersEndNone ==
  ASSUME LeaseInvariant, NEW p \in Processes, UNCHANGED now,
         \/ Insert(p) \/ RenewFound(p)
         \/ OperatorHandoff(p) \/ AdvancePage(p) \/ ContinueSame(p),
         NEW l \in Leases, LiveRow(l)
  PROVE  LiveRow(l)' /\ row'[l].profile = row[l].profile /\ row'[l].attempt = row[l].attempt
<1> DEFINE Lives == LiveRow(l)' /\ row'[l].profile = row[l].profile
                                /\ row'[l].attempt = row[l].attempt
<1>0. /\ row \in [Leases -> LeaseRecord] /\ row[l] \in LeaseRecord /\ now \in Nat
      /\ seat[p] \in SeatRecord
      /\ seat[p].at \in Nat /\ (seat[p].pc = "acquiring" => seat[p].at <= now)
      /\ TurnTtl \in Nat /\ HandoffTtl \in Nat /\ DefaultTtl \in Nat
  BY LeaseTypes, LeaseAssumption DEF LeaseInvariant, SeatsFit, SeatRecord, LeaseAssumption
<1>1. ASSUME NEW S, NEW instant \in Nat, instant <= now
      PROVE  Expired(S, instant)[l] = row[l]
  BY <1>0, <1>1 DEF Expired, LiveRow, LeaseRecord
<1>2. ASSUME NEW k, NEW instant \in Nat, instant <= now, NEW ttl \in Nat,
             row' = Renewed(k, instant, ttl)
      PROVE  Lives
  <2>1. CASE Renewable(k, instant, ttl)
    BY <1>0, <1>2, <2>1 DEF Renewed, Renewable, LiveRow, LeaseRecord
  <2>2. CASE ~Renewable(k, instant, ttl)
    <3>1. row'[l] = row[l]
      BY <1>1, <1>2, <2>2 DEF Renewed
    <3> QED BY <3>1 DEF LiveRow
  <2> QED BY <2>1, <2>2
<1>3. CASE Insert(p)
  <2>1. CASE row' = row
    BY <2>1 DEF LiveRow
  <2>2. ASSUME NEW k \in Leases, row[k].status = "free", NEW new,
               row' = [Expired(Contenders(seat[p].attempt, seat[p].profile), seat[p].at)
                         EXCEPT ![k] = new]
        PROVE  Lives
    <3> DEFINE E == Expired(Contenders(seat[p].attempt, seat[p].profile), seat[p].at)
    <3>1. E[l] = row[l] /\ DOMAIN E = Leases
      BY <1>0, <1>1, <1>3 DEF Insert, Expired
    <3>2. k # l
      BY <2>2 DEF LiveRow
    <3> HIDE DEF E
    <3>3. row'[l] = row[l]
      BY <2>2, <3>1, <3>2 DEF E
    <3> QED BY <3>3 DEF LiveRow
  <2> QED BY <1>3, <2>1, <2>2 DEF Insert
<1>4. CASE RenewFound(p)
  BY <1>0, <1>2, <1>4 DEF RenewFound
<1>5. CASE OperatorHandoff(p) \/ AdvancePage(p) \/ ContinueSame(p)
  <2>1. \E ttl \in {TurnTtl, HandoffTtl, DefaultTtl} : Heartbeat(p, ttl)
    BY <1>5 DEF OperatorHandoff, AdvancePage, ContinueSame
  <2> QED BY <1>0, <1>2, <2>1 DEF Heartbeat
<1> QED BY <1>3, <1>4, <1>5

\* Every step of the leases is a step of the lock of any profile or page.
LEMMA LeaseLockStep ==
  ASSUME LeaseInvariant, LeaseInvariant', [LeaseNext]_<<now, leaseVars>>,
         NEW part \in {"profile", "attempt"}, NEW x
  PROVE  LeaseLock(part, x)!Next \/ LeasesOn(part, x)' = LeasesOn(part, x)
<1>1. ASSUME NEW p \in Processes, UNCHANGED now,
             \/ Insert(p) \/ RenewFound(p)
             \/ OperatorHandoff(p) \/ AdvancePage(p) \/ ContinueSame(p)
      PROVE  LeaseLock(part, x)!Next \/ LeasesOn(part, x)' = LeasesOn(part, x)
  <2>1. \A l \in Leases : LiveRow(l) => LiveRow(l)' /\ row'[l][part] = row[l][part]
    BY <1>1, KeepersEndNone
  <2> QED BY <2>1, NoneEnds
<1>2. ASSUME NEW p \in Processes, UNCHANGED now,
             \/ \E a, r, f : Inspect(p, a, r, f)
             \/ EndJob(p) \/ CleanupWorker(p) \/ Switch(p) \/ LeaseCrash(p)
      PROVE  LeaseLock(part, x)!Next \/ LeasesOn(part, x)' = LeasesOn(part, x)
  <2>1. \A l \in Leases : LiveRow(l)' => LiveRow(l) /\ row'[l][part] = row[l][part]
    BY <1>2, EndersOnlyEnd
  <2> QED BY <2>1, NoneAwakes
<1>3. CASE UNCHANGED leaseVars /\ (Tick \/ UNCHANGED now)
  <2>1. row' = row /\ now \in Nat /\ now' \in Nat /\ now <= now'
    BY <1>3 DEF Tick, leaseVars, LeaseInvariant
  <2>2. \A l \in Leases : row[l].expires \in Nat
    BY LeaseTypes DEF LeaseInvariant, LeaseRecord
  <2>3. \A l \in Leases : LiveRow(l)' => LiveRow(l) /\ row'[l][part] = row[l][part]
    BY <2>1, <2>2 DEF LiveRow
  <2> QED BY <2>3, NoneAwakes
<1>4. ASSUME NEW p \in Processes, HolderStep(p), UNCHANGED now
      PROVE  LeaseLock(part, x)!Next \/ LeasesOn(part, x)' = LeasesOn(part, x)
  BY <1>1, <1>2, <1>4 DEF HolderStep, StartJob, Reacquire
<1> QED BY <1>3, <1>4 DEF LeaseNext, leaseVars

-----------------------------------------------------------------------------
(* Epochs fence *)

\* Among all rows of a profile, ended ones included, an epoch names one.
EpochsDiffer ==
  \A f \in Profiles, l, k \in Leases :
    row[l].profile = f /\ row[k].profile = f /\ row[l].epoch = row[k].epoch => l = k

\* A row keeps its profile and its epoch.
Stays(l) == row'[l].profile = row[l].profile /\ row'[l].epoch = row[l].epoch

\* A step changes the profile and the epoch of at most one row, which it inserts.
LEMMA OneIsInserted ==
  ASSUME LeaseInvariant, UNCHANGED now, NEW p \in Processes, HolderStep(p)
  PROVE  \/ \A l \in Leases : Stays(l)
         \/ \E l \in Leases : /\ row[l].status = "free" /\ row'[l].status = "active"
                              /\ \A k \in Leases : k # l => Stays(k)
<1>0. /\ row \in [Leases -> LeaseRecord] /\ seat \in [Processes -> SeatRecord]
      /\ known \in [Processes -> SUBSET Leases] /\ now \in Nat /\ LeaseTypeOK
      /\ \A q \in Processes : seat[q].pc = "acquiring" => seat[q].at \in Nat /\ seat[q].at <= now
      /\ TurnTtl \in Nat /\ HandoffTtl \in Nat /\ DefaultTtl \in Nat
  BY LeaseTypes, LeaseAssumption DEF LeaseInvariant, SeatsFit, SeatRecord, LeaseAssumption
<1> USE DEF Ages, Stays
<1>1. ASSUME NEW a, NEW r, NEW f, Inspect(p, a, r, f) PROVE \A l \in Leases : Stays(l)
  <2>1. row' = Expired(Contenders(a, f), now)
    BY <1>1 DEF Inspect
  <2> QED BY <1>0, <2>1, ExpiredAges
<1>2. CASE Insert(p)
  <2>1. CASE UNCHANGED row
    BY <2>1
  <2>2. ASSUME NEW l \in Leases, row[l].status = "free", InsertAllowed(p), Inserts(p, l)
        PROVE  row'[l].status = "active" /\ \A k \in Leases : k # l => Stays(k)
    <3>1. seat[p].pc = "acquiring"
      BY <1>2 DEF Insert
    <3>2. \A k \in Leases : k # l => Ages(k)
      BY <2>2, <3>1, InsertedApart
    <3>3. row'[l].status = "active"
      BY <2>2 DEF Expired, Inserts
    <3> QED BY <3>2, <3>3
  <2> QED BY <1>2, <2>1, <2>2 DEF Insert, Inserts
<1>3. ASSUME NEW l \in Leases, NEW instant \in Nat, instant <= now, NEW ttl \in Nat,
             row' = Renewed(l, instant, ttl)
      PROVE  \A k \in Leases : Stays(k)
  BY <1>0, <1>3, RenewedAges
<1>4. CASE RenewFound(p)
  BY <1>0, <1>3, <1>4 DEF RenewFound, SeatRecord
<1>5. CASE OperatorHandoff(p) \/ AdvancePage(p) \/ ContinueSame(p)
  <2>1. \E ttl \in {TurnTtl, HandoffTtl, DefaultTtl} : Heartbeat(p, ttl)
    BY <1>5 DEF OperatorHandoff, AdvancePage, ContinueSame
  <2> QED BY <1>0, <1>3, <2>1 DEF Heartbeat, SeatRecord
<1>6. CASE EndJob(p) \/ CleanupWorker(p) \/ Switch(p)
  <2>1. seat[p].pc # "dead"
    BY <1>6 DEF EndJob, CleanupWorker, Switch
  <2>2. PICK T \in SUBSET Leases : ReleaseScope(p, T, Expired(Leases, now))
    <3>1. EndJob(p) => {seat[p].bundle} \in SUBSET Leases
      BY <1>0 DEF EndJob, SeatRecord
    <3> QED BY <1>0, <1>6, <3>1 DEF EndJob, CleanupWorker, Switch
  <2> QED BY <2>1, <2>2, ReleaseEnds
<1>7. CASE LeaseCrash(p)
  BY <1>7 DEF LeaseCrash
<1> QED BY <1>1, <1>2, <1>4, <1>5, <1>6, <1>7 DEF HolderStep, StartJob, Reacquire

\* So the epochs stay different: what is inserted is the newest of its profile.
LEMMA EpochsStayDifferent ==
  ASSUME LeaseInvariant, LeaseInvariant', EpochsDiffer, [LeaseNext]_<<now, leaseVars>>
  PROVE  EpochsDiffer'
<1>1. CASE \A l \in Leases : Stays(l)
  BY <1>1 DEF Stays, EpochsDiffer
<1>2. ASSUME NEW l \in Leases, row'[l].status = "active", \A k \in Leases : k # l => Stays(k)
      PROVE  EpochsDiffer'
  <2>1. \A k \in Leases : k # l /\ row'[k].profile = row'[l].profile => row'[k].epoch # row'[l].epoch
    <3>1. \A k \in Leases : row'[k].epoch \in Nat
      BY LeaseTypes DEF LeaseInvariant, LeaseTypeOK, LeaseRecord
    <3>2. l \in Active(row)' /\ ActiveIsNewest'
      BY <1>2 DEF Active, LeaseInvariant, RowsApart
    <3> QED BY <3>1, <3>2 DEF ActiveIsNewest
  <2> QED BY <1>2, <2>1 DEF Stays, EpochsDiffer
<1>3. CASE UNCHANGED row
  BY <1>1, <1>3 DEF Stays
<1>4. ASSUME NEW p \in Processes, HolderStep(p), UNCHANGED now PROVE EpochsDiffer'
  BY <1>1, <1>2, <1>4, OneIsInserted
<1> QED BY <1>3, <1>4 DEF LeaseNext, leaseVars

-----------------------------------------------------------------------------
(* A bundle that can be advanced *)

\* The lease of a turn and of a hand-off are at most as long as that of a page advance.
AdvanceIsLongest == TurnTtl <= DefaultTtl /\ HandoffTtl <= DefaultTtl

LeasesShort == \A l \in Active(row) : row[l].expires <= now + DefaultTtl

\* A step inserts or renews for at most that long.
LEMMA ShortStep ==
  ASSUME AdvanceIsLongest, LeaseInvariant, LeasesShort, [LeaseNext]_<<now, leaseVars>>
  PROVE  LeasesShort'
<1>0. /\ row \in [Leases -> LeaseRecord] /\ seat \in [Processes -> SeatRecord] /\ now \in Nat
      /\ TurnTtl \in Nat /\ HandoffTtl \in Nat /\ DefaultTtl \in Nat
  BY LeaseTypes DEF LeaseInvariant
<1>1. ASSUME \A l \in Leases : row'[l].status = "active" =>
               row[l].status = "active" /\ row'[l].expires = row[l].expires,
             now' \in Nat, now' >= now
      PROVE  LeasesShort'
  <2>1. \A l \in Leases : row[l].expires \in Nat
    BY <1>0 DEF LeaseRecord
  <2> QED BY <1>0, <1>1, <2>1 DEF LeasesShort, Active
<1>2. ASSUME NEW S, NEW instant, row' = Expired(S, instant)
      PROVE  \A l \in Leases : row'[l].status = "active" =>
               row[l].status = "active" /\ row'[l].expires = row[l].expires
  BY <1>0, <1>2 DEF Expired, LeaseRecord
<1>3. ASSUME NEW l \in Leases, NEW instant \in Nat, instant <= now, NEW ttl \in Nat,
             ttl <= DefaultTtl, row' = Renewed(l, instant, ttl), UNCHANGED now
      PROVE  LeasesShort'
  <2>1. CASE Renewable(l, instant, ttl)
    <3>1. \A k \in Leases : /\ row'[k].status = row[k].status
                            /\ row'[k].expires = IF k = l THEN instant + ttl ELSE row[k].expires
      BY <1>0, <1>3, <2>1 DEF Renewed, LeaseRecord
    <3>2. instant + ttl <= now + DefaultTtl
      BY <1>0, <1>3
    <3> QED BY <1>3, <3>1, <3>2 DEF LeasesShort, Active
  <2>2. CASE ~Renewable(l, instant, ttl)
    <3>1. row' = Expired({l}, instant)
      BY <1>3, <2>2 DEF Renewed
    <3>2. \A k \in Leases : row'[k].status = "active" =>
            row[k].status = "active" /\ row'[k].expires = row[k].expires
      BY <1>2, <3>1
    <3>3. now' \in Nat /\ now' >= now
      BY <1>0, <1>3
    <3> QED BY <1>1, <3>2, <3>3
  <2> QED BY <2>1, <2>2
<1>4. ASSUME NEW p \in Processes, HolderStep(p), UNCHANGED now PROVE LeasesShort'
  <2>1. ASSUME NEW a, NEW r, NEW f, Inspect(p, a, r, f) PROVE LeasesShort'
    <3>1. row' = Expired(Contenders(a, f), now)
      BY <2>1 DEF Inspect
    <3> QED BY <1>0, <1>1, <1>2, <1>4, <3>1
  <2>2. CASE Insert(p)
    <3>0. seat[p].at \in Nat /\ seat[p].at <= now
      BY <1>0, <2>2 DEF Insert, LeaseInvariant, SeatsFit, SeatRecord
    <3>1. CASE UNCHANGED row
      BY <1>0, <1>1, <1>4, <3>1
    <3>2. ASSUME NEW l \in Leases, Inserts(p, l)
          PROVE  LeasesShort'
      <4> DEFINE E == Expired(Contenders(seat[p].attempt, seat[p].profile), seat[p].at)
      <4>1. \A k \in Leases : E[k].status = "active" =>
              row[k].status = "active" /\ E[k].expires = row[k].expires
        BY <1>0 DEF Expired, LeaseRecord
      <4>2. DOMAIN E = Leases
        BY DEF Expired
      <4>3. row' = [E EXCEPT ![l] = [status |-> "active", holder |-> p, attempt |-> seat[p].attempt,
                                     runtime |-> seat[p].runtime, profile |-> seat[p].profile,
                                     epoch |-> seat[p].latest + 1,
                                     expires |-> seat[p].at + TurnTtl]]
        BY <3>2 DEF Inserts
      <4> HIDE DEF E
      <4>4. row'[l].expires = seat[p].at + TurnTtl /\ \A k \in Leases : k # l => row'[k] = E[k]
        BY <4>2, <4>3
      <4>5. seat[p].at + TurnTtl <= now + DefaultTtl
        BY <1>0, <3>0 DEF AdvanceIsLongest
      <4> QED BY <1>4, <4>1, <4>4, <4>5 DEF LeasesShort, Active
    <3> QED BY <2>2, <3>1, <3>2 DEF Insert, Inserts
  <2>3. CASE RenewFound(p)
    <3>0. seat[p].at \in Nat /\ seat[p].at <= now /\ seat[p].found \in Leases
      BY <1>0, <2>3 DEF RenewFound, LeaseInvariant, SeatsFit, SeatRecord
    <3> QED BY <1>0, <1>3, <1>4, <2>3, <3>0 DEF RenewFound, AdvanceIsLongest
  <2>4. ASSUME NEW ttl \in Nat, ttl <= DefaultTtl, Heartbeat(p, ttl) PROVE LeasesShort'
    <3>0. seat[p].bundle \in Leases
      BY <1>0, <2>4 DEF Heartbeat, SeatRecord
    <3> QED BY <1>0, <1>3, <1>4, <2>4, <3>0 DEF Heartbeat
  <2>5. ASSUME NEW T, ReleaseScope(p, T, Expired(Leases, now)) PROVE LeasesShort'
    <3>1. CASE row' = row \/ row' = Expired(Leases, now)
      BY <1>0, <1>1, <1>2, <1>4, <3>1
    <3>2. CASE row' = Released(Expired(Leases, now))
      <4>1. \A l \in Leases : row'[l].status # "active"
        <5>1. \A l \in Leases : Expired(Leases, now)[l] \in LeaseRecord
          BY <1>0 DEF Expired, LeaseRecord
        <5> QED BY <3>2, <5>1 DEF Released, Active, LeaseRecord
      <4> QED BY <4>1 DEF LeasesShort, Active
    <3> QED BY <2>5, <3>1, <3>2 DEF ReleaseScope
  <2>6. CASE LeaseCrash(p)
    BY <1>0, <1>1, <1>4, <2>6 DEF LeaseCrash
  <2> QED BY <1>0, <1>4, <2>1, <2>2, <2>3, <2>4, <2>5, <2>6 DEF HolderStep, StartJob, Reacquire,
         OperatorHandoff, AdvancePage, ContinueSame, EndJob, CleanupWorker, Switch, AdvanceIsLongest
<1>5. CASE UNCHANGED leaseVars /\ (Tick \/ UNCHANGED now)
  BY <1>0, <1>1, <1>5 DEF leaseVars, Tick
<1> QED BY <1>4, <1>5 DEF LeaseNext, leaseVars

-----------------------------------------------------------------------------
(* The theorems *)

\* The invariant of the leases holds along every run.
LEMMA LeaseInvariantHolds == LeaseSpec => []LeaseInvariant
<1>1. LeaseSpec => LeaseInvariant
  BY LeaseStart DEF LeaseSpec
<1>2. LeaseInvariant /\ [LeaseNext]_<<now, leaseVars>> => LeaseInvariant'
  BY LeaseStepKeeps
<1> QED BY <1>1, <1>2, PTL DEF LeaseSpec

\* Another process never takes a lease away: a row ends by its expiry or with its holder
\* forgetting it, for any number of processes that run the slot.
THEOREM LeasesEndFairly == LeaseSpec => OnlyHolderEnds
<1>1. LeaseInvariant /\ [LeaseNext]_<<now, leaseVars>> =>
        [\A l \in Leases : row[l].status = "active" /\ row'[l].status # "active" =>
           \/ row[l].expires <= now /\ row'[l].status = "expired"
           \/ l \in known[row[l].holder] \ known'[row[l].holder]]_leaseVars
  BY LeaseStepKeeps DEF EndsFairly
<1> QED BY <1>1, LeaseInvariantHolds, PTL DEF LeaseSpec, OnlyHolderEnds

\* Fencing, and a registry that no living process forgets, for any leases; where a page
\* advance is never shorter than the other renewals, the page can always be advanced.
THEOREM LeasesHold == AdvanceIsLongest => (LeaseSpec => []LeasesAgree)
<1> SUFFICES ASSUME AdvanceIsLongest PROVE LeaseSpec => []LeasesAgree
  OBVIOUS
<1>1. LeaseSpec => LeasesShort
  BY DEF LeaseSpec, LeaseInit, LeasesShort, Active, NoRow
<1>2. LeaseInvariant /\ LeasesShort /\ [LeaseNext]_<<now, leaseVars>> => LeasesShort'
  BY ShortStep
<1>3. LeaseInvariant /\ LeasesShort => LeasesAgree
  <2> SUFFICES ASSUME LeaseInvariant, LeasesShort PROVE LeasesAgree
    OBVIOUS
  <2>0. row \in [Leases -> LeaseRecord] /\ seat \in [Processes -> SeatRecord] /\ now \in Nat
    BY LeaseTypes DEF LeaseInvariant
  <2>1. HolderIsNewest
    BY DEF HolderIsNewest, LiveRow, LeaseInvariant, RowsApart, ActiveApart, ActiveIsNewest, Active
  <2>2. BundleCanAdvance
    BY <2>0 DEF BundleCanAdvance, LiveRow, Renewable, LeasesShort, Active, SeatRecord, LeaseRecord
  <2> QED BY <2>1, <2>2 DEF LeasesAgree, LeaseInvariant
<1> QED BY <1>1, <1>2, <1>3, LeaseInvariantHolds, PTL DEF LeaseSpec

\* A live lease is a lock: seen through the leases that are live on it, each profile and
\* each page behaves as Exclusion says.  None comes to life while another lives on it (not
\* even one whose time was over and that is renewed by an old reading of the clock), and no
\* step hands a profile or a page from one live lease to the next.
THEOREM LeasesExclude ==
  ASSUME NEW part \in {"profile", "attempt"}, NEW x
  PROVE  LeaseSpec => LeaseLock(part, x)!Spec 
<1>1. LeaseSpec => LeaseLock(part, x)!Init
  BY DEF LeaseSpec, LeaseInit, NoRow, LeaseLock!Init, LeasesOn, LiveRow
<1>2. LeaseInvariant /\ LeaseInvariant' /\ [LeaseNext]_<<now, leaseVars>> =>
        [LeaseLock(part, x)!Next]_[y \in {x} |-> LeasesOn(part, x)]
  BY LeaseLockStep
<1> QED BY <1>1, <1>2, LeaseInvariantHolds, PTL DEF LeaseSpec, LeaseLock!Spec

\* The epoch of a browser lease is a fencing token: of all the rows that a profile ever had
\* no two share one, although no index of the table says so and the epoch is computed from
\* an inspection that an earlier transaction made.
THEOREM EpochsFence == LeaseSpec => []EpochsDiffer
<1>1. LeaseSpec => EpochsDiffer
  BY LeaseAssumption DEF LeaseSpec, LeaseInit, NoRow, EpochsDiffer, LeaseAssumption
<1>2. LeaseInvariant /\ LeaseInvariant' /\ EpochsDiffer /\ [LeaseNext]_<<now, leaseVars>> => EpochsDiffer'
  BY EpochsStayDifferent
<1> QED BY <1>1, <1>2, LeaseInvariantHolds, PTL DEF LeaseSpec

=============================================================================
