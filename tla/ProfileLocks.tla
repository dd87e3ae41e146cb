----------------------------- MODULE ProfileLocks -----------------------------
(***************************************************************************)
(* The browser profile of a worker slot and the launchers of the processes *)
(* that run the slot: apply/profile_lock.py as apply/chrome.py uses it.    *)
(* A named mutex of the kernel says who launches; a sidecar file says that *)
(* a browser may have been left behind.  Each call of the kernel, each     *)
(* file operation and each step of the launch is an action, and a process  *)
(* may die before any of them.                                             *)
(***************************************************************************)
EXTENDS RuntimeBase, FiniteSets

CONSTANTS
  SingleWorker   \* processes with one worker, which runs in the main thread: there the
                 \* handler of a second Ctrl+C interrupts the launch and cleans up

ASSUME ProfileAssumption ==
  /\ SingleWorker \subseteq Processes
  /\ None \notin Processes /\ "abandoned" \notin Processes

VARIABLES
  mutex,      \* its owner, None, or "abandoned" by an owner that died
  handles,    \* the processes with an open handle; without any the mutex is gone
  sidecar,    \* the file: its state and the launcher that wrote it
  alive,      \* the processes whose browser may be running on the profile
  slot,       \* slot[p]: where process p stands, and where its release leads
  slipped     \* history: an interrupted launcher removed a sidecar that was needed

profileVars == <<mutex, handles, sidecar, alive, slot, slipped>>

NoSidecar == [state |-> "none", by |-> None]

Absent == sidecar.state = "none"

\* From the opened handle to the mutex; from the mutex to the end of the browser.
Launching == {"owned", "abandoned", "clear", "ready", "spawned"}
Attached == {"starting", "running", "lost", "stopping", "held"}

Owning == Launching \cup Attached \cup {"releasing"}
HandleOpen == Owning \cup {"opened", "closing"}

ProfileTypeOK ==
  /\ mutex \in Processes \cup {None, "abandoned"}
  /\ handles \subseteq Processes
  /\ sidecar \in [state : {"none", "acquired", "spawn_attempted", "running", "recovery_required"},
                  by : Processes \cup {None}]
  /\ alive \subseteq Processes
  /\ slot \in [Processes ->
       [pc : HandleOpen \cup {"idle", "opening", "unlinking", "popping", "stuck", "dead"},
        after : {"idle", "popping", "stuck", "dead"}]]
  /\ slipped \in BOOLEAN

ProfileInit ==
  /\ mutex = None /\ handles = {} /\ sidecar = NoSidecar /\ alive = {}
  /\ slot = [p \in Processes |-> [pc |-> "idle", after |-> "idle"]]
  /\ slipped = FALSE

At(p, pc) == slot[p].pc = pc
Goes(p, pc) == slot' = [slot EXCEPT ![p].pc = pc]
Releases(p, after) == slot' = [slot EXCEPT ![p] = [pc |-> "releasing", after |-> after]]
Writes(p, state) == sidecar' = [state |-> state, by |-> p]

\* The kernel closes a handle of p, whom it also relieves of the mutex if p died.
Closes(p, dies) ==
  /\ handles' = handles \ {p}
  /\ mutex' = IF handles' = {} THEN None
              ELSE IF dies /\ mutex = p THEN "abandoned" ELSE mutex

-----------------------------------------------------------------------------
(* acquire, inside launch_chrome *)

\* A worker id that is tracked cannot launch; from here on this one is.
BeginLaunch(p) ==
  /\ At(p, "idle")
  /\ Goes(p, "opening")
  /\ UNCHANGED <<mutex, handles, sidecar, alive, slipped>>

OpenMutex(p) ==
  /\ At(p, "opening")
  /\ handles' = handles \cup {p}
  /\ Goes(p, "opened")
  /\ UNCHANGED <<mutex, sidecar, alive, slipped>>

\* Another process holds the mutex.  The worker id stays tracked if there is a sidecar,
\* and a live owner nearly always has one.
Conflict(p) ==
  /\ At(p, "opened")
  /\ mutex \in Processes
  /\ Closes(p, FALSE)
  /\ Goes(p, IF Absent THEN "idle" ELSE "stuck")
  /\ UNCHANGED <<sidecar, alive, slipped>>

TakeMutex(p) ==
  /\ At(p, "opened")
  /\ mutex \notin Processes
  /\ Goes(p, IF mutex = "abandoned" THEN "abandoned" ELSE "owned")
  /\ mutex' = p
  /\ UNCHANGED <<handles, sidecar, alive, slipped>>

\* The write may fail; the mutex is released either way.
MarkAbandoned(p) ==
  /\ At(p, "abandoned")
  /\ Writes(p, "recovery_required") \/ UNCHANGED sidecar
  /\ Releases(p, "stuck")
  /\ UNCHANGED <<mutex, handles, alive, slipped>>

\* Mutant of CheckSidecar: the sidecar is only diagnostic, as the docstring says.
CheckNothing(p) ==
  /\ At(p, "owned")
  /\ Goes(p, "clear")
  /\ UNCHANGED <<mutex, handles, sidecar, alive, slipped>>

CheckSidecar(p) ==
  /\ At(p, "owned")
  /\ IF Absent THEN Goes(p, "clear") ELSE Releases(p, "stuck")
  /\ UNCHANGED <<mutex, handles, sidecar, alive, slipped>>

WriteAcquired(p) ==
  /\ At(p, "clear")
  /\ \/ Writes(p, "acquired") /\ Goes(p, "ready")
     \/ Releases(p, "stuck") /\ UNCHANGED sidecar
  /\ UNCHANGED <<mutex, handles, alive, slipped>>

-----------------------------------------------------------------------------
(* The launch, and its failures *)

\* The profile cannot be prepared or the browser not be started: release_before_spawn.
AbortLaunch(p) ==
  /\ At(p, "ready")
  /\ Releases(p, "popping")
  /\ UNCHANGED <<mutex, handles, sidecar, alive, slipped>>

SpawnBrowser(p) ==
  /\ At(p, "ready")
  /\ alive' = alive \cup {p}
  /\ Goes(p, "spawned")
  /\ UNCHANGED <<mutex, handles, sidecar, slipped>>

\* Without its identity a browser can never be confirmed to have stopped.
RecordSpawn(p) ==
  /\ At(p, "spawned")
  /\ \/ Writes(p, "spawn_attempted") /\ Goes(p, "starting")
     \/ Goes(p, "lost") /\ UNCHANGED sidecar
  /\ UNCHANGED <<mutex, handles, alive, slipped>>

\* The endpoint answers, and names a process that is alive; or something fails on the way.
RecordBrowser(p) ==
  /\ At(p, "starting")
  /\ \/ p \in alive /\ Writes(p, "running") /\ Goes(p, "running")
     \/ p \in alive /\ Goes(p, "stopping") /\ UNCHANGED sidecar
     \/ Goes(p, "lost") /\ UNCHANGED sidecar
  /\ UNCHANGED <<mutex, handles, alive, slipped>>

\* A failed launch whose browser is not known to have stopped keeps the mutex.  If its
\* identity is known a later cleanup tries again.
MarkRecoveryRequired(p) ==
  /\ slot[p].pc \in {"lost", "stopping"}
  /\ Writes(p, "recovery_required") \/ UNCHANGED sidecar
  /\ Goes(p, IF At(p, "lost") THEN "held" ELSE "running")
  /\ UNCHANGED <<mutex, handles, alive, slipped>>

\* The browser exits: it was closed or killed, or it failed.
BrowserStops(p) ==
  /\ p \in alive
  /\ alive' = alive \ {p}
  /\ UNCHANGED <<mutex, handles, sidecar, slot, slipped>>

\* Mutant of Cleanup: the process handle has exited, the browser it relaunched has not.
CleanupAfterBootstrap(p) ==
  /\ slot[p].pc \in {"running", "stopping"}
  /\ Releases(p, "idle")
  /\ UNCHANGED <<mutex, handles, sidecar, alive, slipped>>

\* cleanup_worker, kill_all_chrome and the failure path of the launch: the actual browser
\* is confirmed to have stopped, otherwise everything stays.
Cleanup(p) ==
  /\ slot[p].pc \in {"running", "stopping"}
  /\ p \notin alive
  /\ Releases(p, "idle")
  /\ UNCHANGED <<mutex, handles, sidecar, alive, slipped>>

-----------------------------------------------------------------------------
(* _release_mutex *)

ReleaseMutex(p) ==
  /\ At(p, "releasing")
  /\ mutex' = IF mutex = p THEN None ELSE mutex
  /\ Goes(p, "closing")
  /\ UNCHANGED <<handles, sidecar, alive, slipped>>

CloseMutex(p) ==
  /\ At(p, "closing")
  /\ Closes(p, FALSE)
  /\ Goes(p, IF slot[p].after = "stuck" THEN "stuck" ELSE "unlinking")
  /\ UNCHANGED <<sidecar, alive, slipped>>

\* Its own fresh sidecar, with no browser behind it, is all that an interrupted launch
\* may take with it.
Needed(p) == ~Absent /\ (sidecar # [state |-> "acquired", by |-> p] \/ alive # {})

\* The file goes whoever wrote it, and whoever has the mutex by now.
UnlinkSidecar(p) ==
  /\ At(p, "unlinking")
  /\ \/ /\ sidecar' = NoSidecar
        /\ slipped' = (slipped \/ (slot[p].after = "dead" /\ Needed(p)))
        /\ Goes(p, slot[p].after)
     \/ /\ Goes(p, IF slot[p].after = "dead" THEN "dead" ELSE "stuck")
        /\ UNCHANGED <<sidecar, slipped>>
  /\ UNCHANGED <<mutex, handles, alive>>

\* launch_chrome stops tracking the worker id only if no sidecar is there.
StopTracking(p) ==
  /\ At(p, "popping")
  /\ Goes(p, IF Absent THEN "idle" ELSE "stuck")
  /\ UNCHANGED <<mutex, handles, sidecar, alive, slipped>>

-----------------------------------------------------------------------------
(* Interrupts, crashes and the person who recovers *)

\* The handler runs kill_all_chrome wherever the launch stands and then unwinds it.  No
\* browser is tracked yet and no spawn recorded, so it takes the release before spawn.
Interrupt(p) ==
  /\ p \in SingleWorker
  /\ \/ slot[p].pc \in Launching \cup {"opened"}
     \/ slot[p].pc \in {"releasing", "closing"} /\ slot[p].after # "idle"
  /\ Releases(p, "dead")
  /\ UNCHANGED <<mutex, handles, sidecar, alive, slipped>>

ProfileCrash(p) ==
  /\ slot[p].pc \notin {"idle", "dead"}
  /\ Closes(p, TRUE)
  /\ Goes(p, "dead")
  /\ UNCHANGED <<sidecar, alive, slipped>>

\* The slot is run by a new process.
ProfileRestart(p) ==
  /\ At(p, "dead")
  /\ slot' = [slot EXCEPT ![p] = [pc |-> "idle", after |-> "idle"]]
  /\ UNCHANGED <<mutex, handles, sidecar, alive, slipped>>

\* No command removes a sidecar: a person does, when no launcher and no browser is left.
RecoverProfile ==
  /\ ~Absent /\ handles = {} /\ alive = {}
  /\ \A p \in Processes : ~At(p, "unlinking")
  /\ sidecar' = NoSidecar
  /\ UNCHANGED <<mutex, handles, alive, slot, slipped>>

SlotStep(p) ==
  \/ BeginLaunch(p) \/ OpenMutex(p)
  \/ Conflict(p) \/ TakeMutex(p) \/ MarkAbandoned(p) \/ CheckSidecar(p) \/ WriteAcquired(p)
  \/ AbortLaunch(p) \/ SpawnBrowser(p) \/ RecordSpawn(p) \/ RecordBrowser(p)
  \/ MarkRecoveryRequired(p) \/ BrowserStops(p) \/ Cleanup(p)
  \/ ReleaseMutex(p) \/ CloseMutex(p) \/ UnlinkSidecar(p) \/ StopTracking(p)
  \/ Interrupt(p) \/ ProfileCrash(p) \/ ProfileRestart(p)

ProfileNext ==
  /\ (\E p \in Processes : SlotStep(p)) \/ RecoverProfile
  /\ UNCHANGED now

\* The clock may go on while no process moves.
ProfileSpec == ProfileInit /\ [][ProfileNext]_profileVars

-----------------------------------------------------------------------------
(* Properties *)

\* Two browsers never run on one profile, and none is started beside one that a dead
\* launcher left, although the mutex dies with its owner and the sidecar is removed after
\* the mutex was released.  The exception is a launch that Ctrl+C interrupted in the main
\* thread: its handler takes for granted that no browser was started and that the sidecar
\* is its own.
OneBrowser ==
  ~slipped =>
    /\ \A p \in Processes : At(p, "ready") => alive = {}
    /\ \A p, q \in alive : p = q

=============================================================================
