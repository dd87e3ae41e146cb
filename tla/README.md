# ApplyPilot in TLA+

ApplyPilot finds job postings, prepares documents and applies to jobs with
browser agents.  Pressing Submit cannot be undone and cannot be observed
reliably, so most of the program is bookkeeping around that fact: a durable
ledger that decides who may press Submit and what is believed afterwards, leases
and locks that keep processes apart, journals of what was done to a page, and
schedulers over threads that may fail, while an operator acts on all of it and
any process may crash or outlive its lease.  This project models that bookkeeping, checks it
with TLC and proves its most important invariants with TLAPS.

Paths below are relative to `src/src/applypilot/`.

## The system and its components

| Component | State | Operations | Hard part | Correct when |
|---|---|---|---|---|
| Submission ledger (`storage/application_ledger.py`, `storage/submission_receipts.py`) | SQLite tables: attempts, submission gates, batch consumptions, receipts, receipt bindings | start, renew, finalize and recover attempts; claim a gate; update gate and consumption; admit, bind and reconcile receipts | several processes, split transactions, leases, rate limits | one gate per job and batch, capacity kept, one live writer, applied only with its own receipt |
| Job outcomes and commands (`apply/job_results.py`, `apply/application_jobs.py`) | row of table `jobs` | `mark_result`, `release_lock`, `restore_preview_state`, `mark_job`, `reset_failed`, duplicate recheck | late workers, operator commands in between | no retry after Submit began; a late worker changes nothing |
| Acquisition (`apply/job_acquisition.py`, `apply/job_candidates.py`) | none of its own | recover, select a snapshot, claim | stale snapshot | one attempt in progress per job |
| Submission authority (`apply/submission_authority.py`) | the process's submit lane | lane, reservation, ledger update, receipt check | two transactions, swallowed errors | as the ledger |
| Worker loop (`apply/worker_orchestration.py`) | one thread's local variables | acquire, prepare, reserve, submit, observe, record; error and interrupt paths | an error at any step, crash, lost lease | uncertain after Submit unless proved otherwise |
| Attended host (`apply/attended_application.py`) | `attended_applications` payload, phase per attempt | begin, resume, checkpoint, claim, submit-intent, fail, receipt | commands repeated, out of order or late | Submit latched only with a gate |
| Run progress (`apply/run_progress.py`) | in-memory tickets, claims, terminal outcomes | tickets, before_submit, record_terminal | threads of one run | no slot lost or overdrawn |
| Runtime cells (`storage/runtime_cells.py`) | generations and application leases | register, suspect, claim, heartbeat, drain, release, quarantine, close | expiry is an observation, never an authority to take over | one cell per attempt, no takeover |
| Browser leases (`storage/runtime_control.py`, `apply/durable_browser_broker.py`, `apply/browser_authority.py`) | lease rows, each broker's memory | acquire, heartbeat, advance, hand off, switch, release | several statements and processes | exclusive resources, nobody forgets what it holds |
| Agent turns (`storage/runtime_control.py`, `apply/durable_agent_runtime.py`) | turn rows, subprocesses | reconcile, reserve, spawn, attach, prompt, end | crash in between, agents that survive | one agent works, nothing after an unknown Submit |
| Supervision of a turn (`apply/launcher.py`, `apply/application_supervisor_loop.py`, `apply/agent_process.py`) | the memory of one turn | judge each line, watchdog, stall timer, lease heartbeat, kill | five parties may end the process | a killed turn is not believed |
| Profile lock (`apply/profile_lock.py`, `apply/chrome.py`) | kernel mutex, sidecar file, browser | acquire, spawn, release, kill, recover | abandoned mutex, surviving browser | one browser per profile |
| Semantic writes (`storage/semantic_browser_writes.py`, `storage/semantic_patch_batches.py` and their runtimes) | write and batch rows, page epoch | begin, claim dispatch, validate, call, observe, verify, park | crash between dispatch and effect | an upload is done at most once |
| Task journal (`storage/task_journal.py`, `apply/background_runtime.py`) | tasks with claims and retries | register, claim, heartbeat, cancel, complete, fail, retry, reap | late completion after reaping | effects claimed once, bounded retries |
| Operator commands (`apply/operator_commands.py`, `apply/operator_runtime.py`, `apply/operator_dispatch.py`) | an exception, its request, commands and results | resolve, resume, reconcile, expire | read first, write later | one verdict per exception |
| Recovery commands (`apply/recovery_execution.py`) | results per stage | run, replay, reap | crash between effect and result | an effect is not replayed |
| Streaming pipeline (`pipeline.py`, with the writes of discovery, enrichment and the batches) | stage threads and their tracker; the rows each stage asks for | count, judge, read a batch, write, look upstream, finish | the database moves between the steps; the waits form a chain and the rows do not | a stage that waited for whatever feeds it drains before it ends |
| Task graph (`apply/orchestration.py`) | task sets, claims, results | scan, start, collect, retry, cancel, fail | cancellation and deadlines at any time; results that end the coordinator | claims fit, the target is kept, no task is dropped |
| Documents of a job (`scoring/scorer.py`, `scoring/tailor.py`, `scoring/cover_letter.py`, `resume_library.py`, `single_job.py`, a trigger in `database.py`) | score, resume, letter and approvals in a row of `jobs`; the letter file; the library's validations | score, tailor, reuse, revalidate, write a letter, approve, claim, submit; change of the posting | minutes between a read and the write by URL | what a job goes on with belongs to its description |
| Episode, sessions, actor (`apply/application_*.py`), events and checkpoints (`storage/agent_control.py`) | in-memory session of one attempt; rows of diagnostics and rows that are only inserted | admit, restart, close; append | none left once turns, operator and recovery commands are modelled | not modelled |
| Page analysis, prompts, text validation and rendering, discovery, receipt observers, schema, views, CLI | text, files, pages | parse, render, scrape, ask a language model | none that a state machine would show | not modelled |

The worker loop calls acquisition (which leases a cell in its own transaction), then
the launcher for a prepare turn, then the
authority to reserve (which runs the duplicate recheck and `claim_submission_gate`
in one transaction), then the launcher for the one Submit-capable turn, then the
observers, then the authority and `mark_result` to record.  A turn of the launcher
takes the profile lock and the browser leases, reserves its turn row, and is
supervised; between turns the worker may upload and fill fields itself under the
journals.  The host makes the
same ledger calls from its own commands.  Receipt observers and the CLI call
`reconcile_submission_receipt`; the operator calls `mark_job`, `reset_failed` and the
operator commands.
Scoring, tailoring and letters run as batches, as commands for one job, and (the letter) from a worker that meets a form that wants one.
The processes share one SQLite file, the kernel and the file system, and nothing else; the
threads of a process also share the submit lane and the progress of the run.

## Modules

Three systems, each composed of parts that share state or, where they share none,
explored one part at a time.

**The submission system**, where actors compete for the same rows:

| Module | Models | State |
|---|---|---|
| `SubmissionLedger` | the tables and every write transaction on them | `now`, `jobs`, `attempts`, `gates`, `uses`, `receipts`: the clock and one variable per table |
| `SubmissionWorkers` | acquisition, the worker loop and the authority | `worker[w]`: pc and local variables of a thread |
| `AttendedHost` | the attended commands, each one transaction | `host[a]`: the phase of the attended payload of attempt `a` |
| `ApplicationSystem` | workers, host, operator and clock over one ledger; the properties | all of these |
| `SubmissionAuthority` | what the gate promises, abstractly: grants, latches, bindings | `grants`, `latched`, `bound` |
| `SubmissionInvariant` | the inductive invariants of the proofs | none |
| `SubmissionProofs`, `LedgerProofs` | theorems and lemmas | none |

**The runtime system**, what keeps processes apart, and the row of a job, which nothing keeps them apart on:

| Module | Models | State |
|---|---|---|
| `RuntimeBase` | processes, attempts, the clock | `now` |
| `RuntimeCells` | registry of cells, as the session of a worker calls it | `generation[p]`, `lease[a]`, `session[p]` |
| `Exclusion` | what a lock promises, abstractly: nobody enters a used resource, only its user leaves | `users[r]` |
| `BrowserLeases` | lease rows, and broker and bundle of each process of one worker slot | `row[l]`, `known[p]`, `seat[p]` |
| `AgentTurns` | turns of one actor, their subprocesses, and `run_job` around them | `turn[t]`, `agent[t]`, `checkpoint`, `launcher[p]` |
| `ProfileLocks` | one profile: kernel mutex, sidecar, browsers and launchers | `mutex`, `handles`, `sidecar`, `alive`, `slot[p]`, `slipped` |
| `JobMaterials` | one job: scorers, tailors, letter writers, an approver and a worker over its row | `jobRow`, `letter`, `exact`, `op[o]` (what an operation has read and made), `carried` (the worker's copy), `slips` |
| `RuntimeSystem` | the five above over one clock | all of these |
| `ExclusionProofs`, `RuntimeProofs` | theorems and lemmas, the latter of turns, documents and the composition | none |

**The journal system**, what a process records of its own work, and its schedulers:

| Module | Models | State |
|---|---|---|
| `SemanticWrites` | the resume upload under its journal | `journal[o]`, `page`, `writer[w]`, `uploads`, `legacy` |
| `PatchBatches` | batches of routine controls under theirs | `batch[b]`, `tab`, `filler[p]`, `granted` |
| `TaskJournal` | background tasks and pools | `task[t]`, `pool[w]`, `faults` |
| `RunProgress` | threads of one run: tickets, claims, outcomes, attempted URLs | shared sets, `job[u]`, `thread[t]` |
| `OperatorCommands` | one parked exception, operators and the waiting owner | `item`, `request`, `envelope[c]`, `stages[c]`, `caller[a]`, ... |
| `RecoveryCommands` | one recovery command and its callers | `history[stage]`, `effects`, `performer[p]`, ... |
| `StagePipeline` | stage threads of a streaming run, and the rows that they write | `todo[s]`, `taken[s]`, `ineligible`, `stage[s]`, `result[s]`, `gap[s]`, ... |
| `TaskGraph` | `execute_task_graph` | `coord`, `pending`, `running`, `results`, ... |
| `TurnSupervisor` | one agent turn and the five parties that may end it | `agentProc`, `reader`, `loop`, `control`, `heart`, ... |
| `JournalSystem` | the nine above | all of these |
| `WriteProofs`, `JournalProofs`, `ScheduleProofs`, `SystemProofs` | theorems and lemmas: of the first two modules; of tasks, commands and recovery; of runs, stages, graphs and supervision; of the composition | none |

`MCApplicationSystem`, `MCRuntimeSystem` and `MCJournalSystem` hold the values TLC needs.

### Correspondence

`attempts[a]` is the row of `application_attempts`; its status
`"free"` means that the id was not drawn yet, since ids are fresh uuids.
`gates[a]` is the row of `application_submission_gates`, whose `attempt_id` is
unique, and `"none"` means no row.  `uses[b][j]` is the consumption of job `j` by
batch `b`.  `receipts[r]` joins a receipt with its binding.  `jobs[j].task` is
`apply_task_id`, `.blocked` is `apply_retry_blocked` and `.applied` is
`applied_at`.

In every module a pc names the statement a thread or process will execute next: between
two of its actions any other actor may run.  Every action over a table is one
transaction: the code opens each with `BEGIN IMMEDIATE`, so
they are serial, and a transaction that rolls back is a step not taken.  What happens outside of
a transaction (a call of the driver, a spawn, a file operation, a read that is used later) is an action
of its own, and a process may die before it.

- Cells: `generation[p]` is the generation row of the worker identity of process `p`, `lease[a]` the
  application lease of attempt `a`, `session[p]` the local handle of `worker_runtime_cell_shadow`.
- Leases: a lease id stands for a bundle of profile and page, which the code always acquires
  together.  `known[p]` is the broker's `_known`.
- Turns: ids are numbered as their rows are inserted, so "the latest turn" is the largest.
  `agent[t]` is the subprocess, which outlives a dead launcher.
- Profile: `mutex` may be `"abandoned"`, what Windows reports when its owner died; `alive` are the
  processes whose browser may still run, although they may be dead.
- Documents: a document is known by the posting it was checked against, so a resume is the version of the description
  that its text was compared with.  `jobRow.cover` is `cover_status`, `.filed` says that `cover_letter_path` is set, `.approved` is
  the revision that `cover_approved_hash` stands for.  `kept` and `slips` are history: what the trigger held back, and which documents were
  written after the description had moved on.
- Writes: an operation is everything its digest covers: lease and epoch of the page and
  the scope (provider, page, material).  `called` and `touched` are the world: whether the driver was
  really called, and how many controls were really written.
- Tasks: time is what it made true of a row (`expired`, `due`, `late`).  `attempt_count` and `lease_epoch`
  always count alike and are one number.
- Pipeline: `todo[s]` is what the pending query of `s` selects, without its clause on eligibility; `ineligible` is that clause, `RowsDue(s)` both.
  `taken[s]` are the rows a batch has read and not yet written.
- Turn supervision: a line of the agent is what `ApplicationSupervisorLoop` reads of it; `changed` sums up page
  signature, validation and last effect.

### What is abstracted

Eligibility, ranking, manifest matching and admission only
narrow the candidates, so `Select` may take any candidate the status filter admits.
A prepare turn, with its preflight, repairs and waits, ends in any of the outcomes
the loop can record; so does the observation of a Submit turn.  A portal is blocked
whenever the code could do so.  Job statuses no guard tells apart (`skipped`,
`manual`) are one, as are the attempt phases other than `reservation`.  Time is in
ticks.  The counters of attempts per job only restrict retries and are left out.  A
worker that is refused holds the submit lane to the end of its loop in the code; the
model frees it at once, which only admits more behaviours.

Checks that compare identities, digests and bindings, and then refuse and change nothing, are left out
of the commands.  In `SemanticWrites` and `PatchBatches` one attempt may be in the hands of several
processes: production draws a fresh attempt id per acquisition, so there it is one, and the modules
check what the journals promise to any caller.  The same holds for `RecoveryCommands`, whose commands have
one caller each in production.

In `JobMaterials` a language model, a validator, the router or a person decides as it likes.  A score below the minimum is as good as none.
One letter file stands for all: its name is made of employer and title, so the versions of a posting share it when only
its description changes.  Of the inputs that a score is bound to only the posting changes.

In `StagePipeline` a row is known by the stages whose pending query asks for it.  Whether its address is still relative is not
remembered, and any verdict on eligibility may change when a batch judges, since profile and text may have changed: both only admit
more.  A batch writes row by row; score commits its rows at once, which only admits more orders.  What a batch does to a row is one of the
outcomes its update has (`AfterBatch`), taken from what the row is by then, because the updates go by URL.  In `TaskGraph` a runner's result
is looked at when it is collected.

An operator marked `Mutant of D` in a module is `D` with a plausible mistake.
Nothing refers to it; it documents which mistake breaks a property.

## What the runs check

Deadlock is not checked because a bounded system stops: ids run out, clocks end, runs finish.

| Run | Instance | Properties |
|---|---|---|
| `MCworkers` | two processes, a batch each, a host, one job, reconciliation | `SystemTypeOK`, `OneAttemptPerJob`, `NoRetryAfterSubmit`, `NoSecondSubmission`, `RecoveryKeepsSubmit` |
| `MCwriters` | two processes of one batch, two jobs, a gap of one tick, success target one, two receipts | `SingleWriter`, `OneSubmitter`, `ClaimsSpaced`, `TargetNotExceeded` |
| `MClimits` | a worker and a host, two jobs, at most one claim in two ticks, reset and mark applied | `GatesMatchUses`, `BatchCapacity`, `RollingCap` |
| `MCattended` | a worker and a host, one job, reconciliation and mark failed | `AppliedIsReceipted`, `SubmissionInvariant`, `AttemptsMoveForward`, `ImplementsAuthority` |
| `MCliveness` | a dry run and a real one, one job, `FairSpec` | `JobsNeverStuck` |
| `MCruntime` | two processes, two attempts, clock of three ticks; cells, leases, turns, profile and documents in turn | `RuntimeTypeOK`; cells: `TablesAgree`, `ImplementsExclusion`; leases: `LeasesAgree`, `OnlyHolderEnds`; turns: `OneWorkingAgent`, `WorkingIsRecorded`, `UnknownSubmitIsLast`; profile: `OneBrowser`; documents: `MaterialsAgree` |
| `MCjournals` | two processes; the nine parts of the journal system in turn | `JournalsTypeOK`; `UploadsAgree`, `LegacyBeforeUpload`; `BatchIsExact`; `CancelHolds`, `EffectsOnce`, `ClaimsBounded`; `RunAccounts`; `VerdictsAgree`; `EffectsExact`; `StagesDrain`; `GraphIsScheduled`; `SupervisedTurn` |

What each property says is written above its definition.  The properties of the submission system
are in `ApplicationSystem`, the others at the end of their component's module.

### Bounds

*Submission.*  Every run has two attempts, one or two jobs and a clock of two or three ticks
with leases of two: enough for an attempt to expire, be recovered, and a second
one to start on the same job while the first worker is still acting.
`Attempts` = 2 is the smallest number at which two actors compete and at
which a stale one meets its successor.  `MaxTime` is one more than the lease where a
successor must be seen to expire too, otherwise equal to it.  `Hour` = 2 or 3 makes claims
leave the rolling window.  `MaxSubmissions` = 1 lets a batch fill; the runs with two
jobs in one batch use 2.  One receipt suffices where a receipt only has to be bound twice;
`MCwriters` needs two to count two successes.  Attempts are symmetric (ids are
random); so are jobs where no posting is shared, and workers where one batch serves
both.  `MCliveness` uses no symmetry.

*Runtime.*  Two processes and two attempts compete for two cells and one hostname.  Cell
leases of two ticks under a clock of three expire while their owner still acts.  Two lease ids let a
successor follow an expired lease; `TurnTtl` = `DefaultTtl` = 2 and `HandoffTtl` = 1 are all within the
clock.  Three turns allow a turn, its recovery and a continuation.  Both processes run their one worker
in the main thread (`SingleWorker`), where Ctrl+C may interrupt a launch.  Leases, profiles, attempts and
processes are symmetric.  The description changes once, which is what a read, a change and a late write need; of five
selections of operations two are under way at a time, with two assessments, resumes and letters each, so that a second one meets what a late first one left.

*Journals.*  Three page leases give a writer, a successor, and a return of the first; one epoch
advance per lease makes a page state stale under a live lease.  Two field sets, one inside the other,
let a batch meet a prior for the same and for another set.  One read task and one effect, one retry and two
faults reach every branch of the reaper.  Two threads and two URLs with targets of one and a cap of two let a run
overshoot if it could.  Three orders give one command of each kind.  A recovery budget of two lets a command start a
second time.  The pipeline has one row, a failure budget of two, and four selections that differ in who waits for whom:
score with enrich, which may run out of budget, and without it, while discovery feeds both; pdf with cover and without it, while tailor
feeds both.  Where a row is pending is kept for the selected stages only.
The graph has three tasks in order, of which the third requires both others, beside a fourth: the third and the
fourth both count toward a target of one, two tasks share a conflict key, one claims the whole lane of two units at once and another
in two claims of one unit, which together with a task in flight exceed it, one has a retry and two have deadlines.  A turn has one call that looks and one that types; equal calls are counted to four,
past the last level.

Parts of `RuntimeSystem` and `JournalSystem` write no common row and read none of each other's, so
their steps commute, and a property of one part depends on its own steps only.  An instance therefore
lets one part move per behaviour (variable `focus`): every reachable state of every part is visited, but not their
product.

### Fairness

`FairSpec` makes each worker weakly fair as a whole: the loop of
`_worker_loop_with_port` runs until it is stopped, and a process that died is
started again.  A crash is one of the fair steps, so nothing is promised about success;
only recovery, which every acquisition starts with, is.  The host and the operator
are not fair.  `TurnTick` does not let a Submit turn outlast its lease, because
`application_lease_minutes` exceeds the agent timeout by about two minutes or more;
every other step may take for ever.  Of the runtime and the journals no liveness is claimed: they fail
closed, and a row that a dead process left may stay for ever (see below).

### Where the code and its words differ

Five runs expect a violation.  Each checks one property that a comment, a docstring
or a document states, and TLC finds a behaviour of the code that breaks it.

- `MCposting` (`NoSecondSubmission` with two URLs of one posting and two threads of one
  process, which the submit lane keeps apart): the duplicate
  recheck looks at outcomes and receipts, not at applications in flight.  Once the first
  application's lease has expired, or its gate has left `claimed`, while its job row
  is still `in_progress`, the second is let through.
- `MCreset` (`NoSecondSubmission`): `reset_failed` also resets `applying`, the status
  of an attended job whose Submit was latched.
- `MCrecovery` (`RecoveryKeepsSubmit`): recovery finds the job row by URL, so an old
  expired attempt can free the job of a newer attempt that is submitting.  A reset must
  have freed the job in between: `LiveSubmitsStay` proves that it does not happen without one.
- `MCclosable` (`UncertainIsClosable`): recovery leaves the gate `claimed`, and a receipt
  that names a claimed gate is rejected.  Only a worker's submission comes to this: the host writes gate and consumption in
  one transaction, and `AttendedStaysClosable` proves that nobody separates them afterwards.
- `MCsticky` (`AppliedIsSticky`): a dry run whose lease expired restores the old row over
  one that a receipt proved applied.  `OnlyPreviewsUndo` proves that nothing else takes a job out of `applied` while the
  operator only reconciles receipts, `ReceiptsStand` that without dry runs the property holds.

Other differences were met while modelling.  They are steps of the models, and the properties
state the exact boundary instead of reporting them:

- *Ledger.*  An attempt that outlives its lease, or a late receipt, can take a run past its success
  target (`TimelySuccesses`).
- *Run progress.*  A second attempt at a URL, which two threads can make because the attempted set is read
  before and extended after acquisition, leaks its claim and loses its success (`again`).  Threads that share a preview ticket
  can exceed the "strict cap" of `run_progress.py:125`.
- *Cells.*  `close_generation` with a live lease quarantines the generation and leaves the lease
  live; after a crash generation and lease stay live for ever.  Both fail closed.
- *Leases.*  `BundleCanAdvance`, a part of `LeasesAgree`, needs `TurnTtl` <= `DefaultTtl`.  A turn leases the configurable
  `application_lease_minutes`, an advance asks for the broker's 45 minutes, and an expiry may not move back:
  with a longer setting the first advance of a page parks the application.
- *Profile.*  A Ctrl+C in the window of the spawn, in the main thread, is not caught by `except Exception`; the handler then
  removes a sidecar that a running browser needs, or another launcher's (`slipped`).  `kill_all_chrome` promises
  "no orphan Chrome processes".
- *Documents.*  `docs/resume-library-curation.md:11` says that a change of the description invalidates the resume and the letter's approval.
  The trigger does that, but only the scorers look again at the row before they write: tailoring, reuse,
  revalidation, letters and approval write by URL, and a late one makes the row look validated.  A resume made for the old description is then registered as exact
  evidence for the new one.  A failed revalidation puts back the path that the trigger took away, and a letter that is approved may be another text by then.  A job
  that is opened again after an uncertain Submit stays out of the trigger's reach (`kept`).  `MaterialsAgree`
  holds for every write that is not one of these.
- *Turns.*  The reader takes its time before it takes `supervisor_control_lock`, the stall tick inside: a tick in
  between makes `observe` raise "time ordered" and ends a healthy turn.  The launcher emits no idle event, so
  `tick` never intervenes.  A supervisor that parks after an uncertain effect in prepare ends in
  `failed:supervisor_parked_manual`.  The lease heartbeat ends silently on an error that is not the broker's
  (`HeartDies`).  On Windows a killed agent returns a positive code, so a skip by the operator falls through to
  the agent's own output.
- *Operator.*  A resume whose evidence is not exact stays `started`; the expiry then raises
  `OperatorUnknownReplay` and the pair stays open, while the docstring of `wait_for_requested_resume` says that it
  expires.  The recovery budget is read outside of the transaction of the command, so two reconciliations may
  together exceed it.
- *Recovery.*  A slow live runner and a reaper can leave a command both verified and failed.
- *Pipeline.*  The comment at `pipeline.py:46` says that a stage finishes when its upstream is done and nothing is pending.  A stage counts
  its rows, then looks upstream: rows that come in between stay behind, as do rows that a later batch judges eligible after
  all (`gap`).  The waits follow one chain and the rows do not.  Discovery stores rows with their full description
  (`jobspy.py:307`, `workday.py:313`), which are pending for score at once, while score waits for enrich alone: where enrich was
  not selected, or has spent its failure budget, score ends while discovery still makes rows pending for it.  With `tailor` and `pdf`
  alone, cover is marked done at the start and pdf may end before tailor.  `FedThroughUpstream` says exactly for whom the chain is whole.  A
  `_count_pending` that raises kills the thread of its stage without an event (`CountFails`): the stages behind it poll until they are interrupted.  The pending query of pdf never empties in some
  selections, nor that of enrich over skipped sites, so a streaming run ends only when interrupted.  An interrupted stage reports `ok`.
- *Task graph.*  Results a task requires are checked only in the scan, over a set in arbitrary order, and a blocked or timed
  out one is not looked at by the rest of that scan: when `A` fails, `B` is blocked for it in the same scan and `C` requires
  both, `C` starts, beside a requirement that failed (`StartedInOrder`).  A cancellation between
  scan and start with nothing running raises "no task can make progress".  A result under another task's id and a reducer that raises
  end the coordinator too, from the middle of a round and without a cancellation: what was pending stays so, calls in flight run to their end, and the one task
  that was being collected may be in no set and have no result (`GraphEnds`).  `resources_available` looks at each claim of a task by itself and `reserve` adds
  up all of them, so a task with two claims of one key can exceed its capacity, by no more than its claims beside the largest (`ClaimsFit`).

## What is proved

Eight modules are checked by TLAPS for every value of the constants that satisfies
the named assumptions of the module they extend.  `CapacityHolds`, `AuthorityImplemented`, `CapOfTheWindow` and `TargetsHold` also
need `LedgerFinite`, because cardinalities of infinite sets mean nothing.  What else a theorem excludes stands in its ASSUME
and is explained below.

| Theorem | States |
|---|---|
| `InvariantHolds`, `TypeCorrect`, `GatesAndUsesAgree` (`SubmissionProofs`) | `SubmissionInvariant`, `SystemTypeOK`, `GatesMatchUses` always hold |
| `LatchesAreGated`, `ReceiptsAreOwned` | the conjuncts of the invariant that matter by themselves |
| `CapacityHolds` | `Spec => []BatchCapacity` |
| `AttemptsOnlyMoveForward` | the action property `AttemptsMoveForward` |
| `AuthorityImplemented` | `Spec => ImplementsAuthority`, the refinement of `SubmissionAuthority` |
| `AppliedAreReceipted` (`LedgerProofs`) | `Spec => []AppliedIsReceipted` |
| `OneWriterHoldsTheGate`, `OneSubmitTurn` | `Spec => []SingleWriter`, `Spec => []OneSubmitter` |
| `ClaimsKeepTheGap`, `CapOfTheWindow` | `Spec => []ClaimsSpaced`, `Spec => []RollingCap` |
| `JobsHaveOneAttempt`, `SubmittedJobsStay`, `LiveSubmitsStay` | `OneAttemptPerJob`, `NoRetryAfterSubmit`, `RecoveryKeepsSubmit`, if nobody resets an attended job |
| `PostingsSubmittedOnce` | `NoSecondSubmission`, if also no two job rows share a posting |
| `TargetsHold` | `Spec => []TargetNotExceeded`, if receipts are not mixed with other commands |
| `GateIsExclusive` | the refinement of `Exclusion` by the submission gate, of the whole ledger (`GateIsALock`) |
| `OnlyPreviewsUndo`, `ReceiptsStand` | a job leaves `applied` only when a dry run writes back; `AppliedIsSticky` if there is no dry run; both if the operator only reconciles |
| `AttendedStaysClosable` | gate and consumption of a settled attended attempt fit a receipt (`AttendedIsClosable`) |
| `ProfilesGuarded`, `OneBrowserRuns` (`ExclusionProofs`) | the invariant of the profile; `OneBrowser` |
| `CellTablesAgree`, `CellsExclude` | `TablesAgree`; the refinement of `Exclusion` by `RuntimeCells` (`ImplementsExclusion`) |
| `LeasesEndFairly`, `LeasesHold` | the action property `OnlyHolderEnds`; `LeasesAgree`, the latter under `AdvanceIsLongest` |
| `LeasesExclude`, `EpochsFence` | the refinement of `Exclusion` by the leases that are live on a profile or a page; of one profile no two leases ever have one epoch (`EpochsDiffer`) |
| `MaterialsFit`, `MaterialsBelong` (`RuntimeProofs`) | the invariant of the documents; `MaterialsAgree` |
| `TurnsAgree`, `OneAgentWorks`, `WorkIsRecorded`, `NothingAfterUnknownSubmit` | the invariant of turns; `OneWorkingAgent`, `WorkingIsRecorded`, `UnknownSubmitIsLast` |
| `RuntimeComposes`, `RuntimeTyped`, `RuntimeHolds` | `RuntimeSpec` implements the specification of each part; `RuntimeTypeOK`; the properties of the parts, of `RuntimeSpec` |
| `TasksTyped`, `CancellationsHold`, `EffectsClaimedOnce`, `TaskClaimsBounded` (`JournalProofs`) | `JournalTypeOK`, `CancelHolds`, `EffectsOnce`, `ClaimsBounded` |
| `EffectsAreExact`, `OneVerdict` | `EffectsExact`, `VerdictsAgree` |
| `UploadsAreOnce`, `LegacyComesFirst`, `BatchesAreExact` (`WriteProofs`) | `UploadsAgree`, `LegacyBeforeUpload`, `BatchIsExact` |
| `TurnsAreSupervised`, `StagesAreDrained`, `GraphsAreScheduled`, `RunsAccount` (`ScheduleProofs`) | `SupervisedTurn`, `StagesDrain`, `GraphIsScheduled`, `RunAccounts` |
| `PartsCompose`, `JournalsTyped`, `JournalsHold` (`SystemProofs`) | `JournalsSpec` implements the specification of each part; `JournalsTypeOK`; the properties of the parts, of `JournalsSpec` |

*The ledger.*  The properties are not inductive: that a latch has a gate depends on a
worker knowing, when it writes the latch, that its attempt was granted the gate some
steps earlier, and that nobody else holds that attempt.  `SubmissionInvariant` says what
each pc entitles a worker to (`WorkerKnows`), that attempts are not shared
(`AttemptsDistinct`), what each phase of the host implies (`HostKnows`) and that an unused
id has no rows (`AttemptKnows`).  Instead of proving each property for each of some forty
actions, the proof first shows that every step has one of three shapes (lemma
`StepShape`): it is quiet for the gate tables, it grants one gate, or it latches attempts
that have a gate.  `GateTables`, `CapacityStep` and `AuthorityStep` then need only the
three shapes; `InvariantStep` combines them with `WorkersKnowAfterWorker`, `WorkersKnowAfterHost`
and `WorkersKnowAfterOthers`.

Three smaller invariants stand on that one.  `ReceiptInvariant` adds that a worker about to write
`applied` has seen the receipt (`ReceiptSeen`); it survives the steps of others because a bound
receipt is never bound elsewhere (`BindingsStayStep`).  `WriterInvariant` adds that a worker keeps its
claim from the reservation to the end of its Submit turn, and its lease during the turn
(`HoldsWrite`).  It survives because a lease that ended never becomes live again (`LeasesKept`), a
claim looks for other writers in its own transaction (`ClaimsChecked`), others leave a live attempt and
its claim alone (`LeftAlone`), and the clock waits for the turn (`TurnTick`).  `RateInvariant` adds
that claims lie in the past and that a cancelled gate belongs to an attempt that failed.  A gate that counts after
a step counted before with the same time, or was claimed in the step, alone and within the limits (`CountsMove`); hence
neither gap nor cap is broken by a gate that changes its state later.

*The gate as a lock.*  `Exclusion`, the lock that the cells implement, is also what the gate implements, with the live writers as its
users.  `GateLockStep` sorts the steps by who may write afterwards: the same, one attempt that was granted the gate while nobody had it, or
fewer.  That nobody hands the gate over in one step is more than `SingleWriter` says.

*Receipts for attended jobs.*  The host settles a Submit by writing gate and consumption at once (`HostWritesBoth`).  A worker reaches
another row of these tables only through the attempt it holds, and a host attempt is no worker's (`WorkersStayAway`); a receipt for it again
sets both (`ReceiptSetsBoth`).  So the pair stays one that `reconcile` accepts or has accepted.

*Jobs.*  A job row tells less than its attempts: recovery, `release_lock` and the end of a dry run write to the row that has the
URL, whoever it belongs to by then.  `JobInvariant` therefore relates every row to all attempts at it: a row in progress is that
of an attempt in progress (`JobHeld`), beside which no other may have submitted (`PressesAlone`), and of all attempts one
at most may have (`OnePress`); what a dry run writes back was claimable, and nobody submitted since while the row still
names its attempt (`WorkerJob`).  As with the gate tables, the proof first sorts all steps by what they do to a job (`JobMoves`):
it stays, is set to a status that is offered to nobody, is drawn by a new attempt, or ends.  `reset` is none of these, and with it
the theorems are false: `MCreset` and `MCrecovery` are the counterexamples.  `AppliedStep` goes through the same writers for a row that is
`applied`: recovery and a worker's release write to rows in progress only, and who is about to write another outcome still owns such a row.  So is `PostingsSubmittedOnce` where two rows share
a posting (`MCposting`).

*The target.*  It is tested against successes that are recorded, in the transaction that claims the gate, while the success itself
comes later and from another transaction.  `ClaimFits` bridges the two: a batch with a live claim is one success short.  It survives because
of all gates only one is claimed by a live attempt (`SingleWriter`), so nobody else's success comes in between, and
because a worker that writes `applied` spends a claim (`WritesOnce`) that nobody gives back.  A receipt is reconciled only with a job
that is not in progress; `KeptInvariant` says that the job of a live attempt is.  The hypothesis is needed: two workers whose gates are
uncertain and who have not marked their jobs yet, both jobs marked failed by the operator, and a receipt for each, make two
successes where one was the target (TLC finds these 22 steps if `MCwriters` gets both commands).  The batch of the host is left out since the host gives no target.

*Turns.*  A launcher between its reservation and its prompt owns the one running row; an agent that works is
bound to a running row, and the reconciliation that precedes every reservation ends no row that is
bound to a live agent.

*Profile.*  Whoever passed the check of the sidecar is alone with the profile until the sidecar is
gone, so that neither an abandoned mutex nor one that was released first lets a second browser in.

*Cells.*  A session that is past its claim has the lease row of its attempt, and that row names the generation of its process; a registration
looks for other users of the cell, a claim for those of the host, each in its own transaction.  So what the tables call live is what `Exclusion` calls
used, and an expiry, which the registry only observes, moves neither.  `Cells` and `Hosts` must be disjoint, since the abstract
lock has one kind of resource.

*Leases.*  What is active contends with nothing else that is active, whether or not its time is over, and is the
newest row of its profile (`RowsApart`).  An insertion keeps this because it looks again: its epoch was read in another transaction, but
if a row was added since, the newest epoch differs and it is refused.  An acquisition read the clock before now
(`SeatsFit`), so what it marks as expired has expired.  `LeasesHold` needs that no renewal asks for more than a page advance does
(`AdvanceIsLongest`), for the reason given above.  `EpochsBounded` says that the epochs of a profile have a greatest one, although
the theorems admit infinitely many lease ids.  One transaction inserts one row (`OneIsInserted`), with an epoch above all that its profile
ever had, so that the epoch is a fencing token (`EpochsDiffer`) without an index that says so.  A lease whose time is over but that nobody marked may come back
to life by a renewal that read the clock before; `LeasesExclude` shows that even then nobody else is alive on its profile or page.

*Documents.*  What an operation holds in a phase says what it may still write (`OpFits`): a resume made anew fits the posting that was
read.  Every step changes the posting, and the trigger with it, or moves each document to one that fits or leaves a slip (`MaterialStepShape`).
A letter that is filed fits whatever its status says (`LetterFits`), since a later approval or exemption changes the status only.

*Tasks.*  A worker that is about to write a result holds the newest epoch of its task or writes nothing; a
task that is no read is claimed from epoch zero only; each further claim has been paid for by a retry or a fault.

*Recovery and verdicts.*  Only the caller that stored the start of a recovery command may bring its effect about, and one key
admits one start.  Of an exception the proof follows what each caller may still rely on (`OwnerKnows`, `OperatorsKnow`): whoever is
about to store a verdict has its evidence, evidence is never withdrawn, and the transaction looks at the exception once more, so that
the first verdict is the last.  That an owner who stops leaves it open only over an unknown outcome needs `RowsKnow`: in
its lane no command but the one resume ever starts.

*Uploads.*  The claim of an operation comes before the page is validated.  So a
writer that may call the driver is alone with its page state and first (`Alone`), one that holds the page it looked at knows
of nobody else's claim (`ClaimsKnown`), and writers that are busy hold distinct leases (`OpsApart`).

*Batches.*  A page lease is granted in increasing order, and of the batches of one set of fields at most one belongs to each.  Whoever
may write to the page leads: no batch of the same fields was begun under a later lease (`WritersLead`).  A set that the agent was
given back belongs to a batch without effect that leads too (`GrantsLead`), so nobody writes it afterwards, whoever was slow meanwhile.

*Pipeline.*  A stage that looked upstream misses at most what came since its count (`LooksTrue`).  Who is about to leave content has an upstream that
ended (`UpstreamFirst`).  Where every stage between it and whatever makes rows pending for it was selected and kept within its budget, each of
them waited for the one before (`WaitedFor`), so that all of these ended first (`FeederEnded`) and nothing more can arrive
(`GapsTold`).  Of a row's writers, the proof asks only for which stages they may leave it pending (`ArrivalsKeep`): discovery and enrichment for
enrich and score, the batches for the stages behind them.  A verdict that changes moves rows into `gap` for whoever has already counted (`BatchKeeps`).
Where the chain is broken nothing is promised.

*Task graph.*  What is in use is, unit by unit, what the tasks in flight claim (`UseFits`); a ready task was passed by the scan with its requirements met,
or was settled late in the same scan (`ScanKnows`).  That a round with nothing in flight starts something (`RoundsMove`) is where the graph must be finite
and without cycles, as `execute_task_graph` checks at entry.  A task may claim one
resource twice: when a task starts, its largest claim fits beside what is in use, and who was let in last bounds the excess (`UseFits`, `PoppedFits`).  A step that ends the coordinator
leaves at most one task without a place (`TasksApart`).  The proof showed an earlier form of `StartedInOrder` to be wrong: it held in a chain, but
not for a task with two requirements, of which the graph of the run now has one.

*Run progress.*  A claim without a reservation belongs to a thread that will still record it, or died (`ClaimsBacked`); a success
without a count to one in its `finally` block (`SuccessesCounted`).  Tickets out and previews counted never exceed the target together
(`PreviewsBounded`), and each working thread's URL is that of its ticket.

*Composition.*  A step of `JournalSystem` or `RuntimeSystem` is a step of one part and a stutter of the others (`OnePartMoves`,
`OneRegistryMoves`); in the runtime the clock is common, so a tick of one part is a tick of each.  Hence `JournalsSpec` and `RuntimeSpec`
imply the specification of each part (`PartsCompose`, `RuntimeComposes`), and the theorems hold of what the runs explore
although each is proved of its part alone.

*Supervision.*  Whoever kills the agent leaves a mark before the reader looks for it: the event of the watchdog, the
parked control, or the failure of the heartbeat.

**Only model-checked:** `JobsNeverStuck` among the properties of the passing runs, since liveness under fairness and `ENABLED` are
out of this prover's reach; and of the theorems on jobs and targets what their hypotheses leave out, as far as the runs reach:
`MCwriters` has no command, `MCworkers` and `MCattended` reconcile receipts.  Induction over data is out of reach too,
but no property here needs it.

## Plan

1. (done) the ledger, its actors, the abstract authority, the invariant and its proofs.
2. (done) run progress; cells with their abstract lock; browser leases; agent turns; profile lock.
3. (done) task journal, semantic writes, patch batches, operator and recovery commands.
4. (done) the streaming pipeline, the task graph, the supervision of a turn, the documents of a job.
5. (done) proofs: rate limits, turns, cells, leases, profile, documents, tasks, recovery, verdicts, uploads, batches,
   supervision, stages, graphs, runs, the composition of the runtime and of the journals, jobs and targets; the gate and the
   live leases as locks, the fencing of epochs, and how far the findings of `MCsticky` and `MCclosable` reach.
6. Left: page epochs and browser leases in one module, so that a page advance and a write compete for one row.

## Not modelled, and why

Text and page analysis, prompts, the validation and rendering of documents, scraping, the command line and the
views are I/O or pure text functions: no interleaving or failure of theirs changes who may
submit.  They are the larger part of the repository by lines.  Within the ledger: retention (`prune_runtime_history` deletes closed rows that no guard here
reads), risk events and performance rows, the reservation without an attempt id, which no caller that
acquired a job takes, and schema migration.

The in-memory browser broker is replaced by the durable one in production; of it only the lease heartbeat is modelled.  The app
server backend runs as a shadow whose results nobody takes; a turn that finds its attempt bound to it, through a binding that was
stored, ends as `submission_uncertain` or as failed, which are outcomes that any turn may have here.  Batches in mode shadow compare and write nothing.  Agent events and
checkpoints are inserted under a unique key and read by no decision that is not modelled here.  Session and
actor hold the state of one attempt within one thread; what they start and end are the turns of `AgentTurns`.
Episodes are durable, with commands admitted once, but only the worker of no-submit diagnostics (`apply/p4_no_submit_worker.py`)
writes them, in one thread per episode, and no application reads them.
Proposal waves and execution plans sort and group their arguments once.
