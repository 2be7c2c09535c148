# A TLA+ model of the Silver test tool

The repository is a multi-user test workbench: engineers keep test cases in a
collaboratively edited matrix, submit them as *tasks*, and a worker process runs
each task on a licensed simulator (Silver) and records a verdict. The program
logic that is hard to test is in the concurrency of the worker process, in the
protocol between the web process, the message queue, the database and the
evidence files, in the engine that executes a test inside the simulator and
decides its verdict, in the collaboration server, in the rows that runs, people,
imports and reviewers all write, and in the recovery of long-running AI and
unit-test jobs. This directory models these seven.

All source paths below are relative to `src/`.

## 1. Inventory

### Parts, their state and how they interact

| Part | State | Operations | Talks to |
|---|---|---|---|
| Silver pool, `app/runners/silver_pool.py`, `slots.py` | `_idle`, `_live`, `_size`, `_in_use`, `_target`, `_closed` under one condition variable; the label allocator under its own lock; one external process per instance | `set_target`, `prewarm`, `acquire`, `release`, `poison`, `force_stop`, `shutdown` | called by the Huey threads, the reconcile thread and the exit handler of `run_worker.py`; by the monitor thread of each run |
| Run lifecycle, `app/jobqueue/tasks.py`, `app/runners/test_runner.py`, `app/services/run_*_service.py` | the task row (`status`, `run_count`, `cancel_requested`, `deleted_at`), one `RunEvidence` record and one evidence directory (`manifest.json`, `execution.json`, `outcome.json`) per attempt, Huey's queue | receive, claim, execute, seal, commit, finalise; periodic and startup recovery | the row is also written by the web process; files and rows are bound by digests |
| Task service and routes, `app/services/task_service.py`, `app/routes/lanmatrix/tasks.py` | the task row | submit, retest, cancel, cascade, delete, restore, fail a submission | publishes messages `<task, run_count>` after its commit |
| Licence gate, `app/services/license_service.py` | counter, limit and drain flag in `app_settings` | `try_acquire`, `release`, `reset_in_use`, `begin_drain` | conditional updates by every worker thread |
| Worker process, `run_worker.py` | threads | startup recovery, reconcile loop, exit handler | owns the pool |
| Judge, `app/runners/silver_json/*` (the step engine, its entry points), `app/runners/test_runner.py` (the parser) | a generator per active subroutine, `TestContext` (step number, `test_python_over`, the stack of arguments), the log file | `pre_init`, `MainGenerator`, `run_test`, `run_subroutine`, `pre_cleanup`; `parse_verdict_text` | Silver resumes the generator once per macro step; the worker reads the log when the run is over |
| Collaboration server, `app/collab/*` | rooms (shared documents), the updates of each document, the write-back queue, a materializer per room | hydrate, edit, reconcile, evict, drain the queue | writes documents over the rows that run write-back also writes |
| AI generation, `app/services/ai/jobs.py`, `app/routes/lanmatrix/ai.py` | draft rows with attempt, heartbeat and publication lease; a semaphore and its owners; a recovery cursor | publish once, claim, touch, finish, recover; cancel, retry, review | Huey, an external provider |
| Unit-test pipeline, `app/services/ut_pipeline/*`, `app/jobqueue/ut_tasks.py` | batch and job rows, versions of a candidate, the generation gate | generate, drive, revise, retry, review, stop, recover | Huey, a generator, a Host that runs candidates, a model |
| Event log, `app/services/event_service.py` | append-only rows | emit, stream since a cursor, prune | written by runs, read by browsers |
| Matrix rows, `items_service.py`, `batch_service.py`, `import_job_service.py`, `review_service.py`, `exemption_service.py`, `run_writeback_service.py` in `app/services/lanmatrix` | `TestItemRow` with a version, previewed import jobs, audit entries of batches, run records | edit, create, delete, restore; batch and undo; preview and commit an import; record a run; request and decide a review; claim and decide an exemption | browsers, the worker's finalisation, the collaboration server |
| Trash, users, projects, comments, dashboards, … `app/services/lanmatrix/*` | rows | CRUD behind permissions, queries | |

`PROJECT.json` lists every part, with the reason where it is not modelled.

### What is hard, and what makes each part correct

*Pool.* Instances are created outside the lock under a reservation, so that
resizes, failed creations and the exit handler interleave with it; labels are
recycled outside the lock; the monitor of a cancelled run kills a process
asynchronously. Correct means: the counters equal what they count, so that no
path loses licensed capacity; instances do not outnumber the limits; two
processes never share a label (and log file); nobody is lent an instance that
somebody else holds, that was retired, or from a closed pool; the exit handler
leaves no process behind.

*Run lifecycle.* Messages are delivered at least once and may be lost; the row
is written without a lock by cancellation; the worker may die between sealing
an outcome on disk, committing its digest and finalising the row; recovery
finalises concurrently with workers. Correct means: one executor and one run
record per attempt; a verdict, once decided, stands and agrees with the sealed
outcome; an outcome belongs to the attempt that produced it; every queued
attempt is served and every running one ends; licences are accounted for.

*Judge.* Time passes only where the outermost generator yields; subroutines nest,
bind parameters, share one context, and may fail at any depth; Silver loads the
module twice, tears the first instance down when it likes, and may stop a run in
the middle. Correct means: the verdict read off the log is the one the signals
deserve; arguments stay with their call; every run ends.

*Matrix rows.* A request loads a row, computes, and commits later. Edits claim
the version they started from, imports compare everything under a table lock;
runs, batches, reviews and exemptions take no lock. Correct means: nobody
overwrites content he was not shown; a version number names one content; what
was signed off is what the row shows.

*Collaboration.* A row has three copies: the database row, the live document,
and the persisted updates of the document. Runs write the first, people the
other two, and the materializer copies the document over the row with a snapshot
that may be old. Correct means: once nothing is on its way, the copies agree and
show the last run's evidence and the last edit; no accident costs a person's
edit; the materializer comes to rest.

*AI generation.* An attempt is published at least once, by the request, its
retry and recovery; the provider may answer late; threads and the process may
die with a slot. Correct means: an attempt is claimed once; only the current
attempt leaves a result; a human's decision stands; slots are conserved; every
generation ends.

*Unit-test pipeline.* A driver works without a lock on a job that people revise,
retry, review and stop. Correct means: what waits for review, or was approved
without a note, carries passing evidence of its own version; one driver per job;
nothing is left behind in a closed batch; every active job reaches a human gate.

The list of hazards, each at its line and with the properties that cover it, is
in `PROJECT.json`.

## 2. Modules

| Module | Models | Role |
|---|---|---|
| `SlotAllocator` | `slots.py` | instantiated by `SilverPool` |
| `InstanceLending` | the promise of the pool to its borrowers | abstract specification |
| `SilverPool` | `silver_pool.py` with the threads of `tasks.py`, `test_runner.py`, `run_worker.py` that use it | implements `InstanceLending` |
| `MCSilverPool` | the instance for TLC | |
| `SilverPool_proofs` | type correctness, accounting, no orphan, limits, labels | proofs |
| `SilverPoolLending_proofs` | the refinement of `InstanceLending` | proofs |
| `RunLifecycle` | one task and its attempts across web process, queue, worker and recovery | |
| `MCRunLifecycle` | symmetry for TLC | |
| `RunLifecycle_proofs` | type correctness, one record, one executor, passes are sealed, rows agree with seals, final statuses stand, licences | proofs |
| `JudgeRun`, `MCJudgeRun` | one test run inside Silver: step engine, entry points, log, parser | the MC module defines the test cases |
| `JudgeRun_proofs` | verdicts are earned, arguments stay with their call, type correctness | proofs |
| `MatrixRow`, `MCMatrixRow` | the rows of a matrix between edits, batches, imports, runs and sign-offs | symmetry for TLC |
| `MatrixRow_proofs` | type correctness, versions name contents, nothing unseen is overwritten, sign-offs stand | proofs |
| `CollabWriteback`, `MCCollabWriteback` | one row between runs, rooms, materializers and the write-back queue | |
| `CollabWriteback_proofs` | type correctness, no edit is lost, what has settled agrees | proofs |
| `AiGeneration`, `MCAiGeneration` | drafts between web requests, consumer threads and recovery | |
| `AiGeneration_proofs` | one claim per attempt, results and decisions, live attempts, permits, type correctness | proofs |
| `UtPipeline`, `MCUtPipeline` | batches and jobs between people, generation, drivers and recovery | the MC module defines the bounds |
| `UtPipeline_proofs` | type correctness, closed batches, one driver, evidence and decisions | proofs |

The components do not share variables. They meet where one calls the other, and
there each model takes what the other may do as a choice: a run needs a pool
instance (`RunLifecycle` grants it, `SilverPool` lets runs end in any way), its
finalisation writes evidence to rows (`RecordLoad`, `Record` of `MatrixRow`; with
the write-back queue, `RecordRead`, `RecordCommit` of `CollabWriteback`), and its
verdict is what `JudgeRun` reads off the log. `MatrixRow` is the matrix while no
room is open: the routes refuse REST writes while one is
(`routes/lanmatrix/projects.py:44-66`), and `CollabWriteback` is the other half.

### SilverPool and the code

One action is one critical section of `_cond`, or one call made outside it.
A thread's position (`pc`) is where it is between two of them; `stage` is its
position inside `_dispose`. `inst`, `slot` and `doomed` are the local variables
`inst`, `uid`/`reserve_uid` and `surplus`/`instances`. `running` is the set of
instances whose Silver process exists: it stands for the licence the process
holds. `aimed` holds the kills that a monitor thread has decided on and not yet
carried out.

| Code | Actions |
|---|---|
| `set_target` | `SetTarget` |
| `prewarm` | `PrewarmReserve`, `PrewarmStop`, `PrewarmNoModel`, `PrewarmDefer`, then the creation actions |
| `acquire` | `AcquireNone`, `AcquireIdle`, `AcquireReserve`, then the creation actions |
| `_make_instance` and what follows it in its callers | `Create`, `CreateFails`, `Register`, `DiscardOrphan`, `Unwind`, `Handover` |
| `release`, `_dispose` | `Release`; `DisposeDiscard`, `DisposeExit`, `DisposeRecycle` |
| `shutdown` | `Shutdown`, then the `_dispose` actions |
| a run, as far as it touches its instance | `RunRefused`, `RunOk`, `RunFails`, `FinishLogs`, `MonitorTrip`, `MonitorKill` |

Abstractions: which idle instance is popped (any, where the code takes the last);
waiting (a thread whose guard does not hold; the code polls); `should_cancel`
(may hold at any time); the argument of `set_target` (any configured limit or 0,
since the caller read it before taking the lock). An instance's identity may be
used again once no variable refers to it, which keeps the model finite.

### RunLifecycle and the code

A database transaction or the exclusive creation of a file is one action. What
the code reads in one transaction and writes in another is two actions with the
value carried in between: `RequestOpen`/`RequestWrite` for `request_cancel` and
`cancel_project_queue`, `GiveUp`/`MarkCancelled`, `HandleError`/`MarkFailed`,
`PeriodicScan`/`PeriodicFinalise`. SQLAlchemy expires a row at each commit, so
the model reads the row again wherever the code reads an attribute after a
commit; `Row(w)` is the row as `_finalise` has it.

`evidence[a]` is attempt `a`: `claimed` is `execution.json`, `sealed` is
`outcome.json` (its verdict, and the attempt whose inputs and result directory
produced it), `digest` is the committed `outcome_sha256`, `finalised` the
committed marker, and `records` counts the run records appended.

| Code | Actions |
|---|---|
| submission routes | `Enqueue`, `EnqueueFails` (with `fail_submission`), `EnqueueLost` |
| `requeue_task`, `upsert_task` | `Retest` |
| `request_cancel`, `cancel_project_queue`, delete and restore routes | `RequestOpen`, `RequestWrite`, `Delete`, `Restore` |
| `_run_task_pooled` | `Receive`, `GiveUp`, `MarkCancelled`, `DropMessage`, `LicenceBusy`, `HandleError`, `MarkFailed`, `Leave` |
| `try_acquire`, `_claim_run` | `TryAcquire`, `Claim` |
| `execute`, `_execute_backend`, `_monitor_cancel` | `Begin`, `Reject`, `StartBackend`, `MonitorTrips`, `RunEnds` |
| `_finalise`, `seal_attempt`, `finalise_attempt` | `Seal`, `CommitSeal`, `Finalise`, `FinaliseUntrusted` |
| `run_worker.main`, `recover_run_attempts` | `Crash`, `Restart`, `StartupScan`, `StartupFinalise`, `PeriodicScan`, `PeriodicFinalise`, `Republish` |

Abstractions: one task (others act on it only through the cascade of an
environment error, a request of kind `"cascade"`); the pool, whose instance a
worker needs, is `SilverPool`'s business and is always granted here; archives
are never corrupted by hand; run write-back is part of the finalisation
transaction and fails with it (`Breaks`); a drain is a message that is dropped.
The dedicated-instance path has the same protocol and no actions of its own.

### JudgeRun and the code

A generator is a frame of `stack` (the test, then nested subroutines), with its
step, its position in it (`at`), the time the step began, and the polls of its
checks so far. An engine action is what Python does between two points where the
model needs to look; Silver's turn comes at a yield.

| Code | Actions and operators |
|---|---|
| module load, `pre_init` | `Init`, `PreInit` |
| `run_test`, `run_subroutine`: a step's head, its actions | `EnterStep`, `CallSubroutine`, `CallFunction`, `Raise`, `CallWait`, `PollWait` |
| `push_params`, `pop_params`, `bind_arg` | `Binding`, `Bind` |
| `_judge_loop`, `_compare` | `JudgeWait`, `JudgeStep`; `Undecided`, `Compare`, `ChecksOk` |
| the end of a subroutine, of the test | `ReturnSubroutine` (`ResumeCaller`), `FinishTest` |
| `pre_cleanup`, `run_cleanup` | `Stop`, `TearDown` (`CleanupLines`) |
| `parse_verdict_text` | `ReadVerdict` (`CaseSection`, `ParseVerdict`) |
| Silver | `MacroStep`; when it suspends a run is its own choice |

Abstractions: time is counted in macro steps, a signal takes any value at each;
an equality's expected list is a set, and an interval a record; comparisons are
exact (the code rounds floats before an equality); the first, discarded load
never runs `pre_init`; arguments of a call are values, not further expressions.

### MatrixRow and the code

A request is a session with the copies of the rows it loaded (`held`). Loading
is one action and committing another; `Flush` writes, as SQLAlchemy does, only
the columns that differ from the copy, with `custom_values` as one column
(`json`).

| Code | Actions and operators |
|---|---|
| the browser's copy; `patch_item`, `update_item` | `Look`; `PatchLoad`, `Patch` (`Claims`, `Edited`, `Claimed`, `Resulted`) |
| `create_item`, `soft_delete_item`, `restore_item` | `CreateRow`, `DeleteRow`, `RestoreRow` |
| `batch_update`, `batch_undo` | `BatchLoad`, `Batch`, `UndoLoad`, `Undo` |
| `create_special_preview`, `commit_special_import` | `PreviewImport` (`Snapshot`), `CommitImport` (`Fresh`) |
| `record_run`, `apply_server_fields`, `request_review` | `RecordLoad`, `Record` (`Recorded`, `ServerFields`, `Requested`) |
| `review_service.decide`, `decide_bulk` | `ReviewLoad`, `Review` (`Signed`) |
| `exemption_service.decide`, `decide_bulk`, `write_untestable` | `ExemptLoad`, `Exempt` (`Exempted`, `LandsUntestable`) |
| `status_of`, `sync_pending` | `Exemption`, `SyncLoad`, `Sync` (`FirstOf`) |

`accidents` records of each row what its properties must except: `raced`, a
writer that takes no lock committed from an overtaken copy; `edited`, a person or
a workbook typed a verdict since the last run; `outrun`, a run that needs no
review came while a review was pending; `crossed`, a run asked for its review
from a copy whose `review_verdict` another run had replaced. Abstractions: an edited cell holds the
number of the request that wrote it, and evidence is a verdict and a stamp; a
workbook's evidence columns are empty; fields, order and the other sheets; the
few statements between the load and the commit of a deletion, and between the
rows and the snapshot of a preview; `CommitImport` is one action because
`_lock_special_import_tables` excludes every writer.

### CollabWriteback and the code

What runs on the event loop without an `await` is one action, and so is a
transaction. A reconcile has four steps: the snapshot on the loop (`Fire`,
`Evict`), reading the rows (`Load`) and writing them (`Write`) in a worker
thread, and what follows on the loop (`Land`); runs, edits and drains come in
between.

| Code | Actions and operators |
|---|---|
| `record_run` with `apply_server_fields` | `RecordRead`, `RecordCommit` |
| `claim_pending`, `purge_applied` | `Claim`, `Purge`, `Age` |
| `_drain_writebacks` after the claim | `Apply`, `ApplyRoomless`; `Mirrored` |
| `get_room`, `_create_room` | `Join`, `CreateRoom` (`Hydrated`), `RoomReady` |
| `_on_txn`, `schedule_flush`, `_fire`, `_flush` | `Observed`, `Armed`, `Fire`, `Snapped`, `Land` (`Outdated`, `Flushed`) |
| `materialize_sheet`, `_materialize_apply` | `Load`, `Write`, `WriteFails` |
| `_evict_room`, `flush_and_detach` | `Evict` (`Pending`), `Land` of slot `"final"` |
| `__aexit__`, death of the process | `Stop` |

Abstractions: one row of one sheet, with one evidence field and one edited cell,
each holding the number of the run or edit that wrote it; the merge of concurrent
updates, a library's business, is the order of the transactions; sessions are a
count; a second room while one is being created (the twin of `get_room`'s missing
lock) is left out. A lost update always has a cause: the six *accidents*
`stale`, `roomless`, `stopped`, `failed`, `overlap` and `beside` are the ways the
code may lose one, each marked by the action that does it. The properties say
that there is no seventh.

### AiGeneration and the code

A transaction under the row lock is one action. A heartbeat or a lease is old or
not, a flag that `HeartbeatExpires` and `LeaseExpires` clear.

| Code | Actions |
|---|---|
| `create_draft`, `retry_draft`, `publish_once` | `CreateDraft`, `RetryDraft`, `WebLease`, `WebSend`, `WebSendFails`, `WebNoteRead`, `WebNoteWrite`, `WebDies` |
| `cancel_draft`, `update_draft`, `reject_draft`, `apply_draft` | `CancelDraft`, `UpdateDraft`, `RejectDraft`, `ApplyDraft` |
| `run_ai_generation`, `acquire_slot`, `claim`, `touch`, `finish`, `release_slot` | `Take`, `Drop`, `Claim`, `Touch`, `Finish`, `FinishFails`, `ReleaseSlot`, `ThreadDies` |
| `recover` and its callers | `RecoverPeriodic`, `RecoverStartup`, `RecoverLease`, `RecoverSend`, `RecoverSendFails`, `Started`, `Crash` |

`rewound` records the drafts whose job a stale note overwrote: `create_draft`
answers a failed publication by reading `meta_json` without the row lock and
writing all of it back, which may undo a claim made in between. `ClaimFences`
and `ResultIsCurrent` hold for all other drafts; `ClaimedOnce`, the unrestricted
form, does not hold. Abstractions: progress events and provenance, the scenario's
prompts and validation, and the matrix rows an approval writes.

### UtPipeline and the code

| Code | Actions |
|---|---|
| `create_batch`, and the routes' enqueue | `CheckBatch`, `CreateBatch`, `Enqueue`, `DispatchFailed`, `WebDies` |
| `submit_revision`, `retry_job`, `review`, `stop_job`, `stop_batch` | `SubmitRevision`, `Retry`, `Approve`, `Reject`, `Stop` |
| `run_generation` | `StartGeneration`, `Accept`, `HandOver`, `GenerationFails`, `GenerationCrashes`, `GenerationDone`, `RefreshBatch` |
| `advance_job` | `TakeAdvance`, `Loop`, `ExecuteDone`, `ExecuteDerives`, `RepairTaken`, `RepairRefused`, `StepFails`, `StepCrashes` |
| `recover_interrupted` and its caller | `WorkerDies`, `ReadPending`, `Recover` |

Abstractions: what a Host run says is one of pass, gaps (rows the model may
add), fail and blocked; a rejected proposal leaves no version; a candidate whose
outputs the Host derived is not derived again; whether a retry renews the
candidate depends on the stub mode and is a choice; copies of a message are one;
a busy gate reschedules the message, which changes nothing; the last stop check
of a step and its commit are one action, since a stop in between only leaves a
mark that the next action on the job removes.

## 3. Runs

| Run | What it checks | Instance | Distinct states |
|---|---|---|---|
| `pool` | `TypeOK`, `Accounting`, `UniqueLabels`, `NoOrphan`, `WithinLicence`, `LendingSpec`, `ShutdownEndsProcesses` | 1 worker, 1 reconciler, exit handler, 2 instances, limits 0-1 | 183,000 |
| `run_faults` | `TypeOK`, `LicencesAccounted`, `RowAgreesWithSeal`, `FinalStands`, `RunningEnds`, `QueuedIsServed` | 2 workers, 2 attempts, licence limit 1, 2 faults | 170,021 |
| `run_cancel` | `SoleExecutor`, `PassedIsSealed` | 2 workers, 1 request of any kind with restore, 2 attempts, limit 2, 1 fault; symmetry | 2,826,864 |
| `run_recovery` | `OneRecord`, `SealedIsFinalised` | 1 worker, 1 request (cancel or delete, restore), 2 attempts, 1 fault | 341,151 |
| `run_misfiled` | violates `OwnVerdict` | 2 workers, 1 cancellation, no fault | |
| `collab` | `TypeOK`, `SettlesInAgreement`, `EditsKept`, `Calms` | 2 rooms, 1 session at a time, 2 runs, 2 edits, 1 kind of accident | 283,353 |
| `ai` | `TypeOK`, `SlotsAccounted`, `ClaimFences`, `ResultIsCurrent`, `DecisionStands`, `LiveAttemptKept`, `GenerationEnds` | 1 draft, 2 threads, 2 slots, 1 publishing request at a time, 1 retry, 1 fault | 182,844 |
| `ut` | `TypeOK`, `ReviewedOnEvidence`, `SoleDriver`, `ClosedBatchGenerated`, `ActiveEnds` | 2 functions in one batch or one in two, 2 threads, 1 request, 1 repair round, up to 2 faults | 96,406 |
| `ut_reread` | violates `DecisionStands` | 1 job, 1 revision, no fault | |
| `judge` | `TypeOK`, `VerdictIsEarned`, `ParamsScoped`, `TestEnds` | all test cases of two steps out of eight, with and without initialisation; 2 signals with 2 values; at most 16 macro steps | 49,788 |
| `judge_suspended` | violates `SuspendedNotPassed` | the same | |
| `rows` | `TypeOK`, `SignOffsStand`, `SeenBeforeWritten` | 1 case on up to 2 rows, 2 sessions, 3 requests; symmetry | 120,359 |

Every passing property has a mutant in `PROJECT.json`: a change a careless edit
of the code could make (a forgotten decrement, a missing re-check, a dropped
fence) under which TLC finds the property violated.

### Bounds

*Pool.* A worker, the reconciler and the exit handler are every kind of thread;
two instances and limits 0 and 1 give growth, exhaustion and a shrink below the
borrowed number. Liveness rules out symmetry, hence a single worker; that safety
holds for any number of threads and instances is proved (section 5).

*Run lifecycle.* `MaxRuns` = 2 is one retest: the hazards are between an attempt
and its successor. `MaxFaults` bounds crashes, lost messages and failed writes
together; two allow a fault during the repair of the first. One request suffices
for every stale read (each finding needs one); two workers are a first and a
second delivery. `Requests`, `MaxRuns` and `MaxFaults` are the only counters cut
off, by the guards of `RequestOpen`, `Retest` and `Fails`.

*Collaboration.* Two room objects are a room and its successor, which is all
that `get_room` allows, and an evicted materializer may work beside the new one.
Two runs give a newest value to prefer, two edits an edit before and one after a
snapshot. `MaxAccidents` counts kinds of accident: one kind may happen any number
of times.

*AI generation.* `NDrafts` = 1: drafts meet only in the slots and in the page of
a scan, and two drafts with all their requests exceed the time a run is given;
the circular page is then trivial, which leaves it unchecked. One retry and one
fault make three attempts of a draft.

*Unit tests.* `OneOfEach` lets a job have everything on its own (a revision or
retry, a stop and a fault, or two faults), and two jobs of a batch, or of one
function in two batches, take the plain path beside it. With `Patient`, nobody
acts on a job for which a task is about, which is what the interface shows;
without it `SoleDriver` fails, and `ut_reread` shows what that leads to.

*Judge.* Eight steps have, between them, both methods, every comparison, waits, a
function that may raise, subroutines with too few and too many arguments, two
levels of nesting and a formal parameter that an outer frame also binds. Two
steps are a step and its successor. The horizon exceeds the longest program, so
that `TestEnds` is not met by running out of time.

*Matrix rows.* Two rows of one case are a bulk operation, a duplicate id and a
replaced row; two sessions are a race. Three requests suffice for every
three-party case (a look, a run, an edit; a preview, a run, a commit); four
requests, with two rows, were run once with the same result (2.9 million states).
Sessions may be permuted because nothing orders them and no liveness is checked.

Deadlock checking is off in every run because the systems may stop: the pool
after the exit handler, the others when all work is done and the bounds are used
up.

### Fairness

*Pool.* Each thread's steps are weakly fair: threads are scheduled and a run
ends, `run_until` having a timeout. A monitor's decided kill is carried out. The
borrow by *some* waiting worker is strongly fair: releases call `notify_all`,
waiters poll every half second, and the reconciler, the only competitor,
sleeps at least half a second between passes (`run_worker.py:87`). No fairness
is put on resizing, on cancellations, on new jobs or on the exit.

*Run lifecycle.* Each worker's steps, startup recovery, and the periodic scan,
finalisation and republication are weakly fair: Huey threads poll the queue,
the worker process is started again after it died, and `recover_run_attempts_job`
runs every minute over a circular cursor. Nothing is assumed of users, of the
web process or of the faults.

*Collaboration.* A room's timers fire, its worker threads end, the loop takes up
their results (`WF` of `Reconcile`). Nothing is assumed of people, runs, the
drain or the sweeper, so that `Calms` rests on the materializer alone.

*AI generation.* The steps of a consumer, of recovery and of the clock are
weakly fair: provider calls have a timeout, the scan runs every minute, the
worker process is started again. Taking a draft's message is strongly fair,
since the slots it needs come and go: a message without a slot is scheduled
again and again. No web request has to go on.

*Unit tests.* Requests that committed go on to enqueue or fail, Huey delivers
some message while a thread is free, bridge and model calls return (they have
timeouts), and the worker is started again.

*Judge.* Python goes on between two yields, Silver's clock goes on, and a
generator that is over is stopped and its log read. Nothing makes Silver suspend
a run.

*Matrix rows.* None: requests may be abandoned at any point.

## 4. What the runs found

1. **A retest may get the verdict of the attempt before it** (`run_misfiled`).
   `request_cancel` writes `CANCELLED` over a row that was claimed since it was
   read, a retest is then accepted, and `seal_attempt` seals for the attempt the
   row names now. The same stale write turns running and even finished rows into
   `CANCELLED`: with requests, TLC finds `FinalStands` and `RowAgreesWithSeal`
   violated, which is why `run_faults`, where they are checked, has none.
2. **Two drivers for one unit-test job** (`ut_reread`). A driver reads the job
   again after it committed the gate; a revision in that window gives the job a
   second driver, and the slower one overwrites the reviewer's decision.
3. **A suspended run passes** (`judge_suspended`). Once any subroutine of a test
   has returned, `test_python_over` stays set, and `run_cleanup` reports nothing
   when Silver stops the run later; the log then holds passed steps and no overall
   line, which the parser takes for a pass.

Observations made on the way, without a run of their own:

- *A dead instance goes back to the pool.* `_monitor_cancel` kills without asking
  whether the run is over; a run that has passed its last check of the event
  counts as finished and nothing poisons its instance. (`IdleIsAlive` of
  `SilverPool`, with two workers and the exit handler.)
- *A running task that is deleted and restored stays running* until the worker
  process is restarted (`RunningEnds` with one deletion and no fault).
- *A verdict written overnight is lost.* A room of a project that was edited
  before never looks at the rows (`server.py:99-112`), against
  `writeback.py:28-29`; when the queue item has aged out, the first edit writes
  the old evidence over the new one. In `CollabWriteback` this is the accident
  `stale`, which needs no fault.
- *An `Untestable` typed by hand enters no review*, although the verdict is "only
  set manually" (`run_writeback_service.py:57-60`): only `record_run` requests
  reviews. An exported `Untestable` comes back from a workbook as `Not Tested`.
- *A pending review outlives its verdict.* A later run whose verdict needs no
  review leaves the request open, with the earlier verdict in `review_verdict`
  (the accident `outrun`); a rejected row likewise only goes back to pending if
  the next verdict is one the policy reviews, unlike `models/lanmatrix.py:498`.
- *Two runs of a row that end together may leave a review of the wrong verdict.*
  Both load the same copy; the first one's `request_review` writes
  `review_verdict` without a new version, and the second writes only the columns
  that differ from its copy. Where the policy reviews passes and failures, the row
  then shows one run's verdict and the pending review the other's (the accident
  `crossed`). The attempt to prove `SignOffsStand` for every policy found this.
- *A batch undo overwrites later edits* of the same cells, and, like every writer
  without a lock, may give an old version number to new content (the accident
  `raced`).
- *Claims behind a page of rows are not announced.* `sync_pending` looks at the
  first `MAX_SYNC` unstamped rows, whether they are claims or not.

## 5. Proofs

For every number of worker and reconcile threads, every finite set of instances
and every set of limits with 0 in it (`ThreadsAssumption`,
`InstancesAssumption`, `TargetsAssumption`, all three checked by TLC on the
instances above), TLAPS proves of `SilverPool`:

| Theorem | Statement | Inductive invariant |
|---|---|---|
| `TypeCorrect` | `Spec => []TypeOK` | `TypeInv`: `TypeOK` and `Shape`, what a thread holds at each label. Without `Shape`, `DisposeRecycle` could not know that the instance it recycles has a label |
| `AccountingHolds` | `Spec => []Accounting` | `Apart`: only workers wait or borrow, and an instance in a thread's hands is neither idle nor in another's. Without it a release could add an instance that is already idle, and the cardinality of `idle` would not grow with the counter |
| `NoOrphanHolds` | `Spec => []NoOrphan` | `Watched`: every process belongs to a registered instance or is in the hands of a thread; a closed pool has no registered instance |
| `WithinLicenceHolds` | `Spec => []WithinLicence` | `Bounded`: `size` is below some limit; `SizeStep`: a step either lowers `size` or keeps it within the current target. With `Accounting` this bounds the instances |
| `UniqueLabelsHolds` | `Spec => []UniqueLabels` | `Tracked`: while the pool is open every instance has one owner, and every label is released, reserved by one thread, or carried by one owned instance; `Named`: the part of it that survives closing, when labels are given back twice but none is reserved any more |
| `LendingHolds` | `Spec => LendingSpec` | the refinement mapping of `SilverPool`: an instance is in stock from its registration until a thread decides under the lock to dispose of it, and each action maps to `Stock`, `Borrow`, `Return`, `Retire`, `Close` or a stutter |
| `ExclusiveHolds` | `Spec => []Lending!Exclusive` | proved of the abstract specification and carried over by the refinement |

Each invariance proof has one step per action. The lemmas `PendingMoves` and
`LentMoves` say what one thread's move does to the two cardinalities, and
`QuietMove` disposes of the actions that change neither; the cardinality facts
are those of the library's `FiniteSetTheorems`.

Of `RunLifecycle`, for every number of workers, requests, attempts, faults and
every licence limit (`BoundsAssumption`):

| Theorem | Statement | Inductive invariant |
|---|---|---|
| `TypeCorrect` | `Spec => []TypeOK` | `TypeInv`: `TypeOK`; `Placed`, what a worker knows at each point of `run_task`, in particular that an outcome which was not sealed for its own attempt was sealed for a later one; `Trusted`: a digest is only bound to an outcome. Without `Placed`, `Finalise` might look up attempt 0 |
| `OneRecordHolds` | `Spec => []OneRecord` | `Counted`: the record count is 1 exactly when the attempt is finalised |
| `SoleExecutorHolds` | `Spec => []SoleExecutor` | `Owned`: whoever executes an attempt created its `execution.json`, which is created once |
| `PassedIsSealedHolds` | `Spec => []PassedIsSealed` | with `TypeInv`; `BoundStays`: an outcome with a digest is never replaced |
| `RowAgreesHolds` | `Requests = {}` implies `Spec => []RowAgreesWithSeal` | `SealInv`: from claim to release a worker pursues the attempt its message names (`Pursuit`) and no other worker does (`Apart`); until an outcome is bound the row is running at that attempt, and what the row says of its attempt afterwards is what the seal says (`Recorded`); nothing a request leaves behind is there (`Calm`); startup recovery settles the attempt it found running (`Picked`) |
| `FinalStandsHolds` | `Requests = {}` implies `Spec => FinalStands` | `SealInv` |
| `LicencesAccountedHolds` | `Spec => []LicencesAccounted` | `Licensed`: while the process is down nobody works, and the counter that `Restart` resets is right when workers start again |

`Requests = {}` (nobody cancels, deletes, restores or submits again) is a hypothesis
of those two and not an assumption of the module. A request acts on a row it loaded
earlier, and with requests TLC refutes both properties (section 4, 1): what is
proved is that workers, queue, reconcilers and recovery among themselves, whatever
fails, need no lock beyond the conditional claim and the exclusive creation of
`execution.json`.

Of `MatrixRow`, for all sets of rows, cases, sessions and stamps, every review
policy and any number of requests (`RowsAssumption`, `NoneAssumption`):

| Theorem | Statement | Inductive invariant |
|---|---|---|
| `TypeCorrect` | `Spec => []TypeOK` | `IndInv`: types; `SessionInv`, `PreviewInv`: every copy a request or a preview holds is of a row that exists, and, unless the row was raced, `Faithful`: its version is not newer than the row's, and if it is the same, so is the content |
| `VersionNamesContentHolds` | `Spec => []VersionNamesContent` | from `IndInv` |
| `SeenBeforeWrittenHolds` | `Spec => SeenBeforeWritten` | from `IndInv`: an accepted edit has the version of the row, and the copy the person saw has that version too |
| `SignOffsStandHolds` | `Spec => []SignOffsStand` | `SignedInv`: rows are `Settled`, deleted ones too, and a verdict under review is never "Not Tested", or an approved exemption could take it away by landing `Untestable`; a request that decides on an exemption is `Informed`: it knows of the row's run record, or the row has a newer version than its copy |

The heart of it is that every service's change of a row either raises the version
or leaves its content (`Advances`), and that `Flush` carries this over from the
copy to the row unless the copy was overtaken.

Of `AiGeneration`, for every number of drafts, slots, faults and retries, every
page size and every finite set of threads (`BoundsAssumption`,
`IdentityAssumption`), which lifts the single draft of the run:

| Theorem | Statement | Inductive invariant |
|---|---|---|
| `ClaimFencesHolds` | `Spec => []ClaimFences` | `TypeInv`, whose part `Registered` says what a thread that holds a slot is registered for; `Fences`: a draft no stale note rewound has the attempt issued last, which nobody claimed while it waits and one consumer while it runs |
| `ResultIsCurrentHolds` | `Spec => []ResultIsCurrent` | `Fences` |
| `DecisionStandsHolds` | `Spec => DecisionStands` | `TypeInv` |
| `LiveAttemptKeptHolds` | `Spec => LiveAttemptKept` | `TypeInv`: a thread that executes is registered for its attempt, so the periodic scan sees it; none is there when the startup scan takes every draft |
| `SlotsAccountedHolds` | `Spec => []SlotsAccounted` | `Counted`: permits free, held and left by the dead make `Slots` |
| `TypesHold` | `Spec => []TypeOK` | `AttemptInv`: the attempts a draft has had, and those it may still get without anybody asking, because recovery may prepare it again (`Orphan`) or because a failed publication is still to be noted (`Noting`), never exceed one plus the retries and faults spent (`Paid`); one request at most publishes a draft (`Sole`), and every message and thread names an attempt that was issued (`Numbered`) |

The first four rest on `NextMoves`: every step of the system keeps a draft,
restarts, claims, finishes, cancels, decides or rewinds it (`Moves`), each under
the condition the row lock checks. `TypesHold` is more than typing: that attempt
numbers stay within `Attempts` says that recovery never prepares an attempt that no
retry and no fault accounts for.

Of `CollabWriteback`, for all rooms and any numbers of sessions, runs, edits and
accidents (`RoomsAssumption`, `BoundsAssumption`, `NoneAssumption`):

| Theorem | Statement | Inductive invariant |
|---|---|---|
| `TypesHold` | `Spec => []TypeOK` | `IndInv`: types; `Counted`, the order of runs in the queue, the drain and the documents; `RoomInv`, the life of a room and how its materializer's flags stand to the reconciles in flight; `DocInv` |
| `EditsAreKept` | `Spec => []EditsKept` | `DocInv`: the document of a live room is what its updates add up to, and before there are any, no room was ever live and the row is the only copy |
| `RowsAgree` | `Spec => []SettlesInAgreement` | `Agreement`, while no accident happened: one room at most has work, with one reconcile in flight (`Alone`); the last run is in the document or on its way to it (`Mirrors`); a document that shows the last run is in the row, or a reconcile carries it there, or is due (`Writes`) |

`Writes` is why the comparison of epochs in `_flush` is enough: whoever writes the
row while a snapshot is under way makes another reconcile due.

Of `UtPipeline`, for all batches, targets, threads, requests and budgets
(`BoundsAssumption`, `NoneAssumption`):

| Theorem | Statement | Inductive invariant |
|---|---|---|
| `BatchesAreGenerated` | `Spec => []ClosedBatchGenerated` | `BatchesInv`: types; a batch that is generating has its message with a request, in the queue or with one thread (`BatchInv`); its jobs are all before the gate or all behind it |
| `TypesHold` | `Patient` implies `Spec => []TypeOK` | `DriverInv`; only this bounds the repair rounds, since two drivers could each take the last one |
| `ReviewsRestOnEvidence` | `Patient` implies `Spec => []ReviewedOnEvidence` | `DriverInv`: one task at most is about for a job (`Sole`) and none for one that is decided or not generated yet (`Untouched`); what a driver holds is the job's current attempt (`Driving`); what waits for review has passed (`Reviewed`) |
| `DriversAreAlone` | `Patient` implies `Spec => []SoleDriver` | `Sole` |
| `DecisionsStand` | `Patient` implies `Spec => DecisionStands` | `Untouched` |

`Patient` (nobody acts on a job while a task for it is about) is a hypothesis and
not an assumption of the module: the interface keeps to it and the routes do not
check it. `ut_reread` is the counterexample without it. The first theorem needs
no such hypothesis.

Of `JudgeRun`, for every set of test cases whose steps are well-formed
(`ProgramAssumption`: `WellFormed` is what the dataclass `Step` declares, every call
and every initialization names a subroutine that is registered, and `Values` holds
what is assigned or passed), any signals and values, any horizon and any depth of
nesting:

| Theorem | Statement | Inductive invariant |
|---|---|---|
| `VerdictIsEarnedHolds` | `Spec => []VerdictIsEarned` | `IndInv`: a frame knows that every poll so far let its step wait, and that a miss was recorded if it or its callee failed (`StackInv`); a check that was not proven is on the stack as a spoilt frame until the test ends (`Evident`); the log has its start first, a verdict last if at all, and `stepFail` if a check was not proven (`LogInv`); how the run ended is what its last line says (`EndInv`) |
| `ParamsScopedHolds` | `Spec => []ParamsScoped` | `ScopeInv`: one binding per call on the stack, each of the call at which its caller stands |
| `TypesHold` | `Spec => []TypeOK` | `TypedInv`: `ScopeInv`; a frame below the top stands at a call, so that its position stays inside its actions when the callee returns (`StackTyped`, `AtCall`); every binding is to a value (`ParamsTyped`) |

Without `Evident` a subroutine's failure could be forgotten between its return and
the end of its caller, which is the path through `test_python_over` and the local
result that the proof follows.

Only model-checked:

- the liveness properties (`ShutdownEndsProcesses`, `RunningEnds`,
  `QueuedIsServed`, `SealedIsFinalised`, `Calms`, `GenerationEnds`, `ActiveEnds`,
  `TestEnds`), which need fairness and `ENABLED` and are out of the prover's reach.

## 6. Plan

What is left, in this order: two drafts in one run of `AiGeneration`, for the
circular page; twins of a room in `CollabWriteback`; the event stream's cursor
against the order of commits and pruning; a second worker process in
`RunLifecycle`.

## 7. Not modelled

The generation and bundling of judges and the conversion of spreadsheets are data
transformations without shared state; prompts and provider calls depend on text;
CRUD services guard single rows in single transactions; the browser client and
vendored files are outside the scope. Files are trusted to contain what was
written to them: hand-corrupted archives, which the digests are for, are left
out. There is one worker process, as `run_worker.py` assumes, although the
project's README speaks of one or more.
