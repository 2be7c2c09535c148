---------------------------- MODULE RunLifecycle ----------------------------
(***************************************************************************)
(* One task and its attempts, from submission to a recorded verdict.       *)
(*                                                                         *)
(* The web process submits, cancels, deletes, restores and retests         *)
(* (app/services/task_service.py and the task routes); Huey worker threads *)
(* consume messages <task, run_count> (app/jobqueue/tasks.py), execute the *)
(* attempt (app/runners/test_runner.py), seal its outcome on disk          *)
(* (run_evidence_service.py) and finalise it (run_finalisation_service.py);*)
(* a recovery pass repairs what a lost message, a failed write or a killed *)
(* worker left behind (run_recovery_service.py).                           *)
(*                                                                         *)
(* A transaction or an exclusive file creation is one action.  The row is  *)
(* read and written by request_cancel without a lock, so that is two.      *)
(* SQLAlchemy reloads the row after every commit: where the code reads     *)
(* task.run_count again, the model reads the current value again.          *)
(***************************************************************************)
EXTENDS Integers, FiniteSets

CONSTANTS
    Workers,    \* Huey worker threads
    Requests,   \* requests that cancel or delete, one use each
    Kinds,      \* what they may do: "cancel", "cascade", "delete"
    Restores,   \* TRUE when deleted tasks may be restored
    Limit,      \* the licence limit
    None,
    MaxRuns,    \* bound on run_count
    MaxFaults   \* bound on crashes, lost messages and failed writes

Attempts == 1 .. MaxRuns
Final == {"passed", "failed", "cancelled"}

\* What outcome.json says: a verdict, and the attempt whose inputs and result
\* directory produced it.
Outcome == [verdict : Final, ran : Attempts]

ASSUME BoundsAssumption ==
    /\ MaxRuns \in Nat \ {0} /\ MaxFaults \in Nat /\ Limit \in Nat \ {0}
    /\ Restores \in BOOLEAN
    /\ Kinds \subseteq {"cancel", "cascade", "delete"}
    /\ IsFiniteSet(Workers)
    /\ None \notin Outcome

VARIABLES
    task,      \* the row: status, run (run_count), cancel (requested), deleted
    evidence,  \* per attempt: the files and the RunEvidence record
    queue,     \* attempts with a message in Huey's queue
    pubs,      \* committed attempts the web process has still to enqueue
    worker,    \* what each worker thread is doing
    inUse,     \* the licence counter of app_settings
    request,   \* each cancel or delete request
    recovery,  \* the worker process, and the attempt recovery has picked
    faults,
    leaked,    \* history: licences a failed release kept, since the last restart
    stranded,  \* history: attempts whose repair failed, since the last restart
    misread    \* history: attempts failed although their bound outcome exists

history == <<leaked, stranded, misread>>
vars == <<task, evidence, queue, pubs, worker, inUse, request, recovery, faults, history>>

\* sealed: outcome.json, or None; digest: outcome_sha256 is committed;
\* claimed: execution.json.
Pinned == [claimed |-> FALSE, sealed |-> None, digest |-> FALSE,
           finalised |-> FALSE, records |-> 0]

\* expected: the message; attempt: _attempt_run_count; dir: the attempt whose
\* inputs and result directory are used; target: the attempt to seal, once the
\* worker has read it from the row.
Idle == [pc |-> "idle", expected |-> 0, attempt |-> 0, dir |-> 0,
         target |-> 0, verdict |-> None]

Ready == [phase |-> "ready", kind |-> None, status |-> None, cancel |-> FALSE]

Init ==
    /\ task = [status |-> "queued", run |-> 1, cancel |-> FALSE, deleted |-> FALSE]
    /\ evidence = [a \in Attempts |-> Pinned]
    /\ queue = {}
    /\ pubs = {1}
    /\ worker = [w \in Workers |-> Idle]
    /\ inUse = 0
    /\ request = [r \in Requests |-> Ready]
    /\ recovery = [mode |-> "up", pick |-> None]
    /\ faults = 0
    /\ leaked = 0 /\ stranded = {} /\ misread = {}

Goto(w, pc) == worker' = [worker EXCEPT ![w].pc = pc]

Fails == faults < MaxFaults /\ faults' = faults + 1

-----------------------------------------------------------------------------
(* The web process.                                                        *)

\* The submission is committed; now run_task(task.id, task.run_count).
Enqueue(a) ==
    /\ a \in pubs
    /\ pubs' = pubs \ {a}
    /\ queue' = queue \cup {task.run}
    /\ UNCHANGED <<task, evidence, worker, inUse, request, recovery, faults, history>>

\* Mutant: the failed submission is marked whatever became of the attempt.
FailSubmissionBlind(a) ==
    task' = IF task.run = a THEN [task EXCEPT !.status = "failed"] ELSE task

FailSubmission(a) ==
    task' = IF task.run = a /\ task.status = "queued"
            THEN [task EXCEPT !.status = "failed"]
            ELSE task

\* Huey's storage fails.
EnqueueFails(a) ==
    /\ Fails
    /\ a \in pubs
    /\ pubs' = pubs \ {a}
    /\ FailSubmission(a)
    /\ UNCHANGED <<evidence, queue, worker, inUse, request, recovery, history>>

\* The web process dies between the commit and the publication.
EnqueueLost(a) ==
    /\ Fails
    /\ a \in pubs
    /\ pubs' = pubs \ {a}
    /\ UNCHANGED <<task, evidence, queue, worker, inUse, request, recovery, history>>

\* Retest, or submission of the same test: the row is reset and the new
\* attempt pinned in one transaction, under the submission's advisory lock.
Retest ==
    /\ ~task.deleted
    /\ task.status \in Final
    /\ task.run < MaxRuns
    /\ task' = [status |-> "queued", run |-> task.run + 1,
                cancel |-> FALSE, deleted |-> FALSE]
    /\ pubs' = pubs \cup {task.run + 1}
    /\ UNCHANGED <<evidence, queue, worker, inUse, request, recovery, faults, history>>

\* A request loads the row.  The cascade of another task's environment error
\* selects queued tasks only.
RequestOpen(r, kind) ==
    /\ request[r].phase = "ready"
    /\ ~task.deleted
    /\ kind = "cascade" => task.status = "queued"
    /\ request' = [request EXCEPT ![r] =
           [phase |-> "loaded", kind |-> kind,
            status |-> task.status, cancel |-> task.cancel]]
    /\ UNCHANGED <<task, evidence, queue, pubs, worker, inUse, recovery, faults, history>>

\* request_cancel and cancel_project_queue act on the row as it was loaded;
\* an attribute set to its loaded value is not written.
CancelLoaded(seen) ==
    [task EXCEPT
        !.cancel = @ \/ (seen.status \notin Final /\ ~seen.cancel),
        !.status = IF seen.status = "queued" THEN "cancelled" ELSE @]

RequestWrite(r) ==
    /\ request[r].phase = "loaded"
    /\ task' = CancelLoaded(request[r])
    /\ request' = [request EXCEPT
           ![r] = [Ready EXCEPT !.phase =
                       IF request[r].kind = "delete" THEN "deleting" ELSE "done"]]
    /\ UNCHANGED <<evidence, queue, pubs, worker, inUse, recovery, faults, history>>

\* delete_task
Delete(r) ==
    /\ request[r].phase = "deleting"
    /\ task' = [task EXCEPT !.deleted = TRUE]
    /\ request' = [request EXCEPT ![r].phase = "trashed"]
    /\ UNCHANGED <<evidence, queue, pubs, worker, inUse, recovery, faults, history>>

\* restore_task, once for each deletion.
Restore(r) ==
    /\ Restores
    /\ request[r].phase = "trashed"
    /\ task.deleted
    /\ task' = [task EXCEPT !.deleted = FALSE]
    /\ request' = [request EXCEPT ![r].phase = "done"]
    /\ UNCHANGED <<evidence, queue, pubs, worker, inUse, recovery, faults, history>>

-----------------------------------------------------------------------------
(* The worker thread, up to the claim.                                     *)

\* run_task takes a message; a message of another attempt is dropped.
Receive(w, a) ==
    /\ recovery.mode = "up"
    /\ worker[w].pc = "idle"
    /\ a \in queue
    /\ queue' = queue \ {a}
    /\ worker' = IF task.status = "queued" /\ ~task.deleted /\ task.run = a
                 THEN [worker EXCEPT ![w].pc = "waiting", ![w].expected = a]
                 ELSE worker
    /\ UNCHANGED <<task, evidence, pubs, inUse, request, recovery, faults, history>>

ShouldCancel(w) ==
    \/ task.cancel \/ task.deleted
    \/ task.status # "queued"
    \/ task.run # worker[w].expected

\* The wait for an instance ends without one.
GiveUp(w) ==
    /\ worker[w].pc = "waiting"
    /\ ShouldCancel(w)
    /\ worker' =
           IF task.run = worker[w].expected /\ task.status = "queued" /\ task.cancel
           THEN [worker EXCEPT ![w].pc = "marking"]
           ELSE [worker EXCEPT ![w] = Idle]
    /\ UNCHANGED <<task, evidence, queue, pubs, inUse, request, recovery, faults, history>>

\* _mark_cancelled writes the row GiveUp read.
MarkCancelled(w) ==
    /\ worker[w].pc = "marking"
    /\ task' = [task EXCEPT !.status = "cancelled"]
    /\ worker' = [worker EXCEPT ![w] = Idle]
    /\ UNCHANGED <<evidence, queue, pubs, inUse, request, recovery, faults, history>>

\* A drain, or a queue that refuses the delayed retry: the message is gone
\* and the attempt stays queued.
DropMessage(w) ==
    /\ Fails
    /\ worker[w].pc = "waiting"
    /\ worker' = [worker EXCEPT ![w] = Idle]
    /\ UNCHANGED <<task, evidence, queue, pubs, inUse, request, recovery, history>>

\* Mutant: the counter is raised without comparing it with the limit.
TryAcquireUnchecked(w) ==
    /\ worker[w].pc = "waiting"
    /\ inUse' = inUse + 1
    /\ Goto(w, "licensed")
    /\ UNCHANGED <<task, evidence, queue, pubs, request, recovery, faults, history>>

\* license_service.try_acquire
TryAcquire(w) ==
    /\ worker[w].pc = "waiting"
    /\ inUse < Limit
    /\ inUse' = inUse + 1
    /\ Goto(w, "licensed")
    /\ UNCHANGED <<task, evidence, queue, pubs, request, recovery, faults, history>>

\* No licence: the message is scheduled again, unless the attempt is over.
LicenceBusy(w) ==
    /\ worker[w].pc = "waiting"
    /\ inUse >= Limit
    /\ queue' = IF ShouldCancel(w) THEN queue ELSE queue \cup {worker[w].expected}
    /\ worker' = [worker EXCEPT ![w] = Idle]
    /\ UNCHANGED <<task, evidence, pubs, inUse, request, recovery, faults, history>>

\* Mutant: a worker that lost the claim forgets the licence it holds.
ClaimForgets(w) ==
    /\ worker[w].pc = "licensed"
    /\ IF ShouldCancel(w)
       THEN worker' = [worker EXCEPT ![w] = Idle] /\ UNCHANGED task
       ELSE /\ task' = [task EXCEPT !.status = "running"]
            /\ Goto(w, "claimed")
    /\ UNCHANGED <<evidence, queue, pubs, inUse, request, recovery, faults, history>>

\* _claim_run: one conditional update under the row's lock.
Claim(w) ==
    /\ worker[w].pc = "licensed"
    /\ IF ShouldCancel(w)
       THEN Goto(w, "leaving") /\ UNCHANGED task
       ELSE /\ task' = [task EXCEPT !.status = "running"]
            /\ Goto(w, "claimed")
    /\ UNCHANGED <<evidence, queue, pubs, inUse, request, recovery, faults, history>>

\* license_service.release, then the instance goes back to the pool.
Leave(w) ==
    /\ worker[w].pc = "leaving"
    /\ inUse' = IF inUse > 0 THEN inUse - 1 ELSE 0
    /\ worker' = [worker EXCEPT ![w] = Idle]
    /\ UNCHANGED <<task, evidence, queue, pubs, request, recovery, faults, history>>

\* The release is a transaction of its own; when it fails the instance still
\* goes back and the counter stays high, until the worker process restarts.
ReleaseFails(w) ==
    /\ Fails
    /\ worker[w].pc = "leaving"
    /\ leaked' = leaked + 1
    /\ worker' = [worker EXCEPT ![w] = Idle]
    /\ UNCHANGED <<task, evidence, queue, pubs, inUse, request, recovery,
                   stranded, misread>>

-----------------------------------------------------------------------------
(* Executing the attempt.                                                  *)

\* Mutant: the exclusive creation of execution.json is not checked.
NeverClaimed(a) == FALSE

\* execution.json exists: some worker executes, or executed, the attempt.
ExecutionClaimed(a) == evidence[a].claimed

Sealed(a) == evidence[a].sealed # None

\* execute reads the row and the pinned evidence of its current attempt.
Begin(w) ==
    LET a == task.run
        To(pc) == [worker EXCEPT ![w].pc = pc, ![w].attempt = a]
    IN
    /\ worker[w].pc = "claimed"
    /\ \/ /\ task.deleted \/ (Sealed(a) /\ ~evidence[a].digest)
          /\ worker' = To("untrusted") /\ UNCHANGED evidence
       \/ /\ ~task.deleted /\ Sealed(a) /\ evidence[a].digest
          /\ worker' = To("finalising") /\ UNCHANGED evidence
       \/ /\ ~task.deleted /\ ~Sealed(a) /\ ExecutionClaimed(a)
          /\ worker' = To("leaving") /\ UNCHANGED evidence
       \/ /\ ~task.deleted /\ ~Sealed(a) /\ ~ExecutionClaimed(a)
          /\ evidence' = [evidence EXCEPT ![a].claimed = TRUE]
          /\ worker' = IF task.cancel
                       THEN [To("sealing") EXCEPT ![w].dir = a, ![w].target = a,
                                                  ![w].verdict = "cancelled"]
                       ELSE To("starting")
    /\ UNCHANGED <<task, queue, pubs, inUse, request, recovery, faults, history>>

\* The inputs do not validate: no claim, and an outcome without archive.
Reject(w) ==
    /\ worker[w].pc = "claimed"
    /\ ~Sealed(task.run)
    /\ worker' = [worker EXCEPT ![w].pc = "untrusted", ![w].attempt = task.run]
    /\ UNCHANGED <<task, evidence, queue, pubs, inUse, request, recovery, faults, history>>

\* _execute_backend asks for the attempt's directory after a commit.
StartBackend(w) ==
    /\ worker[w].pc = "starting"
    /\ worker' = IF task.deleted
                 THEN [worker EXCEPT ![w].pc = "untrusted"]
                 ELSE [worker EXCEPT ![w].pc = "running", ![w].dir = task.run]
    /\ UNCHANGED <<task, evidence, queue, pubs, inUse, request, recovery, faults, history>>

\* _monitor_cancel polls the row's flag, whichever attempt it was set for.
MonitorTrips(w) ==
    /\ worker[w].pc = "running"
    /\ task.cancel
    /\ Goto(w, "stopping")
    /\ UNCHANGED <<task, evidence, queue, pubs, inUse, request, recovery, faults, history>>

\* The backend returns, with a verdict of its own even when it was told to
\* stop, or raises (a runner error is a failed attempt).
RunEnds(w, v) ==
    /\ worker[w].pc \in {"running", "stopping"}
    /\ v = "cancelled" => worker[w].pc = "stopping"
    /\ worker' = [worker EXCEPT ![w].pc = "sealing", ![w].verdict = v]
    /\ UNCHANGED <<task, evidence, queue, pubs, inUse, request, recovery, faults, history>>

\* The row as the worker's session has it: read again after a commit, but
\* still the row Begin read when the attempt was cancelled before it started.
Row(w) ==
    IF worker[w].target # 0
    THEN [run |-> worker[w].target, deleted |-> FALSE]
    ELSE [run |-> task.run, deleted |-> task.deleted]

\* Mutant: the outcome is finalised without binding its digest.
SealUncommitted(w) ==
    LET to == Row(w).run
    IN
    /\ worker[w].pc = "sealing"
    /\ IF Row(w).deleted \/ Sealed(to)
       THEN Goto(w, "untrusted") /\ UNCHANGED evidence
       ELSE /\ evidence' = [evidence EXCEPT ![to].sealed =
                                [verdict |-> worker[w].verdict, ran |-> worker[w].dir]]
            /\ Goto(w, "finalising")
    /\ UNCHANGED <<task, queue, pubs, inUse, request, recovery, faults, history>>

\* _finalise looks for an outcome of the worker's attempt; seal_attempt then
\* creates outcome.json for the attempt the row names.
Seal(w) ==
    LET a == worker[w].attempt
        to == Row(w).run
    IN
    /\ worker[w].pc = "sealing"
    /\ \/ /\ ~Row(w).deleted /\ Sealed(a) /\ evidence[a].digest
          /\ Goto(w, "finalising") /\ UNCHANGED evidence
       \/ /\ Row(w).deleted \/ (Sealed(a) /\ ~evidence[a].digest)
                            \/ (~Sealed(a) /\ Sealed(to))
          /\ Goto(w, "untrusted") /\ UNCHANGED evidence
       \/ /\ ~Row(w).deleted /\ ~Sealed(a) /\ ~Sealed(to)
          /\ evidence' = [evidence EXCEPT ![to].sealed =
                              [verdict |-> worker[w].verdict, ran |-> worker[w].dir]]
          /\ worker' = [worker EXCEPT ![w].pc = "committing", ![w].target = to]
    /\ UNCHANGED <<task, queue, pubs, inUse, request, recovery, faults, history>>

\* The transaction that binds the outcome's digest.
CommitSeal(w) ==
    /\ worker[w].pc = "committing"
    /\ evidence' = [evidence EXCEPT ![worker[w].target].digest = TRUE]
    /\ Goto(w, "finalising")
    /\ UNCHANGED <<task, queue, pubs, inUse, request, recovery, faults, history>>

\* Mutant: finalise_attempt looks at the row but not at the finalised marker.
FencedByRowOnly(a) == task.deleted \/ task.run # a

\* finalise_attempt returns False, changing nothing.
Fenced(a) == task.deleted \/ task.run # a \/ evidence[a].finalised

\* finalise_attempt: the status, the run record and the finalised marker are
\* one transaction under the locks of the row and of the record.
FinaliseAttempt(a, verdict) ==
    IF Fenced(a)
    THEN UNCHANGED <<task, evidence>>
    ELSE /\ task' = [task EXCEPT !.status = verdict]
         /\ evidence' = [evidence EXCEPT ![a].finalised = TRUE, ![a].records = @ + 1]

\* A trusted outcome: the verdict is the sealed one.
Finalise(w) ==
    LET a == worker[w].attempt
    IN
    /\ worker[w].pc = "finalising"
    /\ IF Fenced(a)
       THEN UNCHANGED <<task, evidence>>
       ELSE FinaliseAttempt(a, evidence[a].sealed.verdict)
    /\ Goto(w, "leaving")
    /\ UNCHANGED <<queue, pubs, inUse, request, recovery, faults, history>>

\* The evidence cannot be trusted: the attempt failed.
FinaliseUntrusted(w) ==
    /\ worker[w].pc = "untrusted"
    /\ FinaliseAttempt(worker[w].attempt, "failed")
    /\ Goto(w, "leaving")
    /\ UNCHANGED <<queue, pubs, inUse, request, recovery, faults, history>>

\* An exception leaves what the worker had read in the frames it unwinds.
Unwound(w, pc, a) ==
    [Idle EXCEPT !.pc = pc, !.expected = worker[w].expected, !.attempt = a]

\* A file cannot be read or written, or does not validate (ValueError,
\* OSError): execute, or _finalise while it seals, fails the attempt without
\* its archive, and so also one whose outcome is bound already.
FileFails(w) ==
    LET a == IF worker[w].pc = "claimed" THEN task.run ELSE worker[w].attempt
    IN
    /\ Fails
    /\ worker[w].pc \in {"claimed", "starting", "running", "stopping", "sealing",
                         "committing", "finalising"}
    /\ worker' = [worker EXCEPT ![w] = Unwound(w, "untrusted", a)]
    /\ misread' = IF evidence[a].digest THEN misread \cup {a} ELSE misread
    /\ UNCHANGED <<task, evidence, queue, pubs, inUse, request, recovery,
                   leaked, stranded>>

\* The database or the write-back fails: the exception reaches run_task.
\* Before the claim was committed its handler has nothing to repair.
Breaks(w) ==
    /\ Fails
    /\ \/ /\ worker[w].pc \in {"claimed", "starting", "running", "stopping", "sealing",
                               "committing", "finalising", "untrusted"}
          /\ worker' = [worker EXCEPT ![w] = Unwound(w, "erring", 0)]
       \/ worker[w].pc = "licensed" /\ Goto(w, "leaving")
       \/ worker[w].pc = "marking" /\ worker' = [worker EXCEPT ![w] = Idle]
    /\ UNCHANGED <<task, evidence, queue, pubs, inUse, request, recovery, history>>

\* Mutant: the handler does not ask for a pending outcome.
NothingPending(a) == FALSE

\* A trusted outcome is durable but not finalised yet: leave it to recovery.
HasPendingOutcome(a) == evidence[a].digest /\ ~evidence[a].finalised

\* run_task's exception handler reads the row and the record ...
HandleError(w) ==
    LET a == worker[w].expected
    IN
    /\ worker[w].pc = "erring"
    /\ IF task.run = a /\ task.status \notin Final /\ ~HasPendingOutcome(a)
       THEN Goto(w, "overwriting")
       ELSE Goto(w, "leaving")
    /\ UNCHANGED <<task, evidence, queue, pubs, inUse, request, recovery, faults, history>>

\* ... and writes the failure in a later statement.
MarkFailed(w) ==
    /\ worker[w].pc = "overwriting"
    /\ task' = [task EXCEPT !.status = "failed"]
    /\ Goto(w, "leaving")
    /\ UNCHANGED <<evidence, queue, pubs, inUse, request, recovery, faults, history>>

\* The handler itself reads and writes the database that may have failed: the
\* attempt stays as it is, and the finally clause still releases.
HandlerFails(w) ==
    /\ Fails
    /\ worker[w].pc \in {"erring", "overwriting"}
    /\ Goto(w, "leaving")
    /\ stranded' = stranded \cup {worker[w].expected}
    /\ UNCHANGED <<task, evidence, queue, pubs, inUse, request, recovery,
                   leaked, misread>>

-----------------------------------------------------------------------------
(* The worker process dies, starts again, and recovers.                    *)

Crash ==
    /\ Fails
    /\ recovery.mode = "up"
    /\ recovery' = [mode |-> "down", pick |-> None]
    /\ worker' = [w \in Workers |-> Idle]
    /\ UNCHANGED <<task, evidence, queue, pubs, inUse, request, history>>

\* run_worker.main: license_service.reset_in_use, then startup recovery.
Restart ==
    /\ recovery.mode = "down"
    /\ recovery' = [recovery EXCEPT !.mode = "starting"]
    /\ inUse' = 0 /\ leaked' = 0 /\ stranded' = {}
    /\ UNCHANGED <<task, evidence, queue, pubs, worker, request, faults, misread>>

Interrupted == task.status = "running" /\ ~task.deleted /\ ~evidence[task.run].finalised

\* The startup scan: no worker thread runs yet.
StartupScan ==
    /\ recovery.mode = "starting"
    /\ recovery.pick = None
    /\ recovery' = IF Interrupted
                   THEN [recovery EXCEPT !.pick = task.run]
                   ELSE [recovery EXCEPT !.mode = "up"]
    /\ UNCHANGED <<task, evidence, queue, pubs, worker, inUse, request, faults, history>>

\* Mutant: without a sealed outcome the interrupted attempt is left alone, as
\* the periodic scan leaves it.
StartupFinaliseSealedOnly ==
    /\ recovery.mode = "starting"
    /\ recovery.pick # None
    /\ IF evidence[recovery.pick].digest
       THEN FinaliseAttempt(recovery.pick, evidence[recovery.pick].sealed.verdict)
       ELSE UNCHANGED <<task, evidence>>
    /\ recovery' = [mode |-> "up", pick |-> None]
    /\ UNCHANGED <<queue, pubs, worker, inUse, request, faults, history>>

\* An interrupted attempt gets its sealed verdict, or fails.
StartupFinalise ==
    /\ recovery.mode = "starting"
    /\ recovery.pick # None
    /\ LET a == recovery.pick
       IN FinaliseAttempt(a, IF evidence[a].digest
                             THEN evidence[a].sealed.verdict
                             ELSE "failed")
    /\ recovery' = [mode |-> "up", pick |-> None]
    /\ UNCHANGED <<queue, pubs, worker, inUse, request, faults, history>>

\* Finalising it fails: recovery reports the error and the worker starts.
StartupFails ==
    /\ Fails
    /\ recovery.mode = "starting"
    /\ recovery.pick # None
    /\ stranded' = stranded \cup {recovery.pick}
    /\ recovery' = [mode |-> "up", pick |-> None]
    /\ UNCHANGED <<task, evidence, queue, pubs, worker, inUse, request, leaked, misread>>

\* Mutant: the scan skips attempts with a cancellation, as the queued scan does.
PeriodicScanUncancelled ==
    /\ recovery.mode = "up"
    /\ recovery.pick = None
    /\ Interrupted /\ evidence[task.run].digest /\ ~task.cancel
    /\ recovery' = [recovery EXCEPT !.pick = task.run]
    /\ UNCHANGED <<task, evidence, queue, pubs, worker, inUse, request, faults, history>>

\* Every minute: a running attempt whose outcome is bound but not finalised.
PeriodicScan ==
    /\ recovery.mode = "up"
    /\ recovery.pick = None
    /\ Interrupted /\ evidence[task.run].digest
    /\ recovery' = [recovery EXCEPT !.pick = task.run]
    /\ UNCHANGED <<task, evidence, queue, pubs, worker, inUse, request, faults, history>>

PeriodicFinalise ==
    /\ recovery.mode = "up"
    /\ recovery.pick # None
    /\ FinaliseAttempt(recovery.pick, evidence[recovery.pick].sealed.verdict)
    /\ recovery' = [recovery EXCEPT !.pick = None]
    /\ UNCHANGED <<queue, pubs, worker, inUse, request, faults, history>>

\* Finalising it fails: the next scan finds it again.
PeriodicFails ==
    /\ Fails
    /\ recovery.mode = "up"
    /\ recovery.pick # None
    /\ recovery' = [recovery EXCEPT !.pick = None]
    /\ UNCHANGED <<task, evidence, queue, pubs, worker, inUse, request, history>>

\* A queued attempt recovery may publish: pinned, unsealed, without a message.
Unpublished(a) ==
    /\ recovery.mode = "up"
    /\ task.run = a /\ task.status = "queued" /\ ~task.deleted /\ ~task.cancel
    /\ ~evidence[a].finalised /\ ~Sealed(a)
    /\ a \notin queue

\* Mutant: the message carries no run_count, so the worker takes it for the
\* first attempt.
RepublishUntyped(a) ==
    /\ Unpublished(a)
    /\ queue' = queue \cup {1}
    /\ UNCHANGED <<task, evidence, pubs, worker, inUse, request, recovery, faults, history>>

\* recover_queued_attempts; a message in a worker's hands is not pending, so
\* the same attempt may well be delivered twice.
Republish(a) ==
    /\ Unpublished(a)
    /\ queue' = queue \cup {a}
    /\ UNCHANGED <<task, evidence, pubs, worker, inUse, request, recovery, faults, history>>

-----------------------------------------------------------------------------
Step(w) ==
    \/ \E a \in Attempts : Receive(w, a)
    \/ GiveUp(w) \/ MarkCancelled(w)
    \/ TryAcquire(w) \/ LicenceBusy(w) \/ Claim(w) \/ Leave(w)
    \/ Begin(w) \/ Reject(w) \/ StartBackend(w)
    \/ MonitorTrips(w)
    \/ \E v \in Final : RunEnds(w, v)
    \/ Seal(w) \/ CommitSeal(w) \/ Finalise(w) \/ FinaliseUntrusted(w)
    \/ HandleError(w) \/ MarkFailed(w)

Startup == Restart \/ StartupScan \/ StartupFinalise
Periodic == PeriodicScan \/ PeriodicFinalise \/ (\E a \in Attempts : Republish(a))

User ==
    \/ Retest
    \/ \E r \in Requests :
          \/ \E kind \in Kinds : RequestOpen(r, kind)
          \/ RequestWrite(r) \/ Delete(r) \/ Restore(r)

Trouble ==
    \/ \E a \in Attempts : EnqueueFails(a) \/ EnqueueLost(a)
    \/ \E w \in Workers :
          DropMessage(w) \/ FileFails(w) \/ Breaks(w) \/ HandlerFails(w) \/ ReleaseFails(w)
    \/ StartupFails \/ PeriodicFails
    \/ Crash

Next ==
    \/ \E a \in Attempts : Enqueue(a)
    \/ \E w \in Workers : Step(w)
    \/ Startup \/ Periodic \/ User \/ Trouble

Spec == Init /\ [][Next]_vars

\* Threads are scheduled and runs are bounded by execution_timeout; the worker
\* process is started again; the recovery job is periodic.  Nothing is assumed
\* of users, of the web process or of the faults.
Fairness ==
    /\ \A w \in Workers : WF_vars(Step(w))
    /\ WF_vars(Startup)
    /\ WF_vars(PeriodicScan) /\ WF_vars(PeriodicFinalise)
    /\ \A a \in Attempts : WF_vars(Republish(a))

FairSpec == Spec /\ Fairness

-----------------------------------------------------------------------------
(* Properties.                                                             *)

Phases == {"idle", "waiting", "marking", "licensed", "claimed", "starting",
           "running", "stopping", "sealing", "committing", "finalising",
           "untrusted", "erring", "overwriting", "leaving"}

TaskType == [status : {"queued", "running"} \cup Final, run : Attempts,
             cancel : BOOLEAN, deleted : BOOLEAN]
EvidenceType == [claimed : BOOLEAN, sealed : {None} \cup Outcome,
                 digest : BOOLEAN, finalised : BOOLEAN, records : Nat]
WorkerType == [pc : Phases, expected : 0 .. MaxRuns, attempt : 0 .. MaxRuns,
               dir : 0 .. MaxRuns, target : 0 .. MaxRuns,
               verdict : {None} \cup Final]
RequestType == [phase : {"ready", "loaded", "deleting", "trashed", "done"},
                kind : {None} \cup Kinds,
                status : {None, "queued", "running"} \cup Final, cancel : BOOLEAN]

\* Every variable has its type; the licence counter stays within the limit
\* however many deliveries of one attempt compete for it (try_acquire).
TypeOK ==
    /\ task \in TaskType
    /\ evidence \in [Attempts -> EvidenceType]
    /\ queue \subseteq Attempts /\ pubs \subseteq Attempts
    /\ worker \in [Workers -> WorkerType]
    /\ inUse \in 0 .. Limit
    /\ request \in [Requests -> RequestType]
    /\ recovery \in [mode : {"up", "down", "starting"}, pick : {None} \cup Attempts]
    /\ faults \in 0 .. MaxFaults
    /\ leaked \in Nat /\ stranded \subseteq 0 .. MaxRuns /\ misread \subseteq Attempts

\* While the worker process is up the licence counter counts exactly the
\* workers between try_acquire and release, whichever way each attempt ends,
\* and the licences that a failed release kept since the process started: a
\* counter that drifts up starves the queue, one that drifts down starts more
\* Silver runs than are licensed.
Holders == {w \in Workers : worker[w].pc \notin {"idle", "waiting", "marking"}}
LicencesAccounted ==
    recovery.mode = "up" => inUse = Cardinality(Holders) + leaked

\* A committed outcome and the row never disagree once the row is final: no
\* failed write-back, crash or late recovery turns a sealed verdict into
\* another one (_has_pending_outcome, finalise_attempt).  The one exception is
\* a file error after the seal: execute then fails the attempt untrusted.
RowAgreesWithSeal ==
    task.status \in Final /\ evidence[task.run].digest /\ task.run \notin misread =>
        task.status = evidence[task.run].sealed.verdict

\* A final status stands until the task is queued again: a submission that
\* failed to publish, a second delivery or recovery never changes the verdict
\* of an attempt that is over (fail_submission, _claim_run, finalised).
FinalStands ==
    [][task.status \in Final /\ task'.run = task.run => task'.status = task.status]_vars

\* No two workers execute the same attempt, though the message may be
\* delivered twice and the row may be cancelled and retested under a worker
\* that already holds it (execution.json is created exclusively).
Executing(w) ==
    worker[w].pc \in {"starting", "running", "stopping", "sealing", "committing"}
SoleExecutor ==
    \A v, w \in Workers :
        v # w /\ Executing(v) /\ Executing(w) => worker[v].attempt # worker[w].attempt

\* The run record of an attempt is appended once, whoever finalises it: the
\* worker, a second delivery, the periodic job or startup recovery.
OneRecord == \A a \in Attempts : evidence[a].records <= 1

\* A task only shows "passed" with a committed outcome that says so: neither
\* an interrupted run nor unreadable evidence ever passes.
PassedIsSealed ==
    task.status = "passed" =>
        /\ evidence[task.run].digest
        /\ evidence[task.run].sealed.verdict = "passed"

\* A bound outcome reaches the row, cancelled or not, even when the worker
\* dies between the seal and the finalisation (recover_interrupted_attempts).
\* (An attempt that runs or waits is the row's current one until it ends, so
\* these three need not name it.)
Undecided == task.status = "running" /\ ~task.deleted
SealedIsFinalised == (Undecided /\ evidence[task.run].digest) ~> ~Undecided

\* A queued attempt does not wait for ever, though its message is lost by the
\* web process, by a drain or by a crash (recover_queued_attempts), unless
\* failed releases have used up every licence until the next restart.
Waits == task.status = "queued" /\ ~task.cancel /\ ~task.deleted
QueuedIsServed == Waits ~> (~Waits \/ leaked >= Limit)

\* A running attempt ends: by its worker, or after a crash by recovery, unless
\* the error handler or startup recovery failed in turn.  Such an attempt stays
\* running until the worker process restarts, and is then owed its end again:
\* the periodic scan passes over it (run_recovery_service.py:153).
RunningEnds == Undecided ~> (~Undecided \/ task.run \in stranded)

\* The outcome sealed for an attempt comes from a run of that attempt's own
\* pinned inputs: an old completion never writes a retest's outcome.
OwnVerdict ==
    \A a \in Attempts : Sealed(a) => evidence[a].sealed.ran = a
=============================================================================
