----------------------------- MODULE UtPipeline -----------------------------
(***************************************************************************)
(* The unit-test pipeline: batches of functions, one job per function.     *)
(*                                                                         *)
(* app/services/ut_pipeline/pipeline.py generates a batch under a process- *)
(* wide gate, hands each finished function to a driver (advance_job) that  *)
(* executes, checks and repairs it until it waits at a human gate, and     *)
(* takes the human's revision, retry, review or stop.  Huey delivers the   *)
(* two tasks (app/jobqueue/ut_tasks.py); app/routes/lanmatrix/             *)
(* ut_pipeline.py enqueues them after the service's commit.                *)
(*                                                                         *)
(* A job is a pair <batch, target>.  A transaction is one action; a driver *)
(* holds no lock and keeps no state across its commits but the attempt it  *)
(* loaded.  The last stop check of a step and the commit after it are one  *)
(* action: a stop between them only leaves its mark on a job at a gate,    *)
(* where _resume removes it.  So are the two commits of a hand-over that   *)
(* failed, and a repair from the reading of its job to its first check.    *)
(* Every write of a handler may fail like the call it handles.             *)
(***************************************************************************)
EXTENDS Integers, FiniteSets

CONSTANTS
    Batches,    \* bound: the batches, 1 .. n in the order they are created
    Targets,    \* functions of the index
    Jobs,       \* bound: the jobs <batch, target> that may be created
    Threads,    \* Huey worker threads
    Web,        \* web requests in flight
    MaxRounds,  \* max_repair_rounds of the configuration
    Budgets,    \* bounds, one is chosen: jobs that may be created, the plain
                \* ones of them that pass at once and nobody acts on, versions
                \* of a job, revisions and retries, stops, and faults (crashes,
                \* failed calls and writes, failed and repeated deliveries)
    None

ASSUME BoundsAssumption ==
    /\ Batches \subseteq Nat \ {0} /\ IsFiniteSet(Batches)
    /\ Jobs \subseteq Batches \X Targets /\ IsFiniteSet(Targets) /\ IsFiniteSet(Threads) /\ IsFiniteSet(Web)
    /\ MaxRounds \in Nat 
    /\ Budgets \subseteq [jobs : SUBSET Jobs, plain : SUBSET Jobs,
                      versions : Nat, acts : Nat, stops : Nat, faults : Nat]

ASSUME NoneAssumption == None \notin Batches /\ None \notin Jobs

VARIABLES
    batch,    \* status of each batch
    job,      \* the rows of ut_jobs, with the current attempt
    latest,   \* UtTarget.latest_job_id: the batch of the target's latest job
    queue,    \* messages in Huey's queue and schedule; copies are one
    thread,   \* the consumer threads
    web,      \* requests between their check, their commit and the enqueue
    worker,   \* the worker process, and the pending tasks recovery read
    dropped,  \* history: jobs whose task was lost, see ActiveEnds
    overtaken,\* history: jobs somebody acted on while a task was about that
              \* may still write them
    doubted,  \* history: batches closed by a failed enqueue although the
              \* message had been stored and their generation had begun
    budget    \* what is left of the bounds

history == <<dropped, overtaken, doubted>>
vars == <<batch, job, latest, queue, thread, web, worker, history, budget>>

Active == {"queued", "generating", "executing", "repairing"}
HumanGates == {"awaiting_review", "needs_human", "blocked", "error"}
Actionable == HumanGates \cup {"stopped"}
Decided == {"approved", "rejected"}
Origins == {"generator", "host", "llm", "human"}

\* attempt, origin, check: the current version (0 when there is none) and the
\* verdict its evidence carries; step: generation.host_step; noted: the
\* approval carried a note.
Absent == [state |-> "absent", stop |-> FALSE, attempt |-> 0, origin |-> None,
           check |-> "none", rounds |-> 0, step |-> "execute", noted |-> FALSE]

Idle == [pc |-> "idle", b |-> None, j |-> None, a |-> 0, claims |-> {}]
NoRequest == [pc |-> "idle", b |-> None, j |-> None, chosen |-> {}]

Init ==
    /\ batch = [b \in Batches |-> "absent"]
    /\ job = [j \in Jobs |-> Absent]
    /\ latest = [t \in Targets |-> None]
    /\ queue = {}
    /\ thread = [t \in Threads |-> Idle]
    /\ web = [w \in Web |-> NoRequest]
    /\ worker = [mode |-> "up", pending |-> {}]
    /\ dropped = {} /\ overtaken = {} /\ doubted = {}
    /\ budget \in Budgets

Fails == budget.faults > 0 /\ budget' = [budget EXCEPT !.faults = @ - 1]
Acts == budget.acts > 0 /\ budget' = [budget EXCEPT !.acts = @ - 1]
Stops == budget.stops > 0 /\ budget' = [budget EXCEPT !.stops = @ - 1]

Generate(b) == <<"generate", b>>
Advance(j) == <<"advance", j>>

Of(b) == {j \in Jobs : j[1] = b}
In(states, J) == {j \in J : job[j].state \in states}
Superseded(j) == latest[j[2]] # j[1]

NewAttempt(row, origin) ==
    [row EXCEPT !.attempt = @ + 1, !.origin = origin, !.check = "none"]
Gate(row, state) == [row EXCEPT !.state = state]
Halt(row) == Gate(row, "stopped")

\* A gate of the machine, unless a stop was requested.
HaltOr(row, state) == IF row.stop THEN Halt(row) ELSE Gate(row, state)

\* Rows of J rewritten by Op.
Rewrite(J, Op(_)) == job' = [j \in Jobs |-> IF j \in J THEN Op(job[j]) ELSE job[j]]
SetRow(j, row) == job' = [job EXCEPT ![j] = row]

-----------------------------------------------------------------------------
(* The web process.                                                        *)

\* A thread that claims or generates b, and one that drives j.
Generating == {"claim", "gen", "ready", "undelivered"}
UnderWay(b) == \E t \in Threads : thread[t].pc \in Generating /\ thread[t].b = b
Drives(t, j) == thread[t].pc \in {"loop", "execute", "repair"} /\ thread[t].j = j

\* A task that will write j.
Attended(j) ==
    \/ Advance(j) \in queue
    \/ \E t \in Threads :
          \/ Drives(t, j) \/ j \in thread[t].claims
          \/ thread[t].pc = "ready" /\ thread[t].j = j
    \/ \E w \in Web : web[w].pc = "advance" /\ web[w].j = j

\* One that will write it whatever it reads then.
MidStep(j) ==
    \E t \in Threads :
       \/ j \in thread[t].claims
       \/ thread[t].pc \in {"execute", "repair"} /\ thread[t].j = j

Overtake(j, about) == overtaken' = IF about THEN overtaken \cup {j} ELSE overtaken

Room(b, chosen) ==
    /\ batch[b] = "absent" /\ \A c \in Batches : c < b => batch[c] # "absent"
    /\ {b} \X chosen \subseteq budget.jobs

\* create_batch reads the busy jobs without a lock ...
CheckBatch(w, chosen) ==
    /\ web[w].pc = "idle" /\ chosen # {}
    /\ \E b \in Batches : Room(b, chosen)
    /\ {j \in In(Active, Jobs) : j[2] \in chosen} = {}
    /\ web' = [web EXCEPT ![w] = [NoRequest EXCEPT !.pc = "create", !.chosen = chosen]]
    /\ UNCHANGED <<batch, job, latest, queue, thread, worker, history, budget>>

\* ... and commits the batch, its jobs and the new latest jobs.
CreateBatch(w, b) ==
    LET chosen == web[w].chosen
    IN  /\ web[w].pc = "create" /\ Room(b, chosen)
        /\ batch' = [batch EXCEPT ![b] = "generating"]
        /\ Rewrite({b} \X chosen, LAMBDA row : Gate(row, "queued"))
        /\ latest' = [t \in Targets |-> IF t \in chosen THEN b ELSE latest[t]]
        /\ web' = [web EXCEPT ![w] = [NoRequest EXCEPT !.pc = "generate", !.b = b]]
        /\ budget' = [budget EXCEPT !.jobs = @ \ {b} \X chosen]
        /\ UNCHANGED <<queue, thread, worker, history>>

\* _locked_job.
Open(j) == job[j].state \in Actionable /\ ~Superseded(j)

\* Nothing keeps people from a job that a task is about.
Approachable(j) == j \notin budget.plain

MakeActive(w, j, row) ==
    /\ SetRow(j, [row EXCEPT !.stop = FALSE])
    /\ web' = [web EXCEPT ![w] = [NoRequest EXCEPT !.pc = "advance", !.j = j]]
    /\ Overtake(j, Attended(j))
    /\ UNCHANGED <<batch, latest, queue, thread, worker, dropped, doubted>>

\* submit_revision.  Mutant: the job stays at its gate.
RevisedInPlace(row) == NewAttempt(row, "human")

Revised(row) == Gate(NewAttempt(row, "human"), "executing")

SubmitRevision(w, j) ==
    /\ web[w].pc = "idle" /\ Open(j) /\ Approachable(j) /\ job[j].attempt < budget.versions /\ Acts
    /\ MakeActive(w, j, Revised(job[j]))

\* With stub_mode "llm" the candidate is renewed, so that its evidence is.
Retry(w, j, renew) ==
    LET row == job[j]
        repair == row.step = "repair" /\ row.check = "gaps" /\ row.origin # "human"
    IN  /\ web[w].pc = "idle" /\ Open(j) /\ Approachable(j)
        /\ row.state \in {"blocked", "error", "stopped"} /\ row.attempt # 0
        /\ row.attempt < budget.versions
        /\ Acts
        /\ IF repair
             THEN MakeActive(w, j, Gate(row, "repairing"))
             ELSE MakeActive(w, j, Gate(IF renew THEN NewAttempt(row, row.origin)
                                                 ELSE row, "executing"))

Executed(row) == row.check \in {"pass", "gaps", "fail"}

\* review: a candidate without complete, passing evidence needs a note.
Approve(j, noted) ==
    LET row == job[j]
    IN  /\ Open(j) /\ Approachable(j) /\ row.attempt # 0
        /\ row.origin = "host" => Executed(row)
        /\ \/ noted
           \/ row.state = "awaiting_review" /\ row.check # "none"
        /\ SetRow(j, [row EXCEPT !.state = "approved", !.noted = noted])
        /\ Overtake(j, MidStep(j))
        /\ UNCHANGED <<batch, latest, queue, thread, web, worker, dropped, doubted, budget>>

Reject(j) ==
    /\ Open(j) /\ Approachable(j)
    /\ SetRow(j, [job[j] EXCEPT !.state = "rejected"])
    /\ Overtake(j, MidStep(j))
    /\ UNCHANGED <<batch, latest, queue, thread, web, worker, dropped, doubted, budget>>

\* _request_stop: a queued job stops at once.
Requested(row) ==
    LET marked == [row EXCEPT !.stop = TRUE]
    IN  IF row.state = "queued" THEN Halt(marked) ELSE marked

\* stop_job and stop_batch: one job, or every active job of a batch.
Stop(J) ==
    /\ In(Active, J) # {} /\ Stops
    /\ Rewrite(In(Active, J), Requested)
    /\ UNCHANGED <<batch, latest, queue, thread, web, worker, history>>

Enqueue(w) ==
    /\ web[w].pc \in {"generate", "advance"}
    /\ queue' = queue \cup {IF web[w].pc = "generate" THEN Generate(web[w].b)
                                                     ELSE Advance(web[w].j)}
    /\ web' = [web EXCEPT ![w] = NoRequest]
    /\ UNCHANGED <<batch, job, latest, thread, worker, history, budget>>

\* The enqueue raises, before or after the message was stored.
Message(w) == IF web[w].b # None THEN Generate(web[w].b) ELSE Advance(web[w].j)

DispatchRaises(w) ==
    /\ web[w].pc \in {"generate", "advance"} /\ Fails
    /\ queue' \in {queue, queue \cup {Message(w)}}
    /\ web' = [web EXCEPT ![w].pc = "failing"]
    /\ UNCHANGED <<batch, job, latest, thread, worker, history>>

\* dispatch_failed.
Stranded(w) ==
    IF web[w].b # None THEN In({"queued"}, Of(web[w].b))
                       ELSE In({"executing", "repairing"}, {web[w].j})

Begun(b) == UnderWay(b) \/ In({"generating"}, Of(b)) # {}

DispatchFailed(w) ==
    LET closed == {b \in Batches : b = web[w].b /\ batch[b] = "generating"}
    IN  /\ web[w].pc = "failing"
        /\ batch' = [b \in Batches |-> IF b \in closed THEN "failed" ELSE batch[b]]
        /\ doubted' = doubted \cup {b \in closed : Begun(b)}
        /\ Rewrite(Stranded(w), LAMBDA row : HaltOr(row, "error"))
        /\ web' = [web EXCEPT ![w] = NoRequest]
        /\ UNCHANGED <<latest, queue, thread, worker, dropped, overtaken, budget>>

\* The jobs no task is about once the request is gone.
Abandoned(w) ==
    IF Message(w) \in queue THEN {}
    ELSE IF web[w].b # None THEN IF UnderWay(web[w].b) THEN {} ELSE In({"queued"}, Of(web[w].b))
    ELSE {j \in {web[w].j} : \A t \in Threads : ~Drives(t, j)}

\* The web process dies after the commit, or dispatch_failed raises too.
WebDies(w) ==
    /\ web[w].pc \in {"generate", "advance", "failing"} /\ Fails
    /\ dropped' = dropped \cup Abandoned(w)
    /\ web' = [web EXCEPT ![w] = NoRequest]
    /\ UNCHANGED <<batch, job, latest, queue, thread, worker, overtaken, doubted>>

-----------------------------------------------------------------------------
(* Generation, under the process gate.                                     *)

GateFree == \A t \in Threads : thread[t].pc \notin Generating

Up == worker.mode = "up"
Goto(t, pc) == thread' = [thread EXCEPT ![t].pc = pc]
Finish(t) == thread' = [thread EXCEPT ![t] = Idle]

\* Mutant: a duplicate takes an interrupted generation for a finished one.
InterruptedNone(b) == {}

Interrupted(b) == In({"generating"}, Of(b))

\* The message is consumed; a busy gate reschedules it, which changes nothing.
\* The queued jobs are read without a lock ...
StartGeneration(t, b) ==
    LET queued == In({"queued"}, Of(b))
        entered == [Idle EXCEPT !.pc = "refresh", !.b = b]
    IN  /\ Up /\ thread[t].pc = "idle" /\ GateFree /\ Generate(b) \in queue
        /\ queue' = queue \ {Generate(b)}
        /\ \/ /\ batch[b] # "generating"
              /\ UNCHANGED <<batch, job, thread>>
           \/ /\ batch[b] = "generating" /\ queued # {}
              /\ thread' = [thread EXCEPT ![t] = [entered EXCEPT !.pc = "claim", !.claims = queued]]
              /\ UNCHANGED <<batch, job>>
           \/ /\ batch[b] = "generating" /\ queued = {} /\ Interrupted(b) # {}
              /\ Rewrite(Interrupted(b), LAMBDA row : HaltOr(row, "error"))
              /\ batch' = [batch EXCEPT ![b] = "failed"] /\ UNCHANGED thread
           \/ /\ batch[b] = "generating" /\ queued = {} /\ Interrupted(b) = {}
              /\ batch' = [batch EXCEPT ![b] = "running"]
              /\ thread' = [thread EXCEPT ![t] = entered] /\ UNCHANGED job
        /\ UNCHANGED <<latest, web, worker, history, budget>>

\* ... and written whatever became of them since.
ClaimQueued(t) ==
    /\ Up /\ thread[t].pc = "claim"
    /\ Rewrite(thread[t].claims, LAMBDA row : Gate(row, "generating"))
    /\ thread' = [thread EXCEPT ![t].pc = "gen", ![t].claims = {}]
    /\ UNCHANGED <<batch, latest, queue, web, worker, history, budget>>

\* The message is consumed at a busy gate, and rescheduling it fails.
BusyLost(t, b) ==
    /\ Up /\ thread[t].pc = "idle" /\ ~GateFree /\ Generate(b) \in queue /\ Fails
    /\ queue' = queue \ {Generate(b)}
    /\ dropped' = dropped \cup (IF UnderWay(b) THEN {} ELSE In({"queued"}, Of(b)))
    /\ UNCHANGED <<batch, job, latest, thread, web, worker, overtaken, doubted>>

\* Mutant: a unit is accepted again for a job that went on.
AcceptableAgain(b) == In({"generating", "executing"}, Of(b))

\* Every unit arrives twice, in a receipt and in the final document: only the
\* first finds its job generating.
Acceptable(b) == In({"generating"}, Of(b))

\* accept: one finished unit, with or without a TestCsv.
Accept(t, j, csv) ==
    LET row == IF csv THEN HaltOr(NewAttempt(job[j], "generator"), "executing")
                      ELSE HaltOr(job[j], "needs_human")
    IN  /\ Up /\ thread[t].pc = "gen" /\ j \in Acceptable(thread[t].b)
        /\ j \in budget.plain => csv
        /\ SetRow(j, row)
        /\ thread' = IF row.state = "executing"
                       THEN [thread EXCEPT ![t].pc = "ready", ![t].j = j] ELSE thread
        /\ UNCHANGED <<batch, latest, queue, web, worker, history, budget>>

HandOver(t) ==
    /\ Up /\ thread[t].pc = "ready"
    /\ queue' = queue \cup {Advance(thread[t].j)}
    /\ thread' = [thread EXCEPT ![t].pc = "gen", ![t].j = None]
    /\ UNCHANGED <<batch, job, latest, web, worker, history, budget>>

\* The enqueue raises, before or after the message was stored.
HandOverRaises(t) ==
    /\ Up /\ thread[t].pc = "ready" /\ Fails
    /\ queue' \in {queue, queue \cup {Advance(thread[t].j)}}
    /\ Goto(t, "undelivered")
    /\ UNCHANGED <<batch, job, latest, web, worker, history>>

\* The jobs a failed generation leaves behind.
Unfinished(b) == In({"generating"}, Of(b))

\* A BridgeError: of the generator, or because the hand-over failed.
GenerationFails(t) ==
    LET b == thread[t].b
        undelivered == IF thread[t].pc = "undelivered" THEN In({"executing"}, {thread[t].j}) ELSE {}
    IN  /\ Up
        /\ \/ thread[t].pc = "gen" /\ Fails
           \/ thread[t].pc = "undelivered" /\ UNCHANGED budget
        /\ batch' = [batch EXCEPT ![b] = "failed"]
        /\ job' = [j \in Jobs |->
                      CASE j \in undelivered -> Gate(job[j], "error")
                        [] j \in Unfinished(b) -> HaltOr(job[j], "error")
                        [] OTHER -> job[j]]
        /\ Finish(t)
        /\ UNCHANGED <<latest, queue, web, worker, history>>

\* Any other exception, the handler's included: the task has no handler, so
\* the gate is released and the jobs stay as they are.
GenerationCrashes(t) ==
    LET undelivered == {j \in {thread[t].j} : j # None /\ Advance(j) \notin queue}
    IN  /\ Up /\ Fails
        /\ thread[t].pc \in Generating \/ (thread[t].pc = "refresh" /\ thread[t].j = None)
        /\ dropped' = dropped \cup In({"queued", "generating"}, Of(thread[t].b)) \cup undelivered
        /\ Finish(t)
        /\ UNCHANGED <<batch, job, latest, queue, web, worker, overtaken, doubted>>

\* The message of a batch is delivered once more.
Redeliver(b) ==
    /\ batch[b] # "absent" /\ Generate(b) \notin queue /\ Fails
    /\ \A w \in Web : web[w].b # b
    /\ queue' = queue \cup {Generate(b)}
    /\ UNCHANGED <<batch, job, latest, thread, web, worker, history>>

GenerationDone(t) ==
    LET b == thread[t].b
    IN  /\ Up /\ thread[t].pc = "gen" /\ Unfinished(b) = {}
        /\ batch' = [batch EXCEPT ![b] = "running"]
        /\ Goto(t, "refresh")
        /\ UNCHANGED <<job, latest, queue, web, worker, history, budget>>

RefreshBatch(t) ==
    LET b == thread[t].b
    IN  /\ Up /\ thread[t].pc = "refresh"
        /\ batch' = IF batch[b] = "running" /\ In(Active, Of(b)) = {}
                      THEN [batch EXCEPT ![b] = "done"] ELSE batch
        /\ Finish(t)
        /\ UNCHANGED <<job, latest, queue, web, worker, history, budget>>

-----------------------------------------------------------------------------
(* The driver of one job.                                                  *)

TakeAdvance(t, j) ==
    /\ Up /\ thread[t].pc = "idle" /\ Advance(j) \in queue
    /\ queue' = queue \ {Advance(j)}
    /\ thread' = [thread EXCEPT ![t] = [Idle EXCEPT !.pc = "loop", !.b = j[1], !.j = j]]
    /\ UNCHANGED <<batch, job, latest, web, worker, history, budget>>

\* _host_next_state: rows the model may add, while rounds are left.
\* Mutant: the rounds are not compared.
NextStateUnbounded(row, check) ==
    CASE check = "gaps" /\ row.origin # "human" -> "repairing"
      [] check = "pass" -> "awaiting_review"
      [] check = "blocked" -> "blocked"
      [] OTHER -> "needs_human"

NextState(row, check) ==
    CASE check = "gaps" /\ row.origin # "human" /\ row.rounds < MaxRounds -> "repairing"
      [] check = "pass" -> "awaiting_review"
      [] check = "blocked" -> "blocked"
      [] OTHER -> "needs_human"

\* The loop reads the job again after every step.
Loop(t) ==
    LET j == thread[t].j
        row == job[j]
    IN  /\ Up /\ thread[t].pc = "loop"
        /\ \/ /\ row.state \in Active /\ row.stop
              /\ SetRow(j, Halt(row)) /\ Goto(t, "refresh")
           \/ /\ row.state = "executing" /\ ~row.stop
              /\ SetRow(j, [row EXCEPT !.step = "execute"])
              /\ thread' = [thread EXCEPT ![t].pc = "execute", ![t].a = row.attempt]
           \/ /\ row.state = "repairing" /\ ~row.stop
              /\ NextState(row, row.check) = "repairing"
              /\ SetRow(j, [row EXCEPT !.step = "repair"])
              /\ thread' = [thread EXCEPT ![t].pc = "repair", ![t].a = row.attempt]
           \/ /\ row.state = "repairing" /\ ~row.stop
              /\ NextState(row, row.check) # "repairing"
              /\ SetRow(j, Gate(row, NextState(row, row.check))) /\ UNCHANGED thread
           \/ /\ row.state \notin {"executing", "repairing"}
              /\ UNCHANGED job /\ Goto(t, "refresh")
        /\ UNCHANGED <<batch, latest, queue, web, worker, history, budget>>

Checks == {"pass", "gaps", "fail", "blocked"}

\* The Host run answered: evidence is recorded on the attempt it executed,
\* whose origin decides.
Evidence(t, check) ==
    LET row == job[thread[t].j]
    IN  IF thread[t].a = row.attempt THEN [row EXCEPT !.check = check] ELSE row

ExecuteDone(t, check) ==
    LET j == thread[t].j
        row == Evidence(t, check)
        ran == IF thread[t].a = row.attempt THEN {row.origin} ELSE Origins
    IN  /\ Up /\ thread[t].pc = "execute"
        /\ j \in budget.plain => check = "pass"
        /\ \E origin \in ran :
              SetRow(j, HaltOr(row, NextState([row EXCEPT !.origin = origin], check)))
        /\ Goto(t, "loop")
        /\ UNCHANGED <<batch, latest, queue, web, worker, history, budget>>

\* The candidate or its evidence is not what it was: only the last of the
\* three checks comes before the stop check.
ExecuteRefused(t, heeded) ==
    LET j == thread[t].j
        row == Evidence(t, "blocked")
    IN  /\ Up /\ thread[t].pc = "execute" /\ j \notin budget.plain
        /\ SetRow(j, IF heeded THEN HaltOr(row, "needs_human") ELSE Gate(row, "needs_human"))
        /\ Goto(t, "loop")
        /\ UNCHANGED <<batch, latest, queue, web, worker, history, budget>>

\* The run derived the typed outputs of a candidate that lacked them.
Derived(row) == Gate(NewAttempt(row, "host"), "executing")

ExecuteDerives(t) ==
    LET j == thread[t].j
        row == job[j]
    IN  /\ Up /\ thread[t].pc = "execute" /\ thread[t].a = row.attempt
        /\ row.origin # "host" /\ j \notin budget.plain /\ row.attempt < budget.versions
        /\ SetRow(j, IF row.stop THEN Halt(row) ELSE Derived(row))
        /\ Goto(t, "loop")
        /\ UNCHANGED <<batch, latest, queue, web, worker, history, budget>>

Spent(row, n) == [row EXCEPT !.rounds = @ + n]

\* The model answered with rows: the checker takes the candidate ...
RepairTaken(t) ==
    LET j == thread[t].j
    IN  /\ Up /\ thread[t].pc = "repair" /\ job[j].attempt < budget.versions
        /\ SetRow(j, Gate(NewAttempt(Spent(job[j], 1), "llm"), "executing"))
        /\ Goto(t, "loop")
        /\ UNCHANGED <<batch, latest, queue, web, worker, history, budget>>

\* ... or refuses it, or there was none: another round, unless none is left
\* or asking again is pointless (BLOCKED, stalled).  A prompt guard may stop
\* the round before the model was asked.
RepairRefused(t, cost, pointless) ==
    LET j == thread[t].j
        row == Spent(job[j], cost)
    IN  /\ Up /\ thread[t].pc = "repair" /\ (cost = 0 => pointless)
        /\ SetRow(j, IF pointless \/ row.rounds >= MaxRounds
                       THEN Gate(row, "needs_human") ELSE row)
        /\ Goto(t, "loop")
        /\ UNCHANGED <<batch, latest, queue, web, worker, history, budget>>

\* A provider or bridge error, in either step; the candidate check of a
\* repair fails after the round was spent.
StepFails(t, cost) ==
    LET j == thread[t].j
    IN  /\ Up /\ thread[t].pc \in {"execute", "repair"} /\ Fails
        /\ thread[t].pc = "execute" => cost = 0
        /\ SetRow(j, IF thread[t].pc = "execute" THEN HaltOr(job[j], "error")
                                                 ELSE Gate(Spent(job[j], cost), "error"))
        /\ Goto(t, "loop")
        /\ UNCHANGED <<batch, latest, queue, web, worker, history>>

\* Any other exception: the task's handler parks the job ...
StepCrashes(t) ==
    LET j == thread[t].j
    IN  /\ Up /\ thread[t].pc \in {"loop", "execute", "repair", "refresh"} /\ j # None /\ Fails
        /\ SetRow(j, IF job[j].state \in Active THEN Gate(job[j], "error") ELSE job[j])
        /\ Finish(t)
        /\ UNCHANGED <<batch, latest, queue, web, worker, history>>

\* ... or raises itself, in the outage that brought it about.
HandlerFails(t) ==
    LET j == thread[t].j
    IN  /\ Up /\ thread[t].pc \in {"loop", "execute", "repair", "refresh"} /\ j # None /\ Fails
        /\ dropped' = dropped \cup (IF Drives(t, j) THEN In(Active, {j}) ELSE {})
        /\ Finish(t)
        /\ UNCHANGED <<batch, job, latest, queue, web, worker, overtaken, doubted>>

-----------------------------------------------------------------------------
(* The worker process.                                                     *)

WorkerDies ==
    /\ Up /\ Fails
    /\ thread' = [t \in Threads |-> Idle]
    /\ worker' = [mode |-> "down", pending |-> {}]
    /\ UNCHANGED <<batch, job, latest, queue, web, history>>

ReadPending ==
    /\ worker.mode = "down"
    /\ worker' = [mode |-> "starting", pending |-> queue]
    /\ UNCHANGED <<batch, job, latest, queue, thread, web, history, budget>>

\* Mutant: a generation under way is taken for pending.
DrivenAny(j) ==
    \/ job[j].state \in {"executing", "repairing"} /\ Advance(j) \in worker.pending
    \/ job[j].state \in {"queued", "generating"}

\* A queued task will pick the job up.
Driven(j) ==
    \/ job[j].state \in {"executing", "repairing"} /\ Advance(j) \in worker.pending
    \/ job[j].state = "queued" /\ Generate(j[1]) \in worker.pending

\* recover_interrupted, and the refresh of the batches it touched.
Recover ==
    LET lost == {j \in In(Active, Jobs) : ~Driven(j)}
        unborn == {j \in lost : ~job[j].stop /\ (job[j].state \in {"queued", "generating"}
                                                 \/ job[j].attempt = 0)}
        touched == {j[1] : j \in In(Active, Jobs)}
        left(b) == In(Active, Of(b)) \ lost
    IN  /\ worker.mode = "starting"
        /\ Rewrite(lost, LAMBDA row : HaltOr(row, "error"))
        /\ batch' = [b \in Batches |->
                        CASE batch[b] = "generating" /\ \E j \in unborn : j[1] = b -> "failed"
                          [] batch[b] = "running" /\ b \in touched /\ left(b) = {} -> "done"
                          [] OTHER -> batch[b]]
        /\ worker' = [mode |-> "up", pending |-> {}]
        /\ dropped' = {}
        /\ UNCHANGED <<latest, queue, thread, web, overtaken, doubted, budget>>

-----------------------------------------------------------------------------
Human ==
    \/ \E w \in Web :
          \/ \E chosen \in SUBSET Targets : CheckBatch(w, chosen)
          \/ \E b \in Batches : CreateBatch(w, b)
          \/ \E j \in Jobs : SubmitRevision(w, j) \/ \E renew \in BOOLEAN : Retry(w, j, renew)
    \/ \E j \in Jobs : Reject(j) \/ Stop({j}) \/ \E noted \in BOOLEAN : Approve(j, noted)
    \/ \E b \in Batches : Stop(Of(b))

Dispatch(w) == Enqueue(w) \/ DispatchRaises(w) \/ DispatchFailed(w) \/ WebDies(w)

GenerationStep(t) ==
    \/ ClaimQueued(t) \/ HandOver(t) \/ HandOverRaises(t)
    \/ \E j \in Jobs, csv \in BOOLEAN : Accept(t, j, csv)
    \/ GenerationFails(t) \/ GenerationCrashes(t) \/ GenerationDone(t) \/ RefreshBatch(t)

DriverStep(t) ==
    \/ Loop(t) \/ ExecuteDerives(t) \/ RepairTaken(t) \/ StepCrashes(t) \/ HandlerFails(t)
    \/ \E heeded \in BOOLEAN : ExecuteRefused(t, heeded)
    \/ \E check \in Checks : ExecuteDone(t, check)
    \/ \E cost \in {0, 1} :
          \/ StepFails(t, cost)
          \/ \E pointless \in BOOLEAN : RepairRefused(t, cost, pointless)

Consume(message) ==
    \E t \in Threads :
       \/ \E b \in Batches : message = Generate(b) /\ (StartGeneration(t, b) \/ BusyLost(t, b))
       \/ \E j \in Jobs : message = Advance(j) /\ TakeAdvance(t, j)

Messages == {Generate(b) : b \in Batches} \cup {Advance(j) : j \in Jobs}

\* Requests finish, Huey delivers messages while a thread is free, the calls
\* to the bridge and the model return (they have timeouts), and the worker
\* process is started again: while any of them can go on, one does.  People
\* and deliveries out of turn owe nothing.
Machine ==
    \/ \E w \in Web : Dispatch(w)
    \/ \E t \in Threads : GenerationStep(t) \/ DriverStep(t)
    \/ \E message \in Messages : Consume(message)
    \/ ReadPending \/ Recover

Next == Human \/ Machine \/ WorkerDies \/ \E b \in Batches : Redeliver(b)

Spec == Init /\ [][Next]_vars

FairSpec == Spec /\ WF_vars(Machine)

-----------------------------------------------------------------------------
(* Properties.                                                             *)

\* Every variable has its type, and no job spends more repair rounds than
\* its configuration allows, unless it was overtaken: two drivers may then
\* count a round each.
TypeOK ==
    /\ batch \in [Batches -> {"absent", "generating", "running", "done", "failed"}]
    /\ job \in [Jobs -> [state : {"absent"} \cup Active \cup Actionable \cup Decided,
                         stop : BOOLEAN,
                         attempt : Nat, origin : Origins \cup {None},
                         check : Checks \cup {"none"}, rounds : Nat, step : {"execute", "repair"},
                         noted : BOOLEAN]]
    /\ \A j \in Jobs \ overtaken : job[j].rounds <= MaxRounds
    /\ latest \in [Targets -> Batches \cup {None}]
    /\ queue \subseteq Messages
    /\ thread \in [Threads -> [pc : Generating \cup {"idle", "refresh", "loop", "execute", "repair"},
                               b : Batches \cup {None}, j : Jobs \cup {None}, a : Nat,
                               claims : SUBSET Jobs]]
    /\ web \in [Web -> [pc : {"idle", "create", "generate", "advance", "failing"},
                        b : Batches \cup {None}, j : Jobs \cup {None},
                        chosen : SUBSET Targets]]
    /\ worker \in [mode : {"up", "down", "starting"}, pending : SUBSET Messages]
    /\ dropped \subseteq Jobs /\ overtaken \subseteq Jobs /\ doubted \subseteq Batches
    /\ budget \in [jobs : SUBSET Jobs, plain : SUBSET Jobs,
                      versions : Nat, acts : Nat, stops : Nat, faults : Nat]

\* A job that waits for review, and one approved without a note, has the
\* passing evidence of its current version: no revision, derived candidate,
\* retry, stop, lost or repeated message or restart lets an older verdict
\* stand for a newer CSV.  Except a job that was overtaken: a driver that
\* is about when a person revises the job, after a gate it has yet to read
\* back or a dispatch_failed whose message was stored, may execute the old
\* candidate and set the gate of the new one.
ReviewedOnEvidence ==
    \A j \in Jobs \ overtaken :
        (job[j].state = "awaiting_review" \/ (job[j].state = "approved" /\ ~job[j].noted))
          => job[j].check = "pass"

\* One task at most is about for a job: drivers hold no lock, so two of them
\* would overwrite each other's outcome and execute the candidate twice.
\* Generation hands every job over once, however often a unit arrives, and
\* neither failed enqueues, crashes nor recovery start a second driver; only
\* a person does, who revives a job while its driver is about.
SoleDriver ==
    \A j \in Jobs \ overtaken :
        Cardinality({t \in Threads : Drives(t, j) \/ (thread[t].pc = "ready" /\ thread[t].j = j)}) +
        Cardinality({w \in Web : web[w].pc = "advance" /\ web[w].j = j}) +
        (IF Advance(j) \in queue THEN 1 ELSE 0) <= 1

\* A batch that is running, done or failed has no job left to generate:
\* nothing would ever generate it, and it could not be queued again.  Except
\* a batch dispatch_failed closed after its generation had begun.
ClosedBatchGenerated ==
    \A b \in Batches \ doubted :
        batch[b] \in {"running", "done", "failed"} => In({"queued", "generating"}, Of(b)) = {}

\* A decision of the reviewer stands: no machine outcome follows it.
DecisionStands ==
    [][\A j \in Jobs : job[j].state \in Decided => job'[j].state = job[j].state]_vars

\* It does unless the job was overtaken: a claim or a step of a driver was
\* under way when the reviewer decided, or when a person acted before.
UndisturbedDecisionStands ==
    [][\A j \in Jobs \ overtaken : job[j].state \in Decided => job'[j].state = job[j].state]_vars

\* Every active job reaches a gate, but for those that wait for the worker's
\* next start because the one task that would drive them was lost: the web
\* process died before the enqueue, or dispatch_failed raised; a busy gate
\* could not reschedule the message; the generation ended by an exception
\* other than a BridgeError, or in its handler; or a driver's step raised and
\* then the task's handler did.
ActiveEnds == \A j \in Jobs : []<>(job[j].state \notin Active \/ j \in dropped)
=============================================================================
