------------------------- MODULE UtPipeline_proofs -------------------------
(***************************************************************************)
(* Proofs about UtPipeline, for any batches, targets, threads and bounds:  *)
(* no batch is closed with a job left to generate, unless a failed enqueue *)
(* closed it; and until somebody acts on a job while a task is about it,   *)
(* one driver at most is at the job, what waits for review has the         *)
(* evidence of its version, and the reviewer's decision stands.            *)
(***************************************************************************)
EXTENDS UtPipeline, FiniteSetTheorems, TLAPS

USE DEF history

JobType ==
    [state : {"absent"} \cup Active \cup Actionable \cup Decided, stop : BOOLEAN,
     attempt : Nat, origin : Origins \cup {None}, check : Checks \cup {"none"},
     rounds : Nat, step : {"execute", "repair"}, noted : BOOLEAN]

BatchStates == {"absent", "generating", "running", "done", "failed"}

ThreadType ==
    [pc : Generating \cup {"idle", "refresh", "loop", "execute", "repair"},
     b : Batches \cup {None}, j : Jobs \cup {None}, a : Nat, claims : SUBSET Jobs]

WebType ==
    [pc : {"idle", "create", "generate", "advance", "failing"},
     b : Batches \cup {None}, j : Jobs \cup {None}, chosen : SUBSET Targets]

RowsTyped == batch \in [Batches -> BatchStates] /\ job \in [Jobs -> JobType]

\* What a thread and a request hold at each of their places.
ThreadsTyped ==
    /\ thread \in [Threads -> ThreadType]
    /\ \A t \in Threads :
          /\ thread[t].pc # "idle" => thread[t].b \in Batches
          /\ thread[t].pc \in {"ready", "undelivered", "loop", "execute", "repair"} => thread[t].j \in Jobs
          /\ thread[t].pc \in {"idle", "claim", "gen"} => thread[t].j = None
          /\ thread[t].claims # {} => thread[t].pc = "claim"
          /\ ~Up => thread[t].pc = "idle"

WebTyped ==
    /\ web \in [Web -> WebType]
    /\ \A w \in Web :
          /\ web[w].pc = "generate" => web[w].b # None
          /\ web[w].pc = "advance" => web[w].b = None /\ web[w].j # None
          /\ web[w].pc = "failing" => web[w].b # None \/ web[w].j # None

BudgetType ==
    [jobs : SUBSET Jobs, plain : SUBSET Jobs, versions : Nat, acts : Nat, stops : Nat, faults : Nat]

RestTyped ==
    /\ latest \in [Targets -> Batches \cup {None}]
    /\ queue \subseteq Messages
    /\ worker \in [mode : {"up", "down", "starting"}, pending : SUBSET Messages]
    /\ dropped \subseteq Jobs /\ overtaken \subseteq Jobs /\ doubted \subseteq Batches
    /\ budget \in BudgetType

Typed == RowsTyped /\ ThreadsTyped /\ WebTyped /\ RestTyped

-----------------------------------------------------------------------------
(* Rows.                                                                   *)

\* What no gate of the machine touches.
SameWork(m, n) ==
    n.attempt = m.attempt /\ n.check = m.check /\ n.rounds = m.rounds /\ n.noted = m.noted

Parks(m, n) == SameWork(m, n) /\ n.state \in {"error", "needs_human", "stopped"}

LEMMA GateType ==
    ASSUME NEW m \in JobType, NEW s \in {"absent"} \cup Active \cup Actionable \cup Decided
    PROVE  Gate(m, s) \in JobType /\ Gate(m, s).state = s /\ SameWork(m, Gate(m, s))
           /\ Gate(m, s).stop = m.stop
  BY DEF JobType, Gate, SameWork

LEMMA HaltOrParks ==
    ASSUME NEW m \in JobType, NEW s \in {"error", "needs_human"}
    PROVE  /\ HaltOr(m, s) \in JobType /\ Parks(m, HaltOr(m, s))
           /\ Gate(m, s) \in JobType /\ Parks(m, Gate(m, s))
           /\ Halt(m) \in JobType /\ Parks(m, Halt(m))
  BY GateType DEF HaltOr, Halt, Parks, Actionable, HumanGates

LEMMA NewAttemptType ==
    ASSUME NEW m \in JobType, NEW o \in Origins \cup {None}
    PROVE  LET n == NewAttempt(m, o)
           IN  /\ n \in JobType /\ n.attempt = m.attempt + 1 /\ n.check = "none"
               /\ n.state = m.state /\ n.rounds = m.rounds /\ n.noted = m.noted /\ n.stop = m.stop
  <1>1. m.attempt + 1 \in Nat /\ "none" \in Checks \cup {"none"}
    BY DEF JobType
  <1>. QED
    BY <1>1 DEF JobType, NewAttempt

LEMMA SpentType ==
    ASSUME NEW m \in JobType, NEW c \in {0, 1}
    PROVE  LET n == Spent(m, c)
           IN  /\ n \in JobType /\ n.rounds = m.rounds + c /\ n.state = m.state
               /\ n.attempt = m.attempt /\ n.check = m.check /\ n.noted = m.noted /\ n.stop = m.stop
  <1>1. m.rounds + c \in Nat
    BY DEF JobType
  <1>. QED
    BY <1>1 DEF JobType, Spent

LEMMA AbsentType == Absent \in JobType
  BY DEF Absent, JobType

LEMMA NextStateType ==
    ASSUME NEW m \in JobType, NEW c \in Checks \cup {"none"}
    PROVE  /\ NextState(m, c) \in {"repairing", "awaiting_review", "blocked", "needs_human"}
           /\ NextState(m, c) = "awaiting_review" <=> c = "pass"
           /\ NextState(m, c) = "repairing" => m.rounds < MaxRounds
  BY DEF NextState, Checks

-----------------------------------------------------------------------------
(* What each action makes of the rows.                                     *)

RowOnly(j) ==
    job' \in [Jobs -> JobType] /\ \A k \in Jobs \ {j} : job'[k] = job[k]

LEMMA SetRowIs ==
    ASSUME RowsTyped, NEW j \in Jobs, NEW m \in JobType, SetRow(j, m)
    PROVE  RowOnly(j) /\ job'[j] = m
  BY DEF RowsTyped, SetRow, RowOnly

LEMMA CreateRows ==
    ASSUME RowsTyped, NEW w \in Web, NEW b \in Batches, CreateBatch(w, b)
    PROVE  /\ job' \in [Jobs -> JobType]
           /\ \A j \in Jobs :
                 \/ job'[j] = job[j]
                 \/ j \in Of(b) /\ job'[j].state = "queued" /\ SameWork(job[j], job'[j])
  <1>. DEFINE J == {b} \X web[w].chosen
  <1>1. job' = [j \in Jobs |-> IF j \in J THEN Gate(job[j], "queued") ELSE job[j]]
    BY DEF CreateBatch, Rewrite
  <1>2. \A j \in Jobs : /\ Gate(job[j], "queued") \in JobType /\ Gate(job[j], "queued").state = "queued"
                        /\ SameWork(job[j], Gate(job[j], "queued")) /\ job[j] \in JobType
    BY GateType DEF RowsTyped, Active
  <1>3. \A j \in J : j[1] = b
    OBVIOUS
  <1>. HIDE DEF J
  <1>. QED
    BY <1>1, <1>2, <1>3 DEF Of

\* A human act that makes a job at a gate active again.
Revises(w, j) ==
    /\ RowOnly(j) /\ Open(j) /\ Overtake(j, Attended(j)) /\ web[w].pc = "idle"
    /\ job'[j].state \in {"executing", "repairing"} /\ job'[j].attempt > 0
    /\ job'[j].rounds = job[j].rounds
    /\ web' = [web EXCEPT ![w] = [NoRequest EXCEPT !.pc = "advance", !.j = j]]
    /\ UNCHANGED <<batch, latest, queue, thread, worker, dropped, doubted>>

LEMMA ReviseRows ==
    ASSUME RowsTyped, NEW w \in Web, NEW j \in Jobs,
           SubmitRevision(w, j) \/ \E renew \in BOOLEAN : Retry(w, j, renew)
    PROVE  Revises(w, j)
  <1>0. job[j] \in JobType
    BY DEF RowsTyped
  <1>1. ASSUME NEW m \in JobType, MakeActive(w, j, m), Open(j), web[w].pc = "idle",
               m.state \in {"executing", "repairing"}, m.attempt > 0, m.rounds = job[j].rounds
        PROVE  Revises(w, j)
    <2>. DEFINE n == [m EXCEPT !.stop = FALSE]
    <2>1. n \in JobType /\ n.state = m.state /\ n.attempt = m.attempt /\ n.rounds = m.rounds
      BY DEF JobType
    <2>2. SetRow(j, n)
      BY <1>1 DEF MakeActive
    <2>. HIDE DEF n
    <2>3. RowOnly(j) /\ job'[j] = n
      BY <2>1, <2>2, SetRowIs
    <2>. QED
      BY <1>1, <2>1, <2>3 DEF Revises, MakeActive
  <1>2. CASE SubmitRevision(w, j)
    <2>. DEFINE a == NewAttempt(job[j], "human")
    <2>1. a \in JobType /\ a.attempt = job[j].attempt + 1 /\ a.rounds = job[j].rounds
      BY <1>0, NewAttemptType DEF Origins
    <2>2. Revised(job[j]) = Gate(a, "executing")
      BY DEF Revised
    <2>. HIDE DEF a
    <2>3. /\ Revised(job[j]) \in JobType /\ Revised(job[j]).state = "executing"
          /\ Revised(job[j]).attempt > 0 /\ Revised(job[j]).rounds = job[j].rounds
      BY <1>0, <2>1, <2>2, GateType DEF Active, SameWork, JobType
    <2>. QED
      BY <1>1, <1>2, <2>3 DEF SubmitRevision
  <1>3. ASSUME NEW renew \in BOOLEAN, Retry(w, j, renew) PROVE Revises(w, j)
    <2>. DEFINE a == IF renew THEN NewAttempt(job[j], job[j].origin) ELSE job[j]
    <2>0. job[j].attempt # 0 /\ job[j].attempt \in Nat
      BY <1>0, <1>3 DEF Retry, JobType
    <2>1. a \in JobType /\ a.attempt > 0 /\ a.rounds = job[j].rounds
      <3>1. job[j].origin \in Origins \cup {None}
        BY <1>0 DEF JobType
      <3>. QED
        BY <1>0, <2>0, <3>1, NewAttemptType
    <2>2. Gate(job[j], "repairing") \in JobType /\ Gate(job[j], "repairing").state = "repairing"
          /\ Gate(job[j], "repairing").attempt > 0 /\ Gate(job[j], "repairing").rounds = job[j].rounds
      BY <1>0, <2>0, GateType DEF Active, SameWork
    <2>3. Gate(a, "executing") \in JobType /\ Gate(a, "executing").state = "executing"
          /\ Gate(a, "executing").attempt > 0 /\ Gate(a, "executing").rounds = job[j].rounds
      BY <2>1, GateType DEF Active, SameWork
    <2>4. MakeActive(w, j, Gate(job[j], "repairing")) \/ MakeActive(w, j, Gate(a, "executing"))
      BY <1>3 DEF Retry
    <2>5. Open(j) /\ web[w].pc = "idle"
      BY <1>3 DEF Retry
    <2>. HIDE DEF a
    <2>. QED
      BY <1>1, <2>2, <2>3, <2>4, <2>5
  <1>. QED
    BY <1>2, <1>3

\* The reviewer decides.
Decides(j) ==
    /\ RowOnly(j) /\ Open(j) /\ Overtake(j, MidStep(j)) /\ job'[j].state \in Decided
    /\ job'[j].attempt = job[j].attempt /\ job'[j].check = job[j].check
    /\ job'[j].rounds = job[j].rounds
    /\ job'[j].state = "approved" /\ ~job'[j].noted => job[j].state = "awaiting_review"
    /\ UNCHANGED <<batch, latest, queue, thread, web, worker, dropped, doubted, budget>>

LEMMA DecideRows ==
    ASSUME RowsTyped, NEW j \in Jobs, Reject(j) \/ \E noted \in BOOLEAN : Approve(j, noted)
    PROVE  Decides(j)
  <1>0. job[j] \in JobType
    BY DEF RowsTyped
  <1>1. CASE Reject(j)
    <2>. DEFINE m == [job[j] EXCEPT !.state = "rejected"]
    <2>1. m \in JobType /\ m.state = "rejected" /\ SameWork(job[j], m)
      BY <1>0 DEF JobType, SameWork, Decided
    <2>2. SetRow(j, m)
      BY <1>1 DEF Reject
    <2>. HIDE DEF m
    <2>3. RowOnly(j) /\ job'[j] = m
      BY <2>1, <2>2, SetRowIs
    <2>. QED
      BY <1>1, <2>1, <2>3 DEF Reject, Decides, Decided, SameWork
  <1>2. ASSUME NEW noted \in BOOLEAN, Approve(j, noted) PROVE Decides(j)
    <2>. DEFINE m == [job[j] EXCEPT !.state = "approved", !.noted = noted]
    <2>1. /\ m \in JobType /\ m.state = "approved" /\ m.noted = noted
          /\ m.attempt = job[j].attempt /\ m.check = job[j].check /\ m.rounds = job[j].rounds
      BY <1>0 DEF JobType, Decided
    <2>2. SetRow(j, m)
      BY <1>2 DEF Approve
    <2>. HIDE DEF m
    <2>3. RowOnly(j) /\ job'[j] = m
      BY <2>1, <2>2, SetRowIs
    <2>4. noted \/ job[j].state = "awaiting_review"
      BY <1>2 DEF Approve
    <2>. QED
      BY <1>2, <2>1, <2>3, <2>4 DEF Approve, Decides, Decided
  <1>. QED
    BY <1>1, <1>2

\* A stop marks the active jobs, and ends the queued ones.
LEMMA StopRows ==
    ASSUME RowsTyped, NEW J, Stop(J)
    PROVE  /\ job' \in [Jobs -> JobType]
           /\ \A j \in Jobs :
                 /\ SameWork(job[j], job'[j])
                 /\ \/ job'[j].state = job[j].state
                    \/ job[j].state = "queued" /\ job'[j].state = "stopped"
  <1>1. job' = [j \in Jobs |-> IF j \in In(Active, J) THEN Requested(job[j]) ELSE job[j]]
    BY DEF Stop, Rewrite
  <1>2. ASSUME NEW m \in JobType
        PROVE  /\ Requested(m) \in JobType /\ SameWork(m, Requested(m))
               /\ Requested(m).state = (IF m.state = "queued" THEN "stopped" ELSE m.state)
    <2>. DEFINE n == [m EXCEPT !.stop = TRUE]
    <2>1. n \in JobType /\ n.state = m.state /\ SameWork(m, n)
      BY DEF JobType, SameWork
    <2>2. Requested(m) = IF m.state = "queued" THEN Halt(n) ELSE n
      BY DEF Requested
    <2>. HIDE DEF n
    <2>3. Halt(n) \in JobType /\ SameWork(n, Halt(n)) /\ Halt(n).state = "stopped"
      BY <2>1, GateType DEF Halt, Actionable
    <2>. QED
      BY <2>1, <2>2, <2>3 DEF SameWork
  <1>. QED
    BY <1>1, <1>2 DEF RowsTyped, SameWork

\* An enqueue that failed parks the jobs that nothing will pick up, and fails
\* a batch that was still to generate.
LEMMA DispatchRows ==
    ASSUME RowsTyped, WebTyped, NEW w \in Web, DispatchFailed(w)
    PROVE  /\ job' \in [Jobs -> JobType] /\ batch' \in [Batches -> BatchStates]
           /\ \A j \in Jobs : job'[j] = job[j] \/ (job[j].state \in Active /\ Parks(job[j], job'[j]))
           /\ doubted \subseteq doubted' /\ doubted' \subseteq doubted \cup Batches
           /\ \A b \in Batches :
                 \/ batch'[b] = batch[b] /\ (b \in doubted' => b \in doubted)
                 \/ /\ batch[b] = "generating" /\ batch'[b] = "failed"
                    /\ Begun(b) => b \in doubted'
                    /\ \A j \in Of(b) : job[j].state = "queued" => Parks(job[j], job'[j])
  <1>1. job' = [j \in Jobs |-> IF j \in Stranded(w) THEN HaltOr(job[j], "error") ELSE job[j]]
    BY DEF DispatchFailed, Rewrite
  <1>2. \A j \in Jobs : HaltOr(job[j], "error") \in JobType /\ Parks(job[j], HaltOr(job[j], "error"))
    BY HaltOrParks DEF RowsTyped
  <1>3. /\ job' \in [Jobs -> JobType]
        /\ \A j \in Jobs : job'[j] = job[j] \/ (job[j].state \in Active /\ Parks(job[j], job'[j]))
    <2>1. \A j \in Stranded(w) : job[j].state \in Active
      BY DEF Stranded, In, Active
    <2>. QED
      BY <1>1, <1>2, <2>1 DEF RowsTyped
  <1>. DEFINE closed == {b \in Batches : b = web[w].b /\ batch[b] = "generating"}
  <1>4. /\ batch' = [b \in Batches |-> IF b \in closed THEN "failed" ELSE batch[b]]
        /\ doubted' = doubted \cup {b \in closed : Begun(b)}
    BY DEF DispatchFailed
  <1>5. batch' \in [Batches -> BatchStates]
    BY <1>4 DEF RowsTyped, BatchStates
  <1>6. ASSUME NEW b \in Batches
        PROVE  \/ batch'[b] = batch[b] /\ (b \in doubted' => b \in doubted)
               \/ /\ batch[b] = "generating" /\ batch'[b] = "failed"
                  /\ Begun(b) => b \in doubted'
                  /\ \A j \in Of(b) : job[j].state = "queued" => Parks(job[j], job'[j])
    <2>1. CASE b \in closed
      <3>1. \A j \in Of(b) : job[j].state = "queued" => j \in Stranded(w) /\ j \in Jobs
        BY <2>1, NoneAssumption DEF Stranded, In, Of
      <3>2. \A j \in Of(b) : job[j].state = "queued" => Parks(job[j], job'[j])
        BY <1>1, <1>2, <3>1
      <3>. QED
        BY <1>4, <2>1, <3>2
    <2>2. CASE b \notin closed
      BY <1>4, <2>2
    <2>. QED
      BY <2>1, <2>2
  <1>7. doubted \subseteq doubted' /\ doubted' \subseteq doubted \cup Batches
    BY <1>4
  <1>. QED
    BY <1>3, <1>5, <1>6, <1>7

OnlyThread(t) ==
    thread' \in [Threads -> ThreadType] /\ \A u \in Threads \ {t} : thread'[u] = thread[u]

LEMMA ThreadIs ==
    ASSUME ThreadsTyped, NEW t \in Threads, NEW x \in ThreadType, thread' = [thread EXCEPT ![t] = x]
    PROVE  OnlyThread(t) /\ thread'[t] = x
  BY DEF ThreadsTyped, OnlyThread

LEMMA ThreadGoes ==
    ASSUME ThreadsTyped, NEW t \in Threads, NEW pc \in Generating \cup {"refresh", "loop", "execute", "repair"},
           thread' = [thread EXCEPT ![t].pc = pc]
    PROVE  OnlyThread(t) /\ thread'[t].pc = pc /\ thread'[t].b = thread[t].b /\ thread'[t].j = thread[t].j
           /\ thread'[t].a = thread[t].a /\ thread'[t].claims = thread[t].claims
  <1>. DEFINE x == [thread[t] EXCEPT !.pc = pc]
  <1>1. x \in ThreadType /\ x.pc = pc /\ x.b = thread[t].b /\ x.j = thread[t].j /\ x.a = thread[t].a
        /\ x.claims = thread[t].claims
    BY DEF ThreadsTyped, ThreadType
  <1>2. thread' = [thread EXCEPT ![t] = x]
    BY DEF ThreadsTyped
  <1>. HIDE DEF x
  <1>. QED
    BY <1>1, <1>2, ThreadIs

LEMMA IdleType ==
    /\ Idle \in ThreadType /\ Idle.pc = "idle" /\ Idle.j = None /\ Idle.b = None /\ Idle.claims = {}
    /\ "idle" \notin Generating
  BY DEF Idle, ThreadType, Generating

LEMMA Finishes ==
    ASSUME ThreadsTyped, NEW t \in Threads, Finish(t)
    PROVE  OnlyThread(t) /\ thread'[t] = Idle
  BY IdleType, ThreadIs DEF Finish

\* The message of a batch is consumed.
Begins(t, b, pc, claims) ==
    /\ OnlyThread(t) /\ thread'[t].pc = pc /\ thread'[t].b = b /\ thread'[t].j = None
    /\ thread'[t].claims = claims

Starts(t, b) ==
    /\ Up /\ thread[t].pc = "idle" /\ GateFree /\ Generate(b) \in queue /\ queue' = queue \ {Generate(b)}
    /\ job' \in [Jobs -> JobType] /\ batch' \in [Batches -> BatchStates]
    /\ \A c \in Batches \ {b} : batch'[c] = batch[c]
    /\ \A j \in Jobs \ Of(b) : job'[j] = job[j]
    /\ \A j \in Of(b) : SameWork(job[j], job'[j])
    /\ \/ UNCHANGED <<batch, job, thread>>
       \/ /\ batch[b] = "generating" /\ UNCHANGED <<batch, job>>
          /\ Begins(t, b, "claim", In({"queued"}, Of(b)))
       \/ /\ batch[b] = "generating" /\ batch'[b] = "failed" /\ UNCHANGED thread
          /\ In({"queued"}, Of(b)) = {}
          /\ \A j \in Of(b) : IF job[j].state = "generating" THEN Parks(job[j], job'[j])
                                                           ELSE job'[j] = job[j]
       \/ /\ batch[b] = "generating" /\ batch'[b] = "running" /\ Begins(t, b, "refresh", {}) /\ UNCHANGED job
          /\ In({"queued"}, Of(b)) = {} /\ In({"generating"}, Of(b)) = {}
    /\ UNCHANGED <<latest, web, worker, history, budget>>

LEMMA StartRows ==
    ASSUME Typed, NEW t \in Threads, NEW b \in Batches, StartGeneration(t, b)
    PROVE  Starts(t, b)
  <1>. DEFINE queued == In({"queued"}, Of(b))
              entered == [Idle EXCEPT !.pc = "refresh", !.b = b]
              claiming == [entered EXCEPT !.pc = "claim", !.claims = queued]
              common == /\ Up /\ thread[t].pc = "idle" /\ GateFree /\ Generate(b) \in queue
                        /\ queue' = queue \ {Generate(b)}
                        /\ UNCHANGED <<latest, web, worker, history, budget>>
  <1>0. common /\ Of(b) \subseteq Jobs /\ RowsTyped /\ ThreadsTyped
    BY DEF StartGeneration, Of, Typed
  <1>1. \A j \in Jobs : SameWork(job[j], job[j])
    BY DEF SameWork
  <1>2. /\ entered \in ThreadType /\ entered.pc = "refresh" /\ entered.b = b /\ entered.j = None
        /\ entered.claims = {}
        /\ claiming \in ThreadType /\ claiming.pc = "claim" /\ claiming.b = b /\ claiming.j = None
        /\ claiming.claims = queued
    <2>1. queued \subseteq Jobs
      BY <1>0 DEF In
    <2>. HIDE DEF queued
    <2>. QED
      BY <2>1 DEF Idle, ThreadType, Generating
  <1>3. CASE UNCHANGED <<batch, job, thread>>
    BY <1>0, <1>1, <1>3 DEF Starts, RowsTyped
  <1>4. CASE batch[b] = "generating" /\ thread' = [thread EXCEPT ![t] = claiming] /\ UNCHANGED <<batch, job>>
    <2>. HIDE DEF claiming, entered
    <2>1. Begins(t, b, "claim", queued)
      BY <1>0, <1>2, <1>4, ThreadIs DEF Begins
    <2>. QED
      BY <1>0, <1>1, <1>4, <2>1 DEF Starts, RowsTyped
  <1>5. CASE /\ batch[b] = "generating" /\ queued = {}
             /\ Rewrite(Interrupted(b), LAMBDA row : HaltOr(row, "error"))
             /\ batch' = [batch EXCEPT ![b] = "failed"] /\ UNCHANGED thread
    <2>1. job' = [j \in Jobs |-> IF j \in Interrupted(b) THEN HaltOr(job[j], "error") ELSE job[j]]
      BY <1>5 DEF Rewrite
    <2>2. \A j \in Jobs : HaltOr(job[j], "error") \in JobType /\ Parks(job[j], HaltOr(job[j], "error"))
      BY <1>0, HaltOrParks DEF RowsTyped
    <2>3. job' \in [Jobs -> JobType] /\ \A j \in Jobs \ Of(b) : job'[j] = job[j]
      BY <1>0, <2>1, <2>2 DEF RowsTyped, In, Interrupted
    <2>4. \A j \in Of(b) :
             /\ SameWork(job[j], job'[j])
             /\ IF job[j].state = "generating" THEN Parks(job[j], job'[j]) ELSE job'[j] = job[j]
      BY <1>0, <1>1, <2>1, <2>2 DEF In, Interrupted, Parks
    <2>5. batch' \in [Batches -> BatchStates] /\ batch'[b] = "failed" /\ \A c \in Batches \ {b} : batch'[c] = batch[c]
      BY <1>0, <1>5 DEF RowsTyped, BatchStates
    <2>. QED
      BY <1>0, <1>5, <2>3, <2>4, <2>5 DEF Starts
  <1>6. CASE /\ batch[b] = "generating" /\ queued = {} /\ Interrupted(b) = {}
             /\ batch' = [batch EXCEPT ![b] = "running"]
             /\ thread' = [thread EXCEPT ![t] = entered] /\ UNCHANGED job
    <2>. HIDE DEF entered
    <2>1. Begins(t, b, "refresh", {})
      BY <1>0, <1>2, <1>6, ThreadIs DEF Begins
    <2>2. batch' \in [Batches -> BatchStates] /\ batch'[b] = "running" /\ \A c \in Batches \ {b} : batch'[c] = batch[c]
      BY <1>0, <1>6 DEF RowsTyped, BatchStates
    <2>. QED
      BY <1>0, <1>1, <1>6, <2>1, <2>2 DEF Starts, RowsTyped, Interrupted
  <1>. QED
    BY <1>3, <1>4, <1>5, <1>6 DEF StartGeneration

\* The queued jobs are claimed, whatever became of them since they were read.
Claims(t) ==
    LET b == thread[t].b
    IN  /\ Up /\ thread[t].pc = "claim" /\ b \in Batches
        /\ job' \in [Jobs -> JobType]
        /\ \A j \in Jobs : IF j \in thread[t].claims
                             THEN SameWork(job[j], job'[j]) /\ job'[j].state = "generating"
                             ELSE job'[j] = job[j]
        /\ OnlyThread(t) /\ thread'[t].pc = "gen" /\ thread'[t].b = b /\ thread'[t].j = None
        /\ thread'[t].claims = {}
        /\ UNCHANGED <<batch, latest, queue, web, worker, history, budget>>

LEMMA ClaimRows ==
    ASSUME Typed, NEW t \in Threads, ClaimQueued(t)
    PROVE  Claims(t)
  <1>. DEFINE C == thread[t].claims
              x == [thread[t] EXCEPT !.pc = "gen", !.claims = {}]
  <1>0. /\ RowsTyped /\ ThreadsTyped /\ Up /\ thread[t].pc = "claim" /\ thread[t].b \in Batches
        /\ thread[t].j = None
        /\ UNCHANGED <<batch, latest, queue, web, worker, history, budget>>
    BY DEF ClaimQueued, Typed, ThreadsTyped
  <1>1. job' = [j \in Jobs |-> IF j \in C THEN Gate(job[j], "generating") ELSE job[j]]
    BY DEF ClaimQueued, Rewrite
  <1>2. \A j \in Jobs : /\ Gate(job[j], "generating") \in JobType /\ job[j] \in JobType
                        /\ Gate(job[j], "generating").state = "generating"
                        /\ SameWork(job[j], Gate(job[j], "generating"))
    BY <1>0, GateType DEF RowsTyped, Active
  <1>3. x \in ThreadType /\ x.pc = "gen" /\ x.b = thread[t].b /\ x.j = None /\ x.claims = {}
    BY <1>0 DEF ThreadsTyped, ThreadType, Generating
  <1>4. thread' = [thread EXCEPT ![t] = x]
    BY <1>0 DEF ClaimQueued, ThreadsTyped
  <1>. HIDE DEF x, C
  <1>5. OnlyThread(t) /\ thread'[t] = x
    BY <1>0, <1>3, <1>4, ThreadIs
  <1>6. job' \in [Jobs -> JobType]
    BY <1>1, <1>2
  <1>7. \A j \in Jobs : IF j \in C THEN SameWork(job[j], job'[j]) /\ job'[j].state = "generating"
                                   ELSE job'[j] = job[j]
    BY <1>1, <1>2
  <1>. QED
    BY <1>0, <1>3, <1>5, <1>6, <1>7 DEF Claims, C

\* A finished unit: its job goes on to its first execution, or parks.
Accepts(t, j) ==
    /\ Up /\ thread[t].pc = "gen" /\ j \in Of(thread[t].b) /\ job[j].state = "generating"
    /\ RowOnly(j) /\ job'[j].rounds = job[j].rounds /\ job'[j].attempt >= job[j].attempt
    /\ \/ /\ job'[j].state = "executing" /\ job'[j].attempt > 0
          /\ OnlyThread(t) /\ thread'[t].pc = "ready" /\ thread'[t].b = thread[t].b /\ thread'[t].j = j
          /\ thread'[t].claims = {}
       \/ job'[j].state \in {"needs_human", "stopped"} /\ UNCHANGED thread
    /\ UNCHANGED <<batch, latest, queue, web, worker, history, budget>>

LEMMA HaltOrIs ==
    ASSUME NEW m \in JobType, NEW s \in Active \cup Actionable
    PROVE  /\ HaltOr(m, s) \in JobType /\ SameWork(m, HaltOr(m, s))
           /\ HaltOr(m, s).state \in {s, "stopped"}
           /\ HaltOr(m, s).state # s => m.stop
  BY GateType DEF HaltOr, Halt, Actionable

LEMMA AcceptRows ==
    ASSUME Typed, NEW t \in Threads, NEW j \in Jobs, NEW csv \in BOOLEAN, Accept(t, j, csv)
    PROVE  Accepts(t, j)
  <1>. DEFINE m == IF csv THEN HaltOr(NewAttempt(job[j], "generator"), "executing")
                          ELSE HaltOr(job[j], "needs_human")
  <1>0. RowsTyped /\ ThreadsTyped /\ job[j] \in JobType
    BY DEF Typed, RowsTyped
  <1>1. /\ Up /\ thread[t].pc = "gen" /\ j \in Of(thread[t].b) /\ job[j].state = "generating"
        /\ SetRow(j, m) /\ UNCHANGED <<batch, latest, queue, web, worker, history, budget>>
        /\ thread' = IF m.state = "executing" THEN [thread EXCEPT ![t].pc = "ready", ![t].j = j] ELSE thread
    BY DEF Accept, Acceptable, In
  <1>2. /\ m \in JobType /\ m.rounds = job[j].rounds /\ m.attempt >= job[j].attempt
        /\ (m.state = "executing" /\ m.attempt > 0) \/ m.state \in {"needs_human", "stopped"}
    <2>1. CASE csv
      <3>. DEFINE a == NewAttempt(job[j], "generator")
      <3>1. a \in JobType /\ a.attempt > 0 /\ a.attempt >= job[j].attempt /\ a.rounds = job[j].rounds
        <4>1. a \in JobType /\ a.attempt = job[j].attempt + 1 /\ a.rounds = job[j].rounds
          BY <1>0, NewAttemptType DEF Origins
        <4>2. job[j].attempt \in Nat
          BY <1>0 DEF JobType
        <4>. QED
          BY <4>1, <4>2
      <3>2. m = HaltOr(a, "executing")
        BY <2>1
      <3>. HIDE DEF a, m
      <3>3. m \in JobType /\ SameWork(a, m) /\ m.state \in {"executing", "stopped"}
        BY <3>1, <3>2, HaltOrIs DEF Active
      <3>. QED
        BY <3>1, <3>3 DEF SameWork
    <2>2. CASE ~csv
      <3>1. job[j].attempt \in Nat
        BY <1>0 DEF JobType
      <3>. QED
        BY <1>0, <2>2, <3>1, HaltOrIs DEF Actionable, HumanGates, SameWork
    <2>. QED
      BY <2>1, <2>2
  <1>. HIDE DEF m
  <1>3. RowOnly(j) /\ job'[j] = m
    BY <1>0, <1>1, <1>2, SetRowIs
  <1>4. CASE m.state = "executing"
    <2>. DEFINE x == [thread[t] EXCEPT !.pc = "ready", !.j = j]
    <2>1. x \in ThreadType /\ x.pc = "ready" /\ x.b = thread[t].b /\ x.j = j /\ x.claims = {}
      BY <1>0, <1>1 DEF ThreadsTyped, ThreadType, Generating
    <2>2. thread' = [thread EXCEPT ![t] = x]
      BY <1>0, <1>1, <1>4 DEF ThreadsTyped
    <2>. HIDE DEF x
    <2>3. OnlyThread(t) /\ thread'[t] = x
      BY <1>0, <2>1, <2>2, ThreadIs
    <2>. QED
      BY <1>1, <1>2, <1>3, <1>4, <2>1, <2>3 DEF Accepts
  <1>5. CASE m.state # "executing"
    BY <1>1, <1>2, <1>3, <1>5 DEF Accepts
  <1>. QED
    BY <1>4, <1>5

\* A generation that fails parks what it has not handed over.
LEMMA GenFailRows ==
    ASSUME Typed, NEW t \in Threads, GenerationFails(t)
    PROVE  /\ Up /\ thread[t].pc \in {"gen", "undelivered"} /\ thread[t].b \in Batches
           /\ job' \in [Jobs -> JobType]
           /\ \A j \in Jobs : job'[j] = job[j] \/ (job[j].state \in Active /\ Parks(job[j], job'[j]))
           /\ \A j \in Of(thread[t].b) : job[j].state = "generating" => Parks(job[j], job'[j])
           /\ batch' \in [Batches -> BatchStates] /\ batch'[thread[t].b] = "failed"
           /\ \A b \in Batches \ {thread[t].b} : batch'[b] = batch[b]
           /\ OnlyThread(t) /\ thread'[t] = Idle
           /\ UNCHANGED <<latest, queue, web, worker, history>>
  <1>. DEFINE b == thread[t].b
              U == IF thread[t].pc = "undelivered" THEN In({"executing"}, {thread[t].j}) ELSE {}
  <1>0. RowsTyped /\ ThreadsTyped
    BY DEF Typed
  <1>1. /\ Up /\ thread[t].pc \in {"gen", "undelivered"} /\ batch' = [batch EXCEPT ![b] = "failed"] /\ Finish(t)
        /\ UNCHANGED <<latest, queue, web, worker, history>>
    BY DEF GenerationFails
  <1>2. job' = [j \in Jobs |-> CASE j \in U -> Gate(job[j], "error")
                                [] j \in Unfinished(b) -> HaltOr(job[j], "error")
                                [] OTHER -> job[j]]
    BY DEF GenerationFails
  <1>3. b \in Batches
    BY <1>0, <1>1 DEF ThreadsTyped
  <1>4. OnlyThread(t) /\ thread'[t] = Idle
    BY <1>0, <1>1, Finishes
  <1>5. \A j \in Jobs : /\ HaltOr(job[j], "error") \in JobType /\ Parks(job[j], HaltOr(job[j], "error"))
                        /\ Gate(job[j], "error") \in JobType /\ Parks(job[j], Gate(job[j], "error"))
                        /\ job[j] \in JobType
    BY <1>0, HaltOrParks DEF RowsTyped
  <1>6. \A j \in Of(b) : job[j].state = "generating" => j \in Unfinished(b) /\ j \in Jobs
    BY DEF Unfinished, In, Of
  <1>7. batch' \in [Batches -> BatchStates] /\ batch'[b] = "failed" /\ \A c \in Batches \ {b} : batch'[c] = batch[c]
    BY <1>0, <1>1, <1>3 DEF RowsTyped, BatchStates
  <1>. HIDE DEF U, b
  <1>8. \A j \in Jobs : job'[j] = job[j] \/ (job[j].state \in Active /\ Parks(job[j], job'[j]))
    <2>1. \A j \in U \cup Unfinished(b) : job[j].state \in Active
      BY DEF U, Unfinished, In, Active
    <2>. QED
      BY <1>2, <1>5, <2>1
  <1>9. job' \in [Jobs -> JobType]
    BY <1>2, <1>5
  <1>10. \A j \in Of(b) : job[j].state = "generating" => Parks(job[j], job'[j])
    BY <1>2, <1>5, <1>6
  <1>. QED
    BY <1>1, <1>3, <1>4, <1>7, <1>8, <1>9, <1>10 DEF b

\* The start of the worker parks the active jobs that no queued task drives,
\* and fails the batches that had not generated them all.
LEMMA RecoverRows ==
    ASSUME Typed, Recover
    PROVE  /\ worker.mode = "starting" /\ worker' = [mode |-> "up", pending |-> {}] /\ dropped' = {}
           /\ job' \in [Jobs -> JobType]
           /\ \A j \in Jobs : job'[j] = job[j] \/ (job[j].state \in Active /\ Parks(job[j], job'[j]))
           /\ \A j \in Jobs : job[j].state \in Active /\ ~Driven(j) => Parks(job[j], job'[j])
           /\ batch' \in [Batches -> BatchStates]
           /\ \A b \in Batches :
                 \/ batch'[b] = batch[b]
                 \/ batch[b] = "running" /\ batch'[b] = "done"
                 \/ /\ batch[b] = "generating" /\ batch'[b] = "failed"
                    /\ \E j \in Of(b) : /\ job[j].state \in Active /\ ~Driven(j)
                                        /\ job[j].state \in {"queued", "generating"} \/ job[j].attempt = 0
           /\ UNCHANGED <<latest, queue, thread, web, overtaken, doubted, budget>>
  <1>. DEFINE lost == {j \in In(Active, Jobs) : ~Driven(j)}
              unborn == {j \in lost : ~job[j].stop /\ (job[j].state \in {"queued", "generating"}
                                                       \/ job[j].attempt = 0)}
              touched == {j[1] : j \in In(Active, Jobs)}
              left(b) == In(Active, Of(b)) \ lost
  <1>0. RowsTyped
    BY DEF Typed
  <1>1. job' = [j \in Jobs |-> IF j \in lost THEN HaltOr(job[j], "error") ELSE job[j]]
    BY DEF Recover, Rewrite
  <1>2. batch' = [b \in Batches |->
                        CASE batch[b] = "generating" /\ \E j \in unborn : j[1] = b -> "failed"
                          [] batch[b] = "running" /\ b \in touched /\ left(b) = {} -> "done"
                          [] OTHER -> batch[b]]
    BY DEF Recover
  <1>3. \A j \in Jobs : /\ HaltOr(job[j], "error") \in JobType /\ Parks(job[j], HaltOr(job[j], "error"))
                        /\ job[j] \in JobType
    BY <1>0, HaltOrParks DEF RowsTyped
  <1>4. \A j \in Jobs : j \in lost <=> job[j].state \in Active /\ ~Driven(j)
    BY DEF In
  <1>5. \A j \in unborn : /\ j \in Jobs /\ job[j].state \in Active /\ ~Driven(j)
                          /\ job[j].state \in {"queued", "generating"} \/ job[j].attempt = 0
    BY DEF In
  <1>6. /\ worker.mode = "starting" /\ worker' = [mode |-> "up", pending |-> {}] /\ dropped' = {}
        /\ UNCHANGED <<latest, queue, thread, web, overtaken, doubted, budget>>
    BY DEF Recover
  <1>. HIDE DEF lost, unborn, touched, left
  <1>7. job' \in [Jobs -> JobType]
    BY <1>1, <1>3
  <1>8. ASSUME NEW j \in Jobs
        PROVE  job'[j] = job[j] \/ (job[j].state \in Active /\ Parks(job[j], job'[j]))
    <2>1. CASE j \in lost
      <3>1. job'[j] = HaltOr(job[j], "error") /\ job[j].state \in Active
        BY <1>1, <1>4, <2>1
      <3>. QED
        BY <1>3, <3>1
    <2>2. CASE j \notin lost
      BY <1>1, <2>2
    <2>. QED
      BY <2>1, <2>2
  <1>9. \A j \in Jobs : job[j].state \in Active /\ ~Driven(j) => Parks(job[j], job'[j])
    BY <1>1, <1>3, <1>4
  <1>10. batch' \in [Batches -> BatchStates]
    BY <1>0, <1>2 DEF RowsTyped, BatchStates
  <1>11. ASSUME NEW b \in Batches
         PROVE  \/ batch'[b] = batch[b]
                \/ batch[b] = "running" /\ batch'[b] = "done"
                \/ /\ batch[b] = "generating" /\ batch'[b] = "failed"
                   /\ \E j \in Of(b) : /\ job[j].state \in Active /\ ~Driven(j)
                                       /\ job[j].state \in {"queued", "generating"} \/ job[j].attempt = 0
    <2>1. CASE batch[b] = "generating" /\ \E j \in unborn : j[1] = b
      <3>1. PICK j \in unborn : j[1] = b
        BY <2>1
      <3>2. j \in Of(b)
        BY <1>5, <3>1 DEF Of
      <3>3. batch'[b] = "failed"
        BY <1>2, <2>1
      <3>. QED
        BY <1>5, <2>1, <3>1, <3>2, <3>3
    <2>2. CASE ~(batch[b] = "generating" /\ \E j \in unborn : j[1] = b)
      BY <1>2, <2>2
    <2>. QED
      BY <2>1, <2>2
  <1>12. \A j \in Jobs : job'[j] = job[j] \/ (job[j].state \in Active /\ Parks(job[j], job'[j]))
    BY <1>8
  <1>. QED
    BY <1>6, <1>7, <1>9, <1>10, <1>11, <1>12

-----------------------------------------------------------------------------
(* The driver.                                                             *)

\* What one step of the driver t makes of its job j.
DriveStep(t, j) ==
    /\ Up /\ thread[t].pc \in {"loop", "execute", "repair"} /\ thread[t].j = j
    /\ RowOnly(j) /\ job'[j].attempt >= job[j].attempt
    /\ thread[t].pc = "loop" => SameWork(job[j], job'[j])
    /\ \/ job'[j].state = job[j].state
       \/ job'[j].state \in {"executing", "repairing"} /\ thread[t].pc \in {"execute", "repair"}
       \/ /\ job'[j].state \in HumanGates \cup {"stopped"}
          /\ thread[t].pc \in {"execute", "repair"} \/ job[j].state \in Active
    /\ \/ job'[j].rounds = job[j].rounds
       \/ thread[t].pc = "repair" /\ job'[j].rounds = job[j].rounds + 1
    /\ job'[j].state = "awaiting_review" =>
          \/ job'[j].check = "pass"
          \/ job[j].state = "awaiting_review" /\ job'[j].check = job[j].check
          \/ thread[t].pc = "execute" /\ thread[t].a # job[j].attempt
    /\ OnlyThread(t) /\ thread'[t].claims = {}
    /\ \/ thread'[t] = Idle
       \/ /\ thread'[t].b = thread[t].b /\ thread'[t].j = j
          /\ thread'[t].pc \in {"loop", "refresh", "execute", "repair"}
    /\ thread'[t].pc = "execute" => thread'[t].a = job'[j].attempt /\ job'[j].state = "executing"
    /\ thread'[t].pc = "repair" => job'[j].rounds < MaxRounds /\ job'[j].state = "repairing"
    /\ UNCHANGED <<batch, latest, queue, web, worker, history>>

\* The row and the place a driver's step leaves are enough.
LEMMA DriveIs ==
    ASSUME Typed, NEW t \in Threads, NEW j \in Jobs, NEW m \in JobType, NEW pc \in {"loop", "refresh"},
           Up, thread[t].pc \in {"loop", "execute", "repair"}, thread[t].j = j,
           SetRow(j, m), m.attempt >= job[j].attempt,
           thread[t].pc = "loop" => SameWork(job[j], m), Goto(t, pc) \/ Finish(t),
           \/ m.state = job[j].state
           \/ m.state \in {"executing", "repairing"} /\ thread[t].pc \in {"execute", "repair"}
           \/ /\ m.state \in HumanGates \cup {"stopped"}
              /\ thread[t].pc \in {"execute", "repair"} \/ job[j].state \in Active,
           m.rounds = job[j].rounds \/ (thread[t].pc = "repair" /\ m.rounds = job[j].rounds + 1),
           m.state = "awaiting_review" =>
              \/ m.check = "pass"
              \/ job[j].state = "awaiting_review" /\ m.check = job[j].check
              \/ thread[t].pc = "execute" /\ thread[t].a # job[j].attempt,
           UNCHANGED <<batch, latest, queue, web, worker, history>>
    PROVE  DriveStep(t, j)
  <1>0. RowsTyped /\ ThreadsTyped
    BY DEF Typed
  <1>1. RowOnly(j) /\ job'[j] = m
    BY <1>0, SetRowIs
  <1>2. CASE Goto(t, pc)
    <2>1. OnlyThread(t) /\ thread'[t].pc = pc /\ thread'[t].b = thread[t].b /\ thread'[t].j = thread[t].j
          /\ thread'[t].claims = thread[t].claims
      BY <1>0, <1>2, ThreadGoes DEF Goto
    <2>2. thread[t].claims = {}
      BY <1>0 DEF ThreadsTyped
    <2>. QED
      BY <1>1, <2>1, <2>2 DEF DriveStep
  <1>3. CASE Finish(t)
    <2>1. OnlyThread(t) /\ thread'[t] = Idle
      BY <1>0, <1>3, Finishes
    <2>. QED
      BY <1>1, <2>1, IdleType DEF DriveStep
  <1>. QED
    BY <1>2, <1>3

LEMMA DriverHas ==
    ASSUME Typed, NEW t \in Threads, thread[t].pc \in {"loop", "execute", "repair"}
    PROVE  /\ thread[t].j \in Jobs /\ job[thread[t].j] \in JobType
           /\ job[thread[t].j].attempt \in Nat /\ job[thread[t].j].rounds \in Nat
           /\ thread[t].claims = {}
  BY DEF Typed, ThreadsTyped, RowsTyped, JobType

LEMMA LoopDrives ==
    ASSUME Typed, NEW t \in Threads, Loop(t)
    PROVE  DriveStep(t, thread[t].j) /\ UNCHANGED budget
  <1>. DEFINE j == thread[t].j
              row == job[j]
  <1>0. /\ Up /\ thread[t].pc = "loop" /\ j \in Jobs /\ row \in JobType /\ row.attempt \in Nat /\ row.rounds \in Nat
        /\ thread[t].claims = {}
        /\ RowsTyped /\ ThreadsTyped
        /\ UNCHANGED <<batch, latest, queue, web, worker, history, budget>>
    BY DriverHas DEF Loop, Typed
  <1>1. CASE row.state \in Active /\ row.stop /\ SetRow(j, Halt(row)) /\ Goto(t, "refresh")
    <2>1. Halt(row) \in JobType /\ SameWork(row, Halt(row)) /\ Halt(row).state = "stopped"
      BY <1>0, GateType DEF Halt, Actionable
    <2>. QED
      BY <1>0, <1>1, <2>1, DriveIs DEF SameWork, Active
  <1>2. CASE /\ row.state = "executing" /\ SetRow(j, [row EXCEPT !.step = "execute"])
             /\ thread' = [thread EXCEPT ![t].pc = "execute", ![t].a = row.attempt]
    <2>. DEFINE m == [row EXCEPT !.step = "execute"]
                x == [thread[t] EXCEPT !.pc = "execute", !.a = row.attempt]
    <2>1. m \in JobType /\ m.state = row.state /\ SameWork(row, m)
      BY <1>0 DEF JobType, SameWork
    <2>2. x \in ThreadType /\ x.pc = "execute" /\ x.b = thread[t].b /\ x.j = j /\ x.a = row.attempt
          /\ x.claims = {}
      BY <1>0 DEF ThreadsTyped, ThreadType
    <2>3. SetRow(j, m) /\ thread' = [thread EXCEPT ![t] = x]
      BY <1>0, <1>2 DEF ThreadsTyped
    <2>. HIDE DEF m, x
    <2>4. RowOnly(j) /\ job'[j] = m /\ OnlyThread(t) /\ thread'[t] = x
      BY <1>0, <2>1, <2>2, <2>3, SetRowIs, ThreadIs
    <2>6. SameWork(row, job'[j]) /\ job'[j].attempt = row.attempt /\ job'[j].rounds = row.rounds
          /\ job'[j].check = row.check /\ job'[j].state = row.state
      BY <2>1, <2>4 DEF SameWork
    <2>. QED
      BY <1>0, <1>2, <2>2, <2>4, <2>6 DEF DriveStep
  <1>3. CASE /\ row.state = "repairing" /\ NextState(row, row.check) = "repairing"
             /\ SetRow(j, [row EXCEPT !.step = "repair"])
             /\ thread' = [thread EXCEPT ![t].pc = "repair", ![t].a = row.attempt]
    <2>. DEFINE m == [row EXCEPT !.step = "repair"]
                x == [thread[t] EXCEPT !.pc = "repair", !.a = row.attempt]
    <2>1. m \in JobType /\ m.state = row.state /\ SameWork(row, m)
      BY <1>0 DEF JobType, SameWork
    <2>2. x \in ThreadType /\ x.pc = "repair" /\ x.b = thread[t].b /\ x.j = j
          /\ x.claims = {}
      BY <1>0 DEF ThreadsTyped, ThreadType
    <2>3. SetRow(j, m) /\ thread' = [thread EXCEPT ![t] = x]
      BY <1>0, <1>3 DEF ThreadsTyped
    <2>5. row.rounds < MaxRounds
      <3>1. row.check \in Checks \cup {"none"}
        BY <1>0 DEF JobType
      <3>. QED
        BY <1>0, <1>3, <3>1, NextStateType
    <2>. HIDE DEF m, x
    <2>4. RowOnly(j) /\ job'[j] = m /\ OnlyThread(t) /\ thread'[t] = x
      BY <1>0, <2>1, <2>2, <2>3, SetRowIs, ThreadIs
    <2>6. SameWork(row, job'[j]) /\ job'[j].attempt = row.attempt /\ job'[j].rounds = row.rounds
          /\ job'[j].check = row.check /\ job'[j].state = row.state
      BY <2>1, <2>4 DEF SameWork
    <2>. QED
      BY <1>0, <1>3, <2>2, <2>4, <2>5, <2>6 DEF DriveStep
  <1>4. CASE /\ row.state = "repairing" /\ NextState(row, row.check) # "repairing"
             /\ SetRow(j, Gate(row, NextState(row, row.check))) /\ UNCHANGED thread
    <2>. DEFINE s == NextState(row, row.check)
                m == Gate(row, s)
    <2>1. s \in {"awaiting_review", "blocked", "needs_human"} /\ (s = "awaiting_review" => row.check = "pass")
      <3>1. row.check \in Checks \cup {"none"}
        BY <1>0 DEF JobType
      <3>. QED
        BY <1>0, <1>4, <3>1, NextStateType
    <2>. HIDE DEF s
    <2>2. m \in JobType /\ SameWork(row, m) /\ m.state = s
      BY <1>0, <2>1, GateType DEF Actionable, HumanGates
    <2>3. SetRow(j, m)
      BY <1>4 DEF s
    <2>. HIDE DEF m
    <2>4. RowOnly(j) /\ job'[j] = m
      BY <1>0, <2>2, <2>3, SetRowIs
    <2>5. OnlyThread(t) /\ thread'[t] = thread[t]
      BY <1>0, <1>4 DEF OnlyThread, ThreadsTyped
    <2>. QED
      BY <1>0, <1>4, <2>1, <2>2, <2>4, <2>5 DEF DriveStep, SameWork, HumanGates, Active
  <1>5. CASE UNCHANGED job /\ Goto(t, "refresh")
    <2>1. OnlyThread(t) /\ thread'[t].pc = "refresh" /\ thread'[t].b = thread[t].b /\ thread'[t].j = j
          /\ thread'[t].claims = {}
      BY <1>0, <1>5, ThreadGoes DEF Goto
    <2>2. RowOnly(j) /\ job'[j] = row
      BY <1>0, <1>5 DEF RowOnly, RowsTyped
    <2>. QED
      BY <1>0, <2>1, <2>2 DEF DriveStep, SameWork
  <1>. QED
    BY <1>0, <1>1, <1>2, <1>3, <1>4, <1>5 DEF Loop

LEMMA ExecuteDrives ==
    ASSUME Typed, NEW t \in Threads,
           \/ \E check \in Checks : ExecuteDone(t, check)
           \/ \E heeded \in BOOLEAN : ExecuteRefused(t, heeded)
           \/ ExecuteDerives(t)
    PROVE  DriveStep(t, thread[t].j) /\ UNCHANGED budget
  <1>. DEFINE j == thread[t].j
              row == job[j]
  <1>0. /\ Up /\ thread[t].pc = "execute" /\ j \in Jobs /\ row \in JobType /\ row.attempt \in Nat
        /\ UNCHANGED <<batch, latest, queue, web, worker, history, budget>> /\ Goto(t, "loop")
    BY DriverHas DEF ExecuteDone, ExecuteRefused, ExecuteDerives
  <1>1. ASSUME NEW check \in Checks, ExecuteDone(t, check) PROVE DriveStep(t, j)
    <2>. DEFINE r == Evidence(t, check)
    <2>1. /\ r \in JobType /\ r.attempt = row.attempt /\ r.rounds = row.rounds
          /\ thread[t].a = row.attempt => r.check = check
      BY <1>0 DEF JobType, Evidence
    <2>2. PICK origin \in Origins \cup {None} :
             SetRow(j, HaltOr(r, NextState([r EXCEPT !.origin = origin], check)))
      <3>1. r.origin \in Origins \cup {None}
        BY <2>1 DEF JobType
      <3>. QED
        BY <1>1, <3>1 DEF ExecuteDone
    <2>. HIDE DEF r
    <2>. DEFINE o == [r EXCEPT !.origin = origin]
    <2>3. o \in JobType
      BY <2>1 DEF JobType
    <2>. HIDE DEF o
    <2>. DEFINE s == NextState(o, check)
                m == HaltOr(r, s)
    <2>4. s \in {"repairing", "awaiting_review", "blocked", "needs_human"}
          /\ (s = "awaiting_review" <=> check = "pass")
      BY <2>3, NextStateType
    <2>5. SetRow(j, m)
      BY <2>2 DEF o
    <2>. HIDE DEF s
    <2>6. m \in JobType /\ SameWork(r, m) /\ m.state \in {s, "stopped"}
      BY <2>1, <2>4, HaltOrIs DEF Active, Actionable, HumanGates
    <2>. HIDE DEF m
    <2>. QED
      BY <1>0, <2>1, <2>4, <2>5, <2>6, DriveIs DEF SameWork, HumanGates
  <1>3. ASSUME NEW heeded \in BOOLEAN, ExecuteRefused(t, heeded) PROVE DriveStep(t, j)
    <2>. DEFINE r == Evidence(t, "blocked")
                m == IF heeded THEN HaltOr(r, "needs_human") ELSE Gate(r, "needs_human")
    <2>1. r \in JobType /\ r.attempt = row.attempt /\ r.rounds = row.rounds
      BY <1>0 DEF JobType, Evidence, Checks
    <2>2. SetRow(j, m)
      BY <1>3 DEF ExecuteRefused
    <2>. HIDE DEF r
    <2>3. m \in JobType /\ Parks(r, m)
      BY <2>1, HaltOrParks
    <2>. HIDE DEF m
    <2>. QED
      BY <1>0, <2>1, <2>2, <2>3, DriveIs DEF Parks, SameWork, HumanGates
  <1>2. CASE ExecuteDerives(t)
    <2>. DEFINE a == NewAttempt(row, "host")
    <2>1. a \in JobType /\ a.attempt = row.attempt + 1 /\ a.rounds = row.rounds
      BY <1>0, NewAttemptType DEF Origins
    <2>2. SetRow(j, Halt(row)) \/ SetRow(j, Gate(a, "executing"))
      BY <1>2 DEF ExecuteDerives, Derived
    <2>. HIDE DEF a
    <2>3. /\ Halt(row) \in JobType /\ SameWork(row, Halt(row)) /\ Halt(row).state = "stopped"
          /\ Gate(a, "executing") \in JobType /\ SameWork(a, Gate(a, "executing"))
          /\ Gate(a, "executing").state = "executing"
      BY <1>0, <2>1, GateType DEF Halt, Active, Actionable
    <2>4. CASE SetRow(j, Halt(row))
      BY <1>0, <2>3, <2>4, DriveIs DEF SameWork
    <2>5. CASE SetRow(j, Gate(a, "executing"))
      BY <1>0, <2>1, <2>3, <2>5, DriveIs DEF SameWork
    <2>. QED
      BY <2>2, <2>4, <2>5
  <1>. QED
    BY <1>0, <1>1, <1>2, <1>3

LEMMA RepairDrives ==
    ASSUME Typed, NEW t \in Threads,
           \/ RepairTaken(t)
           \/ \E cost \in {0, 1}, pointless \in BOOLEAN : RepairRefused(t, cost, pointless)
    PROVE  DriveStep(t, thread[t].j) /\ UNCHANGED budget
  <1>. DEFINE j == thread[t].j
              row == job[j]
  <1>0. /\ Up /\ thread[t].pc = "repair" /\ j \in Jobs /\ row \in JobType /\ row.attempt \in Nat /\ row.rounds \in Nat
        /\ UNCHANGED <<batch, latest, queue, web, worker, history, budget>> /\ Goto(t, "loop")
    BY DriverHas DEF RepairTaken, RepairRefused
  <1>1. CASE RepairTaken(t)
    <2>. DEFINE n == Spent(row, 1)
                a == NewAttempt(n, "llm")
                m == Gate(a, "executing")
    <2>1. n \in JobType /\ n.rounds = row.rounds + 1 /\ n.attempt = row.attempt
      BY <1>0, SpentType
    <2>2. SetRow(j, m)
      BY <1>1 DEF RepairTaken
    <2>. HIDE DEF n
    <2>3. a \in JobType /\ a.attempt = row.attempt + 1 /\ a.rounds = row.rounds + 1
      BY <2>1, NewAttemptType DEF Origins
    <2>. HIDE DEF a
    <2>4. m \in JobType /\ SameWork(a, m) /\ m.state = "executing"
      BY <2>3, GateType DEF Active
    <2>. HIDE DEF m
    <2>. QED
      BY <1>0, <2>2, <2>3, <2>4, DriveIs DEF SameWork
  <1>2. ASSUME NEW cost \in {0, 1}, NEW pointless \in BOOLEAN, RepairRefused(t, cost, pointless)
        PROVE  DriveStep(t, j)
    <2>. DEFINE n == Spent(row, cost)
                m == Gate(n, "needs_human")
    <2>1. /\ n \in JobType /\ n.rounds = row.rounds + cost /\ n.attempt = row.attempt
          /\ n.state = row.state /\ n.check = row.check
      BY <1>0, SpentType
    <2>2. SetRow(j, m) \/ SetRow(j, n)
      BY <1>2 DEF RepairRefused
    <2>. HIDE DEF n
    <2>3. m \in JobType /\ SameWork(n, m) /\ m.state = "needs_human"
      BY <2>1, GateType DEF Actionable, HumanGates
    <2>. HIDE DEF m
    <2>4. CASE SetRow(j, m)
      BY <1>0, <2>1, <2>3, <2>4, DriveIs DEF SameWork, HumanGates
    <2>5. CASE SetRow(j, n)
      BY <1>0, <2>1, <2>5, DriveIs
    <2>. QED
      BY <2>2, <2>4, <2>5
  <1>. QED
    BY <1>0, <1>1, <1>2

LEMMA FailureDrives ==
    ASSUME Typed, NEW t \in Threads,
           thread[t].pc \in {"loop", "execute", "repair"},
           (\E cost \in {0, 1} : StepFails(t, cost)) \/ StepCrashes(t)
    PROVE  DriveStep(t, thread[t].j)
  <1>. DEFINE j == thread[t].j
              row == job[j]
  <1>0. /\ Up /\ thread[t].pc \in {"loop", "execute", "repair"} /\ j \in Jobs /\ row \in JobType
        /\ row.attempt \in Nat /\ row.rounds \in Nat
        /\ UNCHANGED <<batch, latest, queue, web, worker, history>>
    BY DriverHas DEF StepFails, StepCrashes
  <1>1. ASSUME NEW cost \in {0, 1}, StepFails(t, cost) PROVE DriveStep(t, j)
    <2>. DEFINE n == Spent(row, cost)
                m == IF thread[t].pc = "execute" THEN HaltOr(row, "error") ELSE Gate(n, "error")
    <2>1. n \in JobType /\ n.rounds = row.rounds + cost /\ n.attempt = row.attempt
      BY <1>0, SpentType
    <2>2. SetRow(j, m) /\ Goto(t, "loop") /\ thread[t].pc \in {"execute", "repair"}
      BY <1>1 DEF StepFails
    <2>. HIDE DEF n
    <2>3. /\ m \in JobType /\ m.attempt = row.attempt /\ m.state \in {"error", "stopped"}
          /\ thread[t].pc = "execute" => m.rounds = row.rounds
          /\ thread[t].pc # "execute" => m.rounds = row.rounds + cost
      BY <1>0, <2>1, HaltOrIs, GateType DEF SameWork, Actionable, HumanGates
    <2>. HIDE DEF m
    <2>. QED
      BY <1>0, <2>2, <2>3, DriveIs DEF HumanGates
  <1>2. CASE StepCrashes(t)
    <2>. DEFINE m == IF row.state \in Active THEN Gate(row, "error") ELSE row
    <2>1. /\ m \in JobType /\ m.attempt = row.attempt /\ m.rounds = row.rounds
          /\ (m.state = "error" /\ row.state \in Active) \/ (m.state = row.state /\ m.check = row.check)
          /\ SameWork(row, m)
      BY <1>0, GateType DEF SameWork, Actionable, HumanGates
    <2>2. SetRow(j, m) /\ Finish(t)
      BY <1>2 DEF StepCrashes
    <2>. HIDE DEF m
    <2>. QED
      BY <1>0, <2>1, <2>2, DriveIs DEF HumanGates
  <1>. QED
    BY <1>1, <1>2

\* A task may also end without a step: its job parks when the refresh raised,
\* and stays as it is when the handler did.
DriverEnds(t, j) ==
    /\ Up /\ thread[t].pc \in {"refresh", "loop", "execute", "repair"} /\ j \in Jobs
    /\ RowOnly(j) /\ (job'[j] = job[j] \/ (job[j].state \in Active /\ Parks(job[j], job'[j])))
    /\ OnlyThread(t) /\ thread'[t] = Idle
    /\ dropped' \subseteq dropped \cup {j}
    /\ UNCHANGED <<batch, latest, queue, web, worker, overtaken, doubted>>

LEMMA DriverEndsRows ==
    ASSUME Typed, NEW t \in Threads,
           HandlerFails(t) \/ (thread[t].pc = "refresh" /\ StepCrashes(t))
    PROVE  DriverEnds(t, thread[t].j)
  <1>. DEFINE j == thread[t].j
              row == job[j]
  <1>0. /\ Up /\ thread[t].pc \in {"refresh", "loop", "execute", "repair"} /\ j \in Jobs /\ row \in JobType
        /\ RowsTyped /\ ThreadsTyped /\ Finish(t)
        /\ UNCHANGED <<batch, latest, queue, web, worker, overtaken, doubted>>
    <2>1. RowsTyped /\ ThreadsTyped /\ j \in Jobs \cup {None} /\ j # None
      BY DEF Typed, ThreadsTyped, ThreadType, HandlerFails, StepCrashes
    <2>2. j \in Jobs /\ row \in JobType
      BY <2>1 DEF RowsTyped
    <2>. QED
      BY <2>1, <2>2 DEF HandlerFails, StepCrashes
  <1>1. OnlyThread(t) /\ thread'[t] = Idle
    BY <1>0, Finishes
  <1>2. CASE HandlerFails(t)
    <2>1. UNCHANGED job /\ dropped' \subseteq dropped \cup {j}
      BY <1>2 DEF HandlerFails, In
    <2>2. RowOnly(j) /\ job'[j] = row
      BY <1>0, <2>1 DEF RowOnly, RowsTyped
    <2>. QED
      BY <1>0, <1>1, <2>1, <2>2 DEF DriverEnds
  <1>3. CASE StepCrashes(t)
    <2>. DEFINE m == IF row.state \in Active THEN Gate(row, "error") ELSE row
    <2>1. m \in JobType /\ (m = row \/ (row.state \in Active /\ Parks(row, m)))
      BY <1>0, HaltOrParks
    <2>2. SetRow(j, m) /\ dropped' = dropped
      BY <1>3 DEF StepCrashes
    <2>. HIDE DEF m
    <2>3. RowOnly(j) /\ job'[j] = m
      BY <1>0, <2>1, <2>2, SetRowIs
    <2>. QED
      BY <1>0, <1>1, <2>1, <2>2, <2>3 DEF DriverEnds
  <1>. QED
    BY <1>2, <1>3

-----------------------------------------------------------------------------
(* Requests, bounds, and the cases of a step.                              *)

WebGoes(w, pc, b, j) ==
    /\ web' \in [Web -> WebType] /\ \A v \in Web \ {w} : web'[v] = web[v]
    /\ web'[w].pc = pc /\ web'[w].b = b /\ web'[w].j = j

LEMMA WebMoves ==
    ASSUME WebTyped, NEW w \in Web
    PROVE  /\ web' = [web EXCEPT ![w] = NoRequest] => WebGoes(w, "idle", None, None)
           /\ \A chosen \in SUBSET Targets :
                 web' = [web EXCEPT ![w] = [NoRequest EXCEPT !.pc = "create", !.chosen = chosen]]
                    => WebGoes(w, "create", None, None)
           /\ \A b \in Batches :
                 web' = [web EXCEPT ![w] = [NoRequest EXCEPT !.pc = "generate", !.b = b]]
                    => WebGoes(w, "generate", b, None)
           /\ \A j \in Jobs :
                 web' = [web EXCEPT ![w] = [NoRequest EXCEPT !.pc = "advance", !.j = j]]
                    => WebGoes(w, "advance", None, j)
           /\ web' = [web EXCEPT ![w].pc = "failing"] => WebGoes(w, "failing", web[w].b, web[w].j)
  <1>1. ASSUME NEW x \in WebType, web' = [web EXCEPT ![w] = x] PROVE WebGoes(w, x.pc, x.b, x.j)
    BY <1>1 DEF WebTyped, WebGoes
  <1>2. NoRequest \in WebType /\ NoRequest.pc = "idle" /\ NoRequest.b = None /\ NoRequest.j = None
    BY DEF NoRequest, WebType
  <1>3. ASSUME NEW chosen \in SUBSET Targets
        PROVE  LET x == [NoRequest EXCEPT !.pc = "create", !.chosen = chosen]
               IN  x \in WebType /\ x.pc = "create" /\ x.b = None /\ x.j = None
    BY DEF NoRequest, WebType
  <1>4. ASSUME NEW b \in Batches
        PROVE  LET x == [NoRequest EXCEPT !.pc = "generate", !.b = b]
               IN  x \in WebType /\ x.pc = "generate" /\ x.b = b /\ x.j = None
    BY DEF NoRequest, WebType
  <1>5. ASSUME NEW j \in Jobs
        PROVE  LET x == [NoRequest EXCEPT !.pc = "advance", !.j = j]
               IN  x \in WebType /\ x.pc = "advance" /\ x.b = None /\ x.j = j
    BY DEF NoRequest, WebType
  <1>6. web' = [web EXCEPT ![w] = NoRequest] => WebGoes(w, "idle", None, None)
    <2>1. HAVE web' = [web EXCEPT ![w] = NoRequest]
    <2>2. WebGoes(w, NoRequest.pc, NoRequest.b, NoRequest.j)
      BY <1>1, <1>2, <2>1
    <2>. QED
      BY <1>2, <2>2
  <1>7. ASSUME NEW chosen \in SUBSET Targets,
               web' = [web EXCEPT ![w] = [NoRequest EXCEPT !.pc = "create", !.chosen = chosen]]
        PROVE  WebGoes(w, "create", None, None)
    <2>. DEFINE x == [NoRequest EXCEPT !.pc = "create", !.chosen = chosen]
    <2>1. x \in WebType /\ x.pc = "create" /\ x.b = None /\ x.j = None
      BY <1>3
    <2>2. web' = [web EXCEPT ![w] = x]
      BY <1>7
    <2>. HIDE DEF x
    <2>3. WebGoes(w, x.pc, x.b, x.j)
      BY <1>1, <2>1, <2>2
    <2>. QED
      BY <2>1, <2>3
  <1>8. ASSUME NEW b \in Batches,
               web' = [web EXCEPT ![w] = [NoRequest EXCEPT !.pc = "generate", !.b = b]]
        PROVE  WebGoes(w, "generate", b, None)
    <2>. DEFINE x == [NoRequest EXCEPT !.pc = "generate", !.b = b]
    <2>1. x \in WebType /\ x.pc = "generate" /\ x.b = b /\ x.j = None
      BY <1>4
    <2>2. web' = [web EXCEPT ![w] = x]
      BY <1>8
    <2>. HIDE DEF x
    <2>3. WebGoes(w, x.pc, x.b, x.j)
      BY <1>1, <2>1, <2>2
    <2>. QED
      BY <2>1, <2>3
  <1>9. ASSUME NEW j \in Jobs,
               web' = [web EXCEPT ![w] = [NoRequest EXCEPT !.pc = "advance", !.j = j]]
        PROVE  WebGoes(w, "advance", None, j)
    <2>. DEFINE x == [NoRequest EXCEPT !.pc = "advance", !.j = j]
    <2>1. x \in WebType /\ x.pc = "advance" /\ x.b = None /\ x.j = j
      BY <1>5
    <2>2. web' = [web EXCEPT ![w] = x]
      BY <1>9
    <2>. HIDE DEF x
    <2>3. WebGoes(w, x.pc, x.b, x.j)
      BY <1>1, <2>1, <2>2
    <2>. QED
      BY <2>1, <2>3
  <1>10. ASSUME web' = [web EXCEPT ![w].pc = "failing"] PROVE WebGoes(w, "failing", web[w].b, web[w].j)
    <2>. DEFINE x == [web[w] EXCEPT !.pc = "failing"]
    <2>1. x \in WebType /\ x.pc = "failing" /\ x.b = web[w].b /\ x.j = web[w].j
      BY DEF WebTyped, WebType
    <2>2. web' = [web EXCEPT ![w] = x]
      BY <1>10 DEF WebTyped
    <2>. HIDE DEF x
    <2>3. WebGoes(w, x.pc, x.b, x.j)
      BY <1>1, <2>1, <2>2
    <2>. QED
      BY <2>1, <2>3
  <1>. QED
    BY <1>6, <1>7, <1>8, <1>9, <1>10

LEMMA BudgetIs ==
    ASSUME budget \in BudgetType
    PROVE  /\ Fails => budget' \in BudgetType
           /\ Acts => budget' \in BudgetType
           /\ Stops => budget' \in BudgetType
           /\ \A J : budget' = [budget EXCEPT !.jobs = @ \ J] => budget' \in BudgetType
  <1>1. /\ budget.faults \in Nat /\ budget.acts \in Nat /\ budget.stops \in Nat
        /\ budget.jobs \in SUBSET Jobs
    BY DEF BudgetType
  <1>2. Fails => budget' \in BudgetType
    <2>1. budget.faults > 0 => budget.faults - 1 \in Nat
      BY <1>1
    <2>. QED
      BY <2>1 DEF Fails, BudgetType
  <1>3. Acts => budget' \in BudgetType
    <2>1. budget.acts > 0 => budget.acts - 1 \in Nat
      BY <1>1
    <2>. QED
      BY <2>1 DEF Acts, BudgetType
  <1>4. Stops => budget' \in BudgetType
    <2>1. budget.stops > 0 => budget.stops - 1 \in Nat
      BY <1>1
    <2>. QED
      BY <2>1 DEF Stops, BudgetType
  <1>5. ASSUME NEW J, budget' = [budget EXCEPT !.jobs = @ \ J] PROVE budget' \in BudgetType
    <2>1. budget.jobs \ J \in SUBSET Jobs
      BY <1>1
    <2>. QED
      BY <1>5, <2>1 DEF BudgetType
  <1>. QED
    BY <1>2, <1>3, <1>4, <1>5

LEMMA BudgetStep ==
    ASSUME budget \in BudgetType, [Next]_vars
    PROVE  budget' \in BudgetType
  <1>1. CASE Human
    BY <1>1, BudgetIs DEF Human, CheckBatch, CreateBatch, SubmitRevision, Retry, Reject, Stop, Approve
  <1>2. ASSUME NEW w \in Web, Dispatch(w) PROVE budget' \in BudgetType
    BY <1>2, BudgetIs DEF Dispatch, Enqueue, DispatchRaises, DispatchFailed, WebDies
  <1>3. ASSUME NEW message \in Messages, Consume(message) PROVE budget' \in BudgetType
    BY <1>3, BudgetIs DEF Consume, StartGeneration, BusyLost, TakeAdvance
  <1>4. ASSUME NEW t \in Threads, GenerationStep(t) PROVE budget' \in BudgetType
    BY <1>4, BudgetIs DEF GenerationStep, ClaimQueued, HandOver, HandOverRaises, Accept, GenerationFails,
                          GenerationCrashes, GenerationDone, RefreshBatch
  <1>5. ASSUME NEW t \in Threads, DriverStep(t) PROVE budget' \in BudgetType
    BY <1>5, BudgetIs DEF DriverStep, Loop, ExecuteDerives, ExecuteRefused, RepairTaken, StepCrashes,
                          HandlerFails, ExecuteDone, StepFails, RepairRefused
  <1>6. CASE (\E b \in Batches : Redeliver(b)) \/ WorkerDies \/ ReadPending \/ Recover \/ UNCHANGED vars
    BY <1>6, BudgetIs DEF Redeliver, WorkerDies, ReadPending, Recover, vars
  <1>. QED
    BY <1>1, <1>2, <1>3, <1>4, <1>5, <1>6 DEF Next, Machine

\* The cases the proofs below go through.
WebCases ==
    \E w \in Web :
       \/ \E chosen \in SUBSET Targets : CheckBatch(w, chosen)
       \/ \E b \in Batches : CreateBatch(w, b)
       \/ \E j \in Jobs : Revises(w, j)
       \/ Enqueue(w) \/ DispatchRaises(w) \/ DispatchFailed(w) \/ WebDies(w)

ThreadCases ==
    \E t \in Threads :
       \/ \E b \in Batches : Starts(t, b) \/ BusyLost(t, b)
       \/ \E j \in Jobs : TakeAdvance(t, j) \/ Accepts(t, j)
       \/ Claims(t) \/ HandOver(t) \/ HandOverRaises(t)
       \/ GenerationFails(t) \/ GenerationCrashes(t) \/ GenerationDone(t) \/ RefreshBatch(t)
       \/ DriveStep(t, thread[t].j) \/ DriverEnds(t, thread[t].j)

LEMMA StepCases ==
    ASSUME Typed, [Next]_vars
    PROVE  \/ WebCases \/ ThreadCases
           \/ \E j \in Jobs : Decides(j)
           \/ \E J \in SUBSET Jobs : Stop(J)
           \/ \E b \in Batches : Redeliver(b)
           \/ WorkerDies \/ ReadPending \/ Recover
           \/ UNCHANGED vars
  <1>0. RowsTyped
    BY DEF Typed
  <1>1. CASE Human
    <2>1. ASSUME NEW w \in Web, NEW j \in Jobs,
                 SubmitRevision(w, j) \/ \E renew \in BOOLEAN : Retry(w, j, renew)
          PROVE  WebCases
      BY <1>0, <2>1, ReviseRows DEF WebCases
    <2>2. ASSUME NEW j \in Jobs, Reject(j) \/ \E noted \in BOOLEAN : Approve(j, noted)
          PROVE  Decides(j)
      BY <1>0, <2>2, DecideRows
    <2>3. \A j \in Jobs : {j} \in SUBSET Jobs
      OBVIOUS
    <2>4. \A b \in Batches : Of(b) \in SUBSET Jobs
      BY DEF Of
    <2>5. ASSUME NEW w \in Web,
                 (\E chosen \in SUBSET Targets : CheckBatch(w, chosen)) \/ \E b \in Batches : CreateBatch(w, b)
          PROVE  WebCases
      BY <2>5 DEF WebCases
    <2>. QED
      BY <1>1, <2>1, <2>2, <2>3, <2>4, <2>5 DEF Human
  <1>2. ASSUME NEW w \in Web, Dispatch(w) PROVE WebCases
    BY <1>2 DEF Dispatch, WebCases
  <1>3. ASSUME NEW message \in Messages, Consume(message) PROVE ThreadCases
    BY <1>3, StartRows DEF Consume, ThreadCases
  <1>4. ASSUME NEW t \in Threads, GenerationStep(t) PROVE ThreadCases
    <2>1. ASSUME NEW j \in Jobs, NEW csv \in BOOLEAN, Accept(t, j, csv) PROVE ThreadCases
      BY <2>1, AcceptRows DEF ThreadCases
    <2>. QED
      BY <1>4, <2>1, ClaimRows DEF GenerationStep, ThreadCases
  <1>5. ASSUME NEW t \in Threads, DriverStep(t) PROVE ThreadCases
    <2>1. CASE StepCrashes(t) \/ HandlerFails(t)
      <3>1. thread[t].pc \in {"loop", "execute", "repair", "refresh"}
        BY <2>1 DEF StepCrashes, HandlerFails
      <3>2. DriveStep(t, thread[t].j) \/ DriverEnds(t, thread[t].j)
        BY <2>1, <3>1, FailureDrives, DriverEndsRows
      <3>. QED
        BY <3>2 DEF ThreadCases
    <2>2. ASSUME NEW cost \in {0, 1}, StepFails(t, cost) PROVE DriveStep(t, thread[t].j)
      <3>1. thread[t].pc \in {"loop", "execute", "repair"}
        BY <2>2 DEF StepFails
      <3>. QED
        BY <2>2, <3>1, FailureDrives
    <2>3. CASE ~(StepCrashes(t) \/ HandlerFails(t))
      <3>1. DriveStep(t, thread[t].j)
        BY <1>5, <2>2, <2>3, LoopDrives, ExecuteDrives, RepairDrives DEF DriverStep
      <3>. QED
        BY <3>1 DEF ThreadCases
    <2>. QED
      BY <2>1, <2>3
  <1>. QED
    BY <1>1, <1>2, <1>3, <1>4, <1>5 DEF Next, Machine

-----------------------------------------------------------------------------
(* Types.                                                                  *)

LEMMA ThreadsKeep ==
    ASSUME ThreadsTyped, NEW t \in Threads, OnlyThread(t), Up',
           thread'[t].pc # "idle" => thread'[t].b \in Batches,
           thread'[t].pc \in {"ready", "undelivered", "loop", "execute", "repair"} => thread'[t].j \in Jobs,
           thread'[t].pc \in {"idle", "claim", "gen"} => thread'[t].j = None,
           thread'[t].claims # {} => thread'[t].pc = "claim"
    PROVE  ThreadsTyped'
  BY DEF ThreadsTyped, OnlyThread

LEMMA WebKeeps ==
    ASSUME WebTyped, NEW w \in Web, NEW pc, NEW b, NEW j, WebGoes(w, pc, b, j),
           pc = "generate" => b # None, pc = "advance" => b = None /\ j # None,
           pc = "failing" => b # None \/ j # None
    PROVE  WebTyped'
  BY DEF WebTyped, WebGoes

LEMMA RequestHas ==
    ASSUME WebTyped, NEW w \in Web, web[w].pc \in {"generate", "advance", "failing"}
    PROVE  /\ web[w].b # None => web[w].b \in Batches
           /\ web[w].b = None => web[w].j \in Jobs
           /\ web[w].pc = "generate" => web[w].b # None
           /\ web[w].pc = "advance" => web[w].b = None /\ web[w].j \in Jobs
  BY DEF WebTyped, WebType

LEMMA MessagesIn ==
    /\ \A b \in Batches : Generate(b) \in Messages
    /\ \A j \in Jobs : Advance(j) \in Messages
  BY DEF Messages

LEMMA TypedRest ==
    ASSUME Typed, [Next]_vars
    PROVE  RestTyped'
  <1>0. /\ budget' \in BudgetType /\ RowsTyped /\ ThreadsTyped /\ WebTyped /\ RestTyped
        /\ queue \subseteq Messages /\ dropped \subseteq Jobs /\ overtaken \subseteq Jobs
        /\ doubted \subseteq Batches
    BY BudgetStep DEF Typed, RestTyped
  <1>. DEFINE Rest == /\ latest' \in [Targets -> Batches \cup {None}]
                      /\ queue' \subseteq Messages
                      /\ worker' \in [mode : {"up", "down", "starting"}, pending : SUBSET Messages]
                      /\ dropped' \subseteq Jobs /\ overtaken' \subseteq Jobs /\ doubted' \subseteq Batches
  <1>1. SUFFICES Rest
    BY <1>0 DEF RestTyped
  <1>2. CASE UNCHANGED <<latest, queue, worker, history>>
    BY <1>0, <1>2 DEF RestTyped
  <1>3. ASSUME UNCHANGED <<latest, worker>>, queue' \subseteq Messages, dropped' \subseteq Jobs,
               overtaken' \subseteq Jobs, doubted' \subseteq Batches
        PROVE  Rest
    BY <1>0, <1>3 DEF RestTyped
  <1>. HIDE DEF Rest
  <1>4. CASE WebCases
    <2>1. PICK w \in Web :
             \/ \E chosen \in SUBSET Targets : CheckBatch(w, chosen)
             \/ \E b \in Batches : CreateBatch(w, b)
             \/ \E j \in Jobs : Revises(w, j)
             \/ Enqueue(w) \/ DispatchRaises(w) \/ DispatchFailed(w) \/ WebDies(w)
      BY <1>4 DEF WebCases
    <2>2. ASSUME NEW b \in Batches, CreateBatch(w, b) PROVE Rest
      BY <1>0, <2>2 DEF CreateBatch, RestTyped, Rest
    <2>3. CASE Enqueue(w) \/ DispatchRaises(w)
      <3>1. web[w].pc \in {"generate", "advance"} /\ UNCHANGED <<latest, worker, history>>
        BY <2>3 DEF Enqueue, DispatchRaises
      <3>2. /\ web[w].pc = "generate" => web[w].b \in Batches
            /\ web[w].pc = "advance" => web[w].b = None /\ web[w].j \in Jobs
            /\ web[w].b # None => web[w].b \in Batches
        BY <1>0, <3>1, RequestHas
      <3>4. Message(w) \in Messages
        BY <3>1, <3>2, NoneAssumption, MessagesIn DEF Message
      <3>5. (IF web[w].pc = "generate" THEN Generate(web[w].b) ELSE Advance(web[w].j)) \in Messages
        BY <3>1, <3>2, MessagesIn
      <3>3. queue' \subseteq queue \cup Messages
        BY <2>3, <3>4, <3>5 DEF Enqueue, DispatchRaises
      <3>. QED
        BY <1>0, <1>3, <3>1, <3>3
    <2>4. CASE DispatchFailed(w)
      <3>1. doubted' \subseteq doubted \cup Batches
        BY <1>0, <2>4, DispatchRows
      <3>. QED
        BY <1>0, <1>3, <2>4, <3>1 DEF DispatchFailed
    <2>5. CASE WebDies(w)
      <3>1. web[w].pc \in {"generate", "advance", "failing"}
        BY <2>5 DEF WebDies
      <3>2. web[w].b = None => web[w].j \in Jobs
        BY <1>0, <3>1, RequestHas
      <3>3. Abandoned(w) \subseteq Jobs
        BY <3>2 DEF Abandoned, In, Of
      <3>. QED
        BY <1>0, <1>3, <2>5, <3>3 DEF WebDies
    <2>6. ASSUME NEW j \in Jobs, Revises(w, j) PROVE Rest
      <3>1. overtaken' \subseteq overtaken \cup {j}
        BY <2>6 DEF Revises, Overtake
      <3>. QED
        BY <1>0, <1>3, <2>6, <3>1 DEF Revises
    <2>. QED
      BY <1>2, <2>1, <2>2, <2>3, <2>4, <2>5, <2>6 DEF CheckBatch, Rest
  <1>5. CASE ThreadCases
    <2>1. PICK t \in Threads :
             \/ \E b \in Batches : Starts(t, b) \/ BusyLost(t, b)
             \/ \E j \in Jobs : TakeAdvance(t, j) \/ Accepts(t, j)
             \/ Claims(t) \/ HandOver(t) \/ HandOverRaises(t)
             \/ GenerationFails(t) \/ GenerationCrashes(t) \/ GenerationDone(t) \/ RefreshBatch(t)
             \/ DriveStep(t, thread[t].j) \/ DriverEnds(t, thread[t].j)
      BY <1>5 DEF ThreadCases
    <2>2. CASE HandOver(t) \/ HandOverRaises(t)
      <3>1. thread[t].j \in Jobs
        BY <1>0, <2>2 DEF ThreadsTyped, HandOver, HandOverRaises
      <3>2. queue' \subseteq Messages
        BY <1>0, <2>2, <3>1, MessagesIn DEF HandOver, HandOverRaises
      <3>. QED
        BY <1>0, <1>3, <2>2, <3>2 DEF HandOver, HandOverRaises
    <2>3. CASE GenerationCrashes(t)
      <3>1. thread[t].j # None => thread[t].j \in Jobs
        BY <1>0 DEF ThreadsTyped, ThreadType
      <3>2. dropped' \subseteq Jobs
        BY <1>0, <2>3, <3>1 DEF GenerationCrashes, In, Of
      <3>. QED
        BY <1>0, <1>3, <2>3, <3>2 DEF GenerationCrashes
    <2>4. ASSUME NEW b \in Batches, Starts(t, b) PROVE Rest
      BY <1>0, <1>3, <2>4 DEF Starts
    <2>5. ASSUME NEW j \in Jobs, TakeAdvance(t, j) PROVE Rest
      BY <1>0, <1>3, <2>5 DEF TakeAdvance
    <2>6. ASSUME NEW b \in Batches, BusyLost(t, b) PROVE Rest
      <3>1. dropped' \subseteq Jobs
        BY <1>0, <2>6 DEF BusyLost, In, Of
      <3>. QED
        BY <1>0, <1>3, <2>6, <3>1 DEF BusyLost
    <2>7. CASE DriverEnds(t, thread[t].j)
      BY <1>0, <1>3, <2>7 DEF DriverEnds
    <2>. QED
      BY <1>2, <2>1, <2>2, <2>3, <2>4, <2>5, <2>6, <2>7
         DEF Accepts, Claims, GenerationFails, GenerationDone, RefreshBatch, DriveStep
  <1>6. ASSUME NEW b \in Batches, Redeliver(b) PROVE Rest
    BY <1>0, <1>3, <1>6, MessagesIn DEF Redeliver
  <1>7. CASE WorkerDies \/ ReadPending \/ Recover
    BY <1>0, <1>7 DEF WorkerDies, ReadPending, Recover, RestTyped, Rest
  <1>8. ASSUME NEW j \in Jobs, Decides(j) PROVE Rest
    <2>1. overtaken' \subseteq overtaken \cup {j}
      BY <1>8 DEF Decides, Overtake
    <2>. QED
      BY <1>0, <1>3, <1>8, <2>1 DEF Decides
  <1>. QED
    BY <1>2, <1>4, <1>5, <1>6, <1>7, <1>8, StepCases DEF Stop, vars

LEMMA TypedRows ==
    ASSUME Typed, [Next]_vars
    PROVE  RowsTyped'
  <1>0. RowsTyped /\ ThreadsTyped /\ WebTyped
    BY DEF Typed
  <1>1. CASE UNCHANGED <<batch, job>>
    BY <1>0, <1>1 DEF RowsTyped
  <1>2. CASE UNCHANGED batch /\ job' \in [Jobs -> JobType]
    BY <1>0, <1>2 DEF RowsTyped
  <1>3. ASSUME NEW w \in Web, NEW b \in Batches, CreateBatch(w, b) PROVE RowsTyped'
    <2>1. job' \in [Jobs -> JobType]
      BY <1>0, <1>3, CreateRows
    <2>2. batch' \in [Batches -> BatchStates]
      BY <1>0, <1>3 DEF CreateBatch, RowsTyped, BatchStates
    <2>. QED
      BY <2>1, <2>2 DEF RowsTyped
  <1>4. CASE WebCases
    <2>1. ASSUME NEW w \in Web, DispatchFailed(w) PROVE RowsTyped'
      BY <1>0, <2>1, DispatchRows DEF RowsTyped
    <2>. QED
      BY <1>1, <1>2, <1>3, <1>4, <2>1 DEF WebCases, CheckBatch, Revises, RowOnly, Enqueue, DispatchRaises, WebDies
  <1>5. CASE ThreadCases
    <2>1. ASSUME NEW t \in Threads, GenerationFails(t) PROVE RowsTyped'
      BY <2>1, GenFailRows DEF RowsTyped
    <2>2. ASSUME NEW t \in Threads, GenerationDone(t) \/ RefreshBatch(t) PROVE RowsTyped'
      BY <1>0, <2>2 DEF RowsTyped, GenerationDone, RefreshBatch, BatchStates
    <2>3. ASSUME NEW t \in Threads, NEW b \in Batches, Starts(t, b) PROVE RowsTyped'
      BY <2>3 DEF Starts, RowsTyped
    <2>. QED
      BY <1>1, <1>2, <1>5, <2>1, <2>2, <2>3
         DEF ThreadCases, TakeAdvance, BusyLost, Accepts, Claims, RowOnly, HandOver, HandOverRaises,
             GenerationCrashes, DriveStep, DriverEnds
  <1>6. CASE Recover
    BY <1>6, RecoverRows DEF RowsTyped
  <1>7. ASSUME NEW J \in SUBSET Jobs, Stop(J) PROVE RowsTyped'
    <2>1. job' \in [Jobs -> JobType]
      BY <1>0, <1>7, StopRows
    <2>. QED
      BY <1>2, <1>7, <2>1 DEF Stop
  <1>. QED
    BY <1>1, <1>2, <1>4, <1>5, <1>6, <1>7, StepCases DEF Decides, RowOnly, Redeliver, WorkerDies, ReadPending, vars

LEMMA TypedThreads ==
    ASSUME Typed, [Next]_vars
    PROVE  ThreadsTyped'
  <1>0. RowsTyped /\ ThreadsTyped /\ WebTyped
    BY DEF Typed
  <1>1. CASE UNCHANGED thread /\ (UNCHANGED worker \/ Up')
    BY <1>0, <1>1 DEF ThreadsTyped, Up
  <1>2. CASE ThreadCases
    <2>1. PICK t \in Threads :
             \/ \E b \in Batches : Starts(t, b) \/ BusyLost(t, b)
             \/ \E j \in Jobs : TakeAdvance(t, j) \/ Accepts(t, j)
             \/ Claims(t) \/ HandOver(t) \/ HandOverRaises(t)
             \/ GenerationFails(t) \/ GenerationCrashes(t) \/ GenerationDone(t) \/ RefreshBatch(t)
             \/ DriveStep(t, thread[t].j) \/ DriverEnds(t, thread[t].j)
      BY <1>2 DEF ThreadCases
    <2>2. ASSUME NEW b \in Batches, Starts(t, b) PROVE ThreadsTyped'
      <3>1. Up'
        BY <2>2 DEF Starts, Up
      <3>2. UNCHANGED thread \/ (OnlyThread(t) /\ thread'[t].b = b /\ thread'[t].j = None
                                   /\ thread'[t].pc \in {"claim", "refresh"}
                                   /\ (thread'[t].claims # {} => thread'[t].pc = "claim"))
        BY <2>2 DEF Starts, Begins
      <3>. QED
        BY <1>0, <1>1, <3>1, <3>2, ThreadsKeep
    <2>3. ASSUME NEW j \in Jobs, TakeAdvance(t, j) PROVE ThreadsTyped'
      <3>. DEFINE x == [Idle EXCEPT !.pc = "loop", !.b = j[1], !.j = j]
      <3>1. x \in ThreadType /\ x.pc = "loop" /\ x.b \in Batches /\ x.j \in Jobs /\ x.claims = {}
        BY BoundsAssumption DEF ThreadType, Idle
      <3>2. thread' = [thread EXCEPT ![t] = x] /\ Up'
        BY <2>3 DEF TakeAdvance, Up
      <3>. HIDE DEF x
      <3>3. OnlyThread(t) /\ thread'[t] = x
        BY <1>0, <3>1, <3>2, ThreadIs
      <3>. QED
        BY <1>0, <3>1, <3>2, <3>3, ThreadsKeep
    <2>4. ASSUME NEW j \in Jobs, Accepts(t, j) PROVE ThreadsTyped'
      <3>1. Up' /\ thread[t].b \in Batches
        BY <1>0, <2>4 DEF Accepts, Up, ThreadsTyped
      <3>. QED
        BY <1>0, <1>1, <2>4, <3>1, ThreadsKeep DEF Accepts
    <2>5. CASE HandOver(t)
      <3>. DEFINE x == [thread[t] EXCEPT !.pc = "gen", !.j = None]
      <3>1. x \in ThreadType /\ x.pc = "gen" /\ x.b \in Batches /\ x.j = None /\ x.claims = {}
        BY <1>0, <2>5 DEF ThreadsTyped, ThreadType, HandOver, Generating
      <3>2. thread' = [thread EXCEPT ![t] = x] /\ Up'
        BY <1>0, <2>5 DEF HandOver, Up, ThreadsTyped
      <3>. HIDE DEF x
      <3>3. OnlyThread(t) /\ thread'[t] = x
        BY <1>0, <3>1, <3>2, ThreadIs
      <3>. QED
        BY <1>0, <3>1, <3>2, <3>3, ThreadsKeep
    <2>9. CASE HandOverRaises(t)
      <3>1. /\ OnlyThread(t) /\ thread'[t].pc = "undelivered" /\ thread'[t].b = thread[t].b
            /\ thread'[t].j = thread[t].j /\ thread'[t].claims = thread[t].claims /\ Up'
        BY <1>0, <2>9, ThreadGoes DEF HandOverRaises, Goto, Up, Generating
      <3>2. thread[t].b \in Batches /\ thread[t].j \in Jobs /\ thread[t].claims = {}
        BY <1>0, <2>9 DEF ThreadsTyped, HandOverRaises
      <3>. QED
        BY <1>0, <3>1, <3>2, ThreadsKeep
    <2>10. CASE Claims(t)
      <3>1. Up' /\ thread[t].b \in Batches
        BY <1>0, <2>10 DEF Claims, Up, ThreadsTyped
      <3>. QED
        BY <1>0, <2>10, <3>1, ThreadsKeep DEF Claims
    <2>11. CASE DriverEnds(t, thread[t].j)
      <3>1. Up' /\ OnlyThread(t) /\ thread'[t] = Idle
        BY <2>11 DEF DriverEnds, Up
      <3>. QED
        BY <1>0, <3>1, IdleType, ThreadsKeep
    <2>6. CASE Finish(t) /\ Up'
      BY <1>0, <2>6, Finishes, ThreadsKeep, IdleType
    <2>7. CASE GenerationDone(t)
      <3>1. OnlyThread(t) /\ thread'[t].pc = "refresh" /\ thread'[t].b = thread[t].b /\ Up'
            /\ thread'[t].claims = thread[t].claims
        BY <1>0, <2>7, ThreadGoes DEF GenerationDone, Goto, Up
      <3>2. thread[t].b \in Batches /\ thread[t].claims = {}
        BY <1>0, <2>7 DEF ThreadsTyped, GenerationDone
      <3>. QED
        BY <1>0, <3>1, <3>2, ThreadsKeep
    <2>8. CASE DriveStep(t, thread[t].j)
      <3>1. thread[t].b \in Batches /\ thread[t].j \in Jobs /\ Up' /\ OnlyThread(t) /\ thread'[t].claims = {}
        BY <1>0, <2>8 DEF ThreadsTyped, DriveStep, Up
      <3>2. \/ thread'[t] = Idle
            \/ /\ thread'[t].b = thread[t].b /\ thread'[t].j = thread[t].j
               /\ thread'[t].pc \in {"loop", "refresh", "execute", "repair"}
        BY <2>8 DEF DriveStep
      <3>. QED
        BY <1>0, <3>1, <3>2, IdleType, ThreadsKeep
    <2>. QED
      BY <1>1, <2>1, <2>2, <2>3, <2>4, <2>5, <2>6, <2>7, <2>8, <2>9, <2>10, <2>11
         DEF GenerationFails, GenerationCrashes, RefreshBatch, BusyLost, Up
  <1>3. CASE WorkerDies
    BY <1>3, IdleType DEF WorkerDies, ThreadsTyped
  <1>4. CASE ReadPending
    BY <1>0, <1>4 DEF ReadPending, ThreadsTyped, Up
  <1>5. CASE Recover
    BY <1>0, <1>5 DEF Recover, ThreadsTyped, Up
  <1>. QED
    BY <1>1, <1>2, <1>3, <1>4, <1>5, StepCases
       DEF WebCases, CheckBatch, CreateBatch, Revises, Enqueue, DispatchRaises, DispatchFailed, WebDies, Decides, Stop,
           Redeliver, vars

LEMMA TypedWeb ==
    ASSUME Typed, [Next]_vars
    PROVE  WebTyped'
  <1>0. RowsTyped /\ ThreadsTyped /\ WebTyped
    BY DEF Typed
  <1>1. CASE UNCHANGED web
    BY <1>0, <1>1 DEF WebTyped
  <1>2. ASSUME NEW w \in Web,
               \/ \E chosen \in SUBSET Targets : CheckBatch(w, chosen)
               \/ Enqueue(w) \/ DispatchFailed(w) \/ WebDies(w)
        PROVE  WebTyped'
    <2>1. WebGoes(w, "create", None, None) \/ WebGoes(w, "idle", None, None)
      BY <1>0, <1>2, WebMoves DEF CheckBatch, Enqueue, DispatchFailed, WebDies
    <2>. QED
      BY <1>0, <2>1, WebKeeps
  <1>3. ASSUME NEW w \in Web, NEW b \in Batches, CreateBatch(w, b) PROVE WebTyped'
    <2>1. WebGoes(w, "generate", b, None) /\ b # None
      BY <1>0, <1>3, WebMoves, NoneAssumption DEF CreateBatch
    <2>. QED
      BY <1>0, <2>1, WebKeeps
  <1>4. ASSUME NEW w \in Web, NEW j \in Jobs, Revises(w, j) PROVE WebTyped'
    <2>1. WebGoes(w, "advance", None, j) /\ j # None
      BY <1>0, <1>4, WebMoves, NoneAssumption DEF Revises
    <2>. QED
      BY <1>0, <2>1, WebKeeps
  <1>6. ASSUME NEW w \in Web, DispatchRaises(w) PROVE WebTyped'
    <2>1. WebGoes(w, "failing", web[w].b, web[w].j)
      BY <1>0, <1>6, WebMoves DEF DispatchRaises
    <2>2. web[w].b # None \/ web[w].j # None
      BY <1>0, <1>6 DEF WebTyped, DispatchRaises
    <2>. QED
      BY <1>0, <2>1, <2>2, WebKeeps
  <1>5. CASE WebCases
    BY <1>2, <1>3, <1>4, <1>5, <1>6 DEF WebCases
  <1>. QED
    BY <1>1, <1>5, StepCases
       DEF ThreadCases, Starts, BusyLost, TakeAdvance, Accepts, Claims, HandOver, HandOverRaises, GenerationFails,
           GenerationCrashes, GenerationDone, RefreshBatch, DriveStep, DriverEnds, Decides, Stop, Redeliver, WorkerDies, ReadPending, Recover, vars

LEMMA TypedInit == Init => Typed
  <1>. SUFFICES ASSUME Init PROVE Typed
    OBVIOUS
  <1>1. RowsTyped
    BY AbsentType DEF Init, RowsTyped, BatchStates
  <1>2. ThreadsTyped
    BY IdleType DEF Init, ThreadsTyped
  <1>3. WebTyped
    <2>1. NoRequest \in WebType /\ NoRequest.pc = "idle" /\ NoRequest.b = None /\ NoRequest.j = None
      BY DEF NoRequest, WebType
    <2>. QED
      BY <2>1 DEF Init, WebTyped
  <1>4. RestTyped
    BY BoundsAssumption DEF Init, RestTyped, BudgetType
  <1>. QED
    BY <1>1, <1>2, <1>3, <1>4 DEF Typed

LEMMA TypedHolds == Spec => []Typed
  <1>1. Typed /\ [Next]_vars => Typed'
    BY TypedRest, TypedRows, TypedThreads, TypedWeb DEF Typed
  <1>. QED
    BY TypedInit, <1>1, PTL DEF Spec

-----------------------------------------------------------------------------
(* A job that executes or is repaired has a version.                       *)

Versioned ==
    /\ \A j \in Jobs : job[j].state \in {"executing", "repairing"} => job[j].attempt > 0
    /\ \A t \in Threads : thread[t].pc \in {"execute", "repair"} =>
          job[thread[t].j].attempt > 0 /\ job[thread[t].j].state # "absent"

\* No row of J loses its version, or leaves the states without one without it.
Progress(J) ==
    \A j \in J : /\ job'[j].attempt >= job[j].attempt \/ job'[j].attempt > 0
                 /\ job'[j].state = "absent" => job[j].state = "absent"
                 /\ job'[j].state \in {"executing", "repairing"} =>
                       job[j].state \in {"executing", "repairing"} \/ job'[j].attempt > 0

LEMMA VersionedKeeps ==
    ASSUME Typed, Typed', Versioned, Progress(Jobs),
           \A t \in Threads : thread'[t].pc \in {"execute", "repair"} =>
              \/ thread[t].pc \in {"execute", "repair"} /\ thread'[t].j = thread[t].j
              \/ job'[thread'[t].j].state \in {"executing", "repairing"}
    PROVE  Versioned'
  <1>1. \A j \in Jobs : job[j].attempt \in Nat /\ job'[j].attempt \in Nat
    BY DEF Typed, RowsTyped, JobType
  <1>2. \A j \in Jobs : job'[j].state \in {"executing", "repairing"} => job'[j].attempt > 0
    BY <1>1 DEF Versioned, Progress
  <1>3. ASSUME NEW t \in Threads, thread'[t].pc \in {"execute", "repair"}
        PROVE  job'[thread'[t].j].attempt > 0 /\ job'[thread'[t].j].state # "absent"
    <2>1. thread'[t].j \in Jobs
      BY <1>3 DEF Typed, ThreadsTyped
    <2>2. CASE thread[t].pc \in {"execute", "repair"} /\ thread'[t].j = thread[t].j
      BY <1>1, <2>1, <2>2 DEF Versioned, Progress
    <2>3. CASE job'[thread'[t].j].state \in {"executing", "repairing"}
      BY <1>2, <2>1, <2>3
    <2>. QED
      BY <1>3, <2>2, <2>3
  <1>. QED
    BY <1>2, <1>3 DEF Versioned

LEMMA VersionedStep ==
    ASSUME Typed, Typed', Versioned, [Next]_vars
    PROVE  Versioned'
  <1>0. /\ RowsTyped /\ ThreadsTyped /\ WebTyped
        /\ \A j \in Jobs : job[j].attempt \in Nat /\ job'[j].attempt \in Nat
    BY DEF Typed, RowsTyped, JobType
  <1>. DEFINE Same == \A t \in Threads : thread'[t].pc \in {"execute", "repair"} =>
                         \/ thread[t].pc \in {"execute", "repair"} /\ thread'[t].j = thread[t].j
                         \/ job'[thread'[t].j].state \in {"executing", "repairing"}
  <1>1. \A j \in Jobs : job'[j] = job[j] => Progress({j})
    BY <1>0 DEF Progress
  <1>2. \A j \in Jobs : Parks(job[j], job'[j]) => Progress({j})
    BY <1>0 DEF Progress, Parks, SameWork
  <1>3. SUFFICES (\A j \in Jobs : Progress({j})) /\ Same
    BY VersionedKeeps DEF Progress
  <1>4. UNCHANGED thread => Same
    OBVIOUS
  <1>5. ASSUME NEW t \in Threads, OnlyThread(t), thread'[t].pc \notin {"execute", "repair"} PROVE Same
    BY <1>5 DEF OnlyThread
  <1>6. CASE WebCases
    <2>1. ASSUME NEW w \in Web, NEW b \in Batches, CreateBatch(w, b) PROVE \A j \in Jobs : Progress({j})
      <3>1. \A j \in Jobs : \/ job'[j] = job[j]
                            \/ j \in Of(b) /\ job'[j].state = "queued" /\ SameWork(job[j], job'[j])
        BY <1>0, <2>1, CreateRows
      <3>. QED
        BY <1>0, <3>1 DEF Progress, SameWork
    <2>2. ASSUME NEW w \in Web, NEW j \in Jobs, Revises(w, j) PROVE \A k \in Jobs : Progress({k})
      BY <1>0, <2>2 DEF Revises, RowOnly, Progress
    <2>3. ASSUME NEW w \in Web, DispatchFailed(w) PROVE \A k \in Jobs : Progress({k})
      BY <1>0, <1>1, <1>2, <2>3, DispatchRows
    <2>4. UNCHANGED thread
      BY <1>6 DEF WebCases, CheckBatch, CreateBatch, Revises, Enqueue, DispatchRaises, DispatchFailed, WebDies
    <2>5. \A k \in Jobs : Progress({k})
      BY <1>1, <1>6, <2>1, <2>2, <2>3 DEF WebCases, CheckBatch, Enqueue, DispatchRaises, WebDies
    <2>. QED
      BY <1>4, <2>4, <2>5
  <1>7. CASE ThreadCases
    <2>1. PICK t \in Threads :
             \/ \E b \in Batches : Starts(t, b) \/ BusyLost(t, b)
             \/ \E j \in Jobs : TakeAdvance(t, j) \/ Accepts(t, j)
             \/ Claims(t) \/ HandOver(t) \/ HandOverRaises(t)
             \/ GenerationFails(t) \/ GenerationCrashes(t) \/ GenerationDone(t) \/ RefreshBatch(t)
             \/ DriveStep(t, thread[t].j) \/ DriverEnds(t, thread[t].j)
      BY <1>7 DEF ThreadCases
    <2>2. ASSUME NEW b \in Batches, Starts(t, b) PROVE (\A j \in Jobs : Progress({j})) /\ Same
      <3>1. \A j \in Jobs : /\ SameWork(job[j], job'[j])
                            /\ \/ job'[j].state = job[j].state
                               \/ job'[j].state \in {"generating", "error", "needs_human", "stopped"}
        BY <1>0, <2>2 DEF Starts, SameWork, Parks
      <3>2. \A j \in Jobs : Progress({j})
        BY <1>0, <3>1 DEF Progress, SameWork
      <3>3. Same
        BY <1>4, <1>5, <2>2 DEF Starts, Begins
      <3>. QED
        BY <3>2, <3>3
    <2>3. ASSUME NEW j \in Jobs, TakeAdvance(t, j) PROVE (\A k \in Jobs : Progress({k})) /\ Same
      BY <1>0, <1>1, <2>3 DEF TakeAdvance, ThreadsTyped
    <2>4. ASSUME NEW j \in Jobs, Accepts(t, j) PROVE (\A k \in Jobs : Progress({k})) /\ Same
      <3>1. \A k \in Jobs : Progress({k})
        BY <1>0, <2>4 DEF Accepts, RowOnly, Progress
      <3>2. Same
        BY <1>4, <1>5, <2>4 DEF Accepts
      <3>. QED
        BY <3>1, <3>2
    <2>5. CASE HandOver(t)
      BY <1>0, <1>1, <2>5 DEF HandOver, ThreadsTyped
    <2>13. CASE HandOverRaises(t)
      BY <1>0, <1>1, <1>5, <2>13, ThreadGoes DEF HandOverRaises, Goto, Generating
    <2>10. CASE Claims(t)
      <3>1. \A k \in Jobs : job'[k] = job[k] \/ (SameWork(job[k], job'[k]) /\ job'[k].state = "generating")
        BY <2>10 DEF Claims
      <3>2. \A k \in Jobs : Progress({k})
        BY <1>0, <1>1, <3>1 DEF Progress, SameWork
      <3>. QED
        BY <1>5, <2>10, <3>2 DEF Claims
    <2>11. CASE DriverEnds(t, thread[t].j)
      <3>1. \A k \in Jobs : Progress({k})
        BY <1>1, <1>2, <2>11 DEF DriverEnds, RowOnly
      <3>. QED
        BY <1>5, <2>11, <3>1, IdleType DEF DriverEnds
    <2>12. ASSUME NEW b \in Batches, BusyLost(t, b) PROVE (\A k \in Jobs : Progress({k})) /\ Same
      BY <1>1, <1>4, <2>12 DEF BusyLost
    <2>6. CASE GenerationFails(t)
      <3>1. \A k \in Jobs : Progress({k})
        BY <1>1, <1>2, <2>6, GenFailRows
      <3>. QED
        BY <1>5, <2>6, <3>1, GenFailRows, IdleType
    <2>7. CASE Finish(t) /\ UNCHANGED job
      BY <1>0, <1>1, <1>5, <2>7, Finishes, IdleType
    <2>8. CASE GenerationDone(t)
      BY <1>0, <1>1, <1>5, <2>8, ThreadGoes DEF GenerationDone, Goto
    <2>9. CASE DriveStep(t, thread[t].j)
      <3>. DEFINE j == thread[t].j
      <3>1. /\ RowOnly(j) /\ job'[j].attempt >= job[j].attempt /\ j \in Jobs
            /\ \/ job'[j].state = job[j].state
               \/ job'[j].state \in {"executing", "repairing"} /\ thread[t].pc \in {"execute", "repair"}
               \/ job'[j].state \in HumanGates \cup {"stopped"}
        BY <1>0, <2>9 DEF DriveStep, ThreadsTyped
      <3>2. thread[t].pc \in {"execute", "repair"} => job[j].attempt > 0
        BY DEF Versioned
      <3>3. \A k \in Jobs : Progress({k})
        BY <1>0, <3>1, <3>2 DEF RowOnly, Progress, HumanGates
      <3>4. /\ OnlyThread(t) /\ (thread'[t] = Idle \/ thread'[t].j = j)
            /\ thread'[t].pc \in {"execute", "repair"} => job'[j].state \in {"executing", "repairing"}
        BY <2>9 DEF DriveStep
      <3>5. Same
        BY <3>4, IdleType DEF OnlyThread
      <3>. QED
        BY <3>3, <3>5
    <2>. QED
      BY <2>1, <2>2, <2>3, <2>4, <2>5, <2>6, <2>7, <2>8, <2>9, <2>10, <2>11, <2>12, <2>13
         DEF GenerationCrashes, RefreshBatch
  <1>8. CASE Recover
    <2>1. \A k \in Jobs : Progress({k})
      BY <1>1, <1>2, <1>8, RecoverRows
    <2>. QED
      BY <1>4, <1>8, <2>1 DEF Recover
  <1>9. CASE WorkerDies
    BY <1>1, <1>9, IdleType DEF WorkerDies
  <1>10. ASSUME NEW J \in SUBSET Jobs, Stop(J) PROVE (\A j \in Jobs : Progress({j})) /\ Same
    <2>1. \A j \in Jobs : /\ SameWork(job[j], job'[j])
                          /\ \/ job'[j].state = job[j].state
                             \/ job[j].state = "queued" /\ job'[j].state = "stopped"
      BY <1>0, <1>10, StopRows
    <2>. QED
      BY <1>0, <1>4, <1>10, <2>1 DEF Progress, SameWork, Stop
  <1>11. ASSUME NEW j \in Jobs, Decides(j) PROVE (\A k \in Jobs : Progress({k})) /\ Same
    BY <1>0, <1>4, <1>11 DEF Decides, RowOnly, Progress, Decided
  <1>12. CASE (\E b \in Batches : Redeliver(b)) \/ ReadPending \/ UNCHANGED vars
    BY <1>1, <1>4, <1>12 DEF Redeliver, ReadPending, vars
  <1>. QED
    BY <1>6, <1>7, <1>8, <1>9, <1>10, <1>11, <1>12, StepCases

-----------------------------------------------------------------------------
(* The generation of a batch: one thread at most is behind the gate, what  *)
(* it claims is all that is queued, and the jobs are all before or all     *)
(* behind the claim.                                                       *)

Gen(t, b) == thread[t].pc \in Generating /\ thread[t].b = b
Holds(b, state) == \E j \in Of(b) : job[j].state = state
Closed == {"running", "done", "failed"}

GateHolds ==
    \A t, u \in Threads : thread[t].pc \in Generating /\ thread[u].pc \in Generating => t = u

BatchInv(b) ==
    /\ batch[b] = "absent" => \A j \in Of(b) : job[j].state = "absent"
    /\ batch[b] \in Closed /\ b \notin doubted => ~Holds(b, "queued") /\ ~Holds(b, "generating")
    /\ \A t \in Threads : Gen(t, b) =>
          /\ batch[b] # "absent" /\ (batch[b] = "generating" \/ b \in doubted)
          /\ IF thread[t].pc = "claim"
               THEN thread[t].claims \subseteq Of(b) /\ In({"queued"}, Of(b)) \subseteq thread[t].claims
               ELSE ~Holds(b, "queued")
    /\ ~Holds(b, "queued") \/ ~Holds(b, "generating")

\* Nothing happens that the generation of b depends on.
StillRows(b) ==
    \A j \in Of(b) :
       /\ job'[j].state \in {"queued", "generating"} => job'[j].state = job[j].state
       /\ job[j].state = "absent" => job'[j].state = "absent"

StillThread(t) ==
    thread'[t].pc \in Generating =>
       /\ thread[t].pc \in Generating /\ thread'[t].b = thread[t].b
       /\ thread'[t].pc = "claim" <=> thread[t].pc = "claim"
       /\ thread'[t].claims = thread[t].claims

Quiet(b) ==
    /\ batch'[b] = batch[b] \/ (batch[b] = "running" /\ batch'[b] = "done")
    /\ doubted \subseteq doubted'
    /\ StillRows(b)
    /\ \A t \in Threads : Gen(t, b)' => StillThread(t)

LEMMA QuietKeeps ==
    ASSUME NEW b \in Batches, BatchInv(b), Quiet(b)
    PROVE  BatchInv(b)'
  <1>1. /\ Holds(b, "queued")' => Holds(b, "queued")
        /\ Holds(b, "generating")' => Holds(b, "generating")
        /\ Of(b)' = Of(b)
    BY DEF Quiet, StillRows, Holds, Of
  <1>2. batch'[b] = "absent" => \A j \in Of(b) : job'[j].state = "absent"
    BY DEF Quiet, StillRows, BatchInv
  <1>3. batch'[b] \in Closed /\ b \notin doubted' => ~Holds(b, "queued")' /\ ~Holds(b, "generating")'
    BY <1>1 DEF Quiet, BatchInv, Closed
  <1>4. In({"queued"}, Of(b))' \subseteq In({"queued"}, Of(b))
    BY <1>1 DEF Quiet, StillRows, In
  <1>5. ASSUME NEW t \in Threads, Gen(t, b)'
        PROVE  /\ batch'[b] # "absent" /\ (batch'[b] = "generating" \/ b \in doubted')
               /\ IF thread'[t].pc = "claim"
                    THEN thread'[t].claims \subseteq Of(b)' /\ In({"queued"}, Of(b))' \subseteq thread'[t].claims
                    ELSE ~Holds(b, "queued")'
    <2>1. Gen(t, b) /\ (thread'[t].pc = "claim" <=> thread[t].pc = "claim") /\ thread'[t].claims = thread[t].claims
      BY <1>5 DEF Quiet, StillThread, Gen
    <2>2. /\ batch[b] # "absent" /\ (batch[b] = "generating" \/ b \in doubted)
          /\ IF thread[t].pc = "claim"
               THEN thread[t].claims \subseteq Of(b) /\ In({"queued"}, Of(b)) \subseteq thread[t].claims
               ELSE ~Holds(b, "queued")
      BY <2>1 DEF BatchInv
    <2>. QED
      BY <1>1, <1>4, <2>1, <2>2 DEF Quiet
  <1>6. ~Holds(b, "queued")' \/ ~Holds(b, "generating")'
    BY <1>1 DEF BatchInv
  <1>. QED
    BY <1>1, <1>2, <1>3, <1>5, <1>6 DEF BatchInv

\* The parts of Quiet.
LEMMA QuietParts ==
    ASSUME NEW b \in Batches
    PROVE  /\ UNCHANGED thread => \A t \in Threads : StillThread(t)
           /\ \A t \in Threads : OnlyThread(t) /\ StillThread(t) => \A u \in Threads : StillThread(u)
           /\ \A t \in Threads : thread'[t].pc \notin Generating => StillThread(t)
           /\ UNCHANGED job \/ (\A j \in Jobs : job'[j] = job[j] \/ (job[j].state \in Active /\ Parks(job[j], job'[j])))
                 => StillRows(b)
           /\ (batch'[b] = batch[b] \/ (batch[b] = "running" /\ batch'[b] = "done"))
              /\ doubted \subseteq doubted' /\ StillRows(b) /\ (\A t \in Threads : StillThread(t)) => Quiet(b)
  <1>1. UNCHANGED thread => \A t \in Threads : StillThread(t)
    BY DEF StillThread
  <1>2. ASSUME NEW t \in Threads, OnlyThread(t), StillThread(t), NEW u \in Threads PROVE StillThread(u)
    BY <1>2 DEF OnlyThread, StillThread
  <1>3. \A t \in Threads : thread'[t].pc \notin Generating => StillThread(t)
    BY DEF StillThread
  <1>4. ASSUME UNCHANGED job \/ (\A j \in Jobs : job'[j] = job[j] \/ (job[j].state \in Active /\ Parks(job[j], job'[j])))
        PROVE  StillRows(b)
    BY <1>4 DEF StillRows, Of, Parks, Active
  <1>. QED
    BY <1>1, <1>2, <1>3, <1>4 DEF Quiet

LEMMA CreateBatchInv ==
    ASSUME Typed, NEW c \in Batches, BatchInv(c), NEW w \in Web, NEW b \in Batches, CreateBatch(w, b)
    PROVE  BatchInv(c)'
  <1>0. RowsTyped
    BY DEF Typed
  <1>1. /\ batch[b] = "absent" /\ batch'[b] = "generating" /\ \A d \in Batches \ {b} : batch'[d] = batch[d]
        /\ UNCHANGED <<thread, doubted>>
    BY <1>0 DEF CreateBatch, Room, RowsTyped
  <1>2. \A j \in Jobs :
           job'[j] = job[j] \/ (j \in Of(b) /\ job'[j].state = "queued" /\ SameWork(job[j], job'[j]))
    BY <1>0, CreateRows
  <1>3. CASE c # b
    <2>1. \A j \in Of(c) : job'[j] = job[j]
      BY <1>2, <1>3 DEF Of
    <2>2. Quiet(c)
      BY <1>1, <1>3, <2>1, QuietParts DEF Quiet, StillRows
    <2>. QED
      BY <2>2, QuietKeeps
  <1>4. CASE c = b
    <2>1. \A j \in Of(b) : job[j].state = "absent" /\ job'[j].state \in {"absent", "queued"}
      BY <1>1, <1>2, <1>4 DEF BatchInv, Of
    <2>2. ~Holds(b, "generating")'
      BY <2>1 DEF Holds, Of
    <2>3. \A t \in Threads : ~Gen(t, b)'
      BY <1>1, <1>4 DEF BatchInv, Gen
    <2>. QED
      BY <1>1, <1>4, <2>2, <2>3 DEF BatchInv, Closed
  <1>. QED
    BY <1>3, <1>4

\* A failed hand-over closes a batch that has none left, or doubts it.
LEMMA DispatchBatchInv ==
    ASSUME Typed, NEW b \in Batches, BatchInv(b), NEW w \in Web, DispatchFailed(w)
    PROVE  BatchInv(b)'
  <1>1. /\ \A j \in Jobs : job'[j] = job[j] \/ (job[j].state \in Active /\ Parks(job[j], job'[j]))
        /\ doubted \subseteq doubted' /\ UNCHANGED thread
        /\ \/ batch'[b] = batch[b]
           \/ /\ batch[b] = "generating" /\ batch'[b] = "failed"
              /\ Begun(b) => b \in doubted'
              /\ \A j \in Of(b) : job[j].state = "queued" => Parks(job[j], job'[j])
    BY DispatchRows DEF Typed, DispatchFailed
  <1>2. CASE batch'[b] = batch[b]
    <2>1. Quiet(b)
      BY <1>1, <1>2, QuietParts
    <2>. QED
      BY <2>1, QuietKeeps
  <1>3. CASE /\ batch[b] = "generating" /\ batch'[b] = "failed"
             /\ Begun(b) => b \in doubted'
             /\ \A j \in Of(b) : job[j].state = "queued" => Parks(job[j], job'[j])
    <2>1. ~Holds(b, "queued")' /\ In({"queued"}, Of(b))' = {} /\ Of(b)' = Of(b)
      BY <1>1, <1>3 DEF Holds, Of, In, Parks, Active
    <2>2. b \notin doubted' => ~Holds(b, "generating")'
      <3>1. HAVE b \notin doubted'
      <3>2. \A j \in Of(b) : job[j].state # "generating"
        BY <1>3, <3>1 DEF Begun, In
      <3>. QED
        BY <1>1, <3>2 DEF Holds, Of, Parks
    <2>3. ASSUME NEW t \in Threads, Gen(t, b)'
          PROVE  b \in doubted' /\ (thread'[t].pc = "claim" => thread'[t].claims \subseteq Of(b))
      <3>1. Gen(t, b) /\ thread'[t] = thread[t]
        BY <1>1, <2>3 DEF Gen
      <3>2. Begun(b)
        BY <3>1 DEF Begun, UnderWay, Gen
      <3>. QED
        BY <1>3, <3>1, <3>2 DEF BatchInv
    <2>. QED
      BY <1>3, <2>1, <2>2, <2>3 DEF BatchInv, Closed
  <1>. QED
    BY <1>1, <1>2, <1>3

LEMMA StartBatchInv ==
    ASSUME Typed, NEW c \in Batches, BatchInv(c), NEW t \in Threads, NEW b \in Batches, Starts(t, b)
    PROVE  BatchInv(c)'
  <1>1. /\ \A d \in Batches \ {b} : batch'[d] = batch[d]
        /\ \A j \in Jobs \ Of(b) : job'[j] = job[j]
        /\ UNCHANGED doubted
        /\ \A u \in Threads : thread[u].pc \notin Generating
    BY DEF Starts, GateFree
  <1>2. CASE c # b
    <2>1. \A j \in Of(c) : job'[j] = job[j]
      BY <1>1, <1>2 DEF Of
    <2>2. \A u \in Threads : ~Gen(u, c)'
      BY <1>1, <1>2 DEF Starts, Begins, Gen, OnlyThread
    <2>3. Quiet(c)
      BY <1>1, <1>2, <2>1, <2>2 DEF Quiet, StillRows
    <2>. QED
      BY <2>3, QuietKeeps
  <1>3. CASE c = b
    <2>1. CASE UNCHANGED <<batch, job, thread>>
      <3>1. Quiet(b)
        BY <1>1, <2>1, QuietParts
      <3>. QED
        BY <1>3, <3>1, QuietKeeps
    <2>2. CASE batch[b] = "generating" /\ UNCHANGED <<batch, job>> /\ Begins(t, b, "claim", In({"queued"}, Of(b)))
      <3>1. /\ Holds(b, "queued")' <=> Holds(b, "queued")
            /\ Holds(b, "generating")' <=> Holds(b, "generating")
            /\ In({"queued"}, Of(b))' = In({"queued"}, Of(b)) /\ Of(b)' = Of(b)
        BY <2>2 DEF Holds, Of, In
      <3>2. \A u \in Threads : Gen(u, b)' => thread'[u].pc = "claim" /\ thread'[u].claims = In({"queued"}, Of(b))
        BY <1>1, <2>2 DEF Begins, OnlyThread, Gen
      <3>3. In({"queued"}, Of(b)) \subseteq Of(b)
        BY DEF In
      <3>. QED
        BY <1>3, <2>2, <3>1, <3>2, <3>3 DEF BatchInv, Closed
    <2>3. CASE /\ batch'[b] = "failed" /\ UNCHANGED thread /\ In({"queued"}, Of(b)) = {}
               /\ \A j \in Of(b) : IF job[j].state = "generating" THEN Parks(job[j], job'[j])
                                                                 ELSE job'[j] = job[j]
      <3>1. \A j \in Of(b) : job[j].state # "queued"
        BY <2>3 DEF In
      <3>2. \A j \in Of(b) : job'[j].state \notin {"queued", "generating"}
        BY <2>3, <3>1 DEF Parks
      <3>3. ~Holds(b, "queued")' /\ ~Holds(b, "generating")'
        BY <3>2 DEF Holds, Of
      <3>4. \A u \in Threads : ~Gen(u, b)'
        BY <1>1, <2>3 DEF Gen
      <3>. QED
        BY <1>3, <2>3, <3>3, <3>4 DEF BatchInv
    <2>4. CASE /\ batch'[b] = "running" /\ Begins(t, b, "refresh", {}) /\ UNCHANGED job
               /\ In({"queued"}, Of(b)) = {} /\ In({"generating"}, Of(b)) = {}
      <3>1. ~Holds(b, "queued")' /\ ~Holds(b, "generating")'
        BY <2>4 DEF In, Holds, Of
      <3>2. \A u \in Threads : ~Gen(u, b)'
        BY <1>1, <2>4 DEF Begins, OnlyThread, Gen, Generating
      <3>. QED
        BY <1>3, <2>4, <3>1, <3>2 DEF BatchInv
    <2>. QED
      BY <2>1, <2>2, <2>3, <2>4 DEF Starts
  <1>. QED
    BY <1>2, <1>3

\* The claim leaves no job queued.
LEMMA ClaimBatchInv ==
    ASSUME Typed, GateHolds, NEW c \in Batches, BatchInv(c), NEW t \in Threads, Claims(t),
           BatchInv(thread[t].b)
    PROVE  BatchInv(c)'
  <1>. DEFINE b == thread[t].b
  <1>1. /\ b \in Batches /\ Gen(t, b) /\ OnlyThread(t) /\ UNCHANGED <<batch, doubted>>
        /\ thread'[t].pc = "gen" /\ thread'[t].b = b /\ thread[t].pc = "claim"
    BY DEF Claims, Gen, Generating
  <1>2. /\ thread[t].claims \subseteq Of(b) /\ In({"queued"}, Of(b)) \subseteq thread[t].claims
        /\ batch[b] # "absent" /\ (batch[b] = "generating" \/ b \in doubted)
    BY <1>1 DEF BatchInv
  <1>3. \A j \in Jobs : IF j \in thread[t].claims THEN job'[j].state = "generating" ELSE job'[j] = job[j]
    BY DEF Claims
  <1>4. \A u \in Threads : Gen(u, c)' => u = t
    BY <1>1 DEF GateHolds, Gen, OnlyThread
  <1>. HIDE DEF b
  <1>5. CASE c # b
    <2>1. \A j \in Of(c) : job'[j] = job[j]
      BY <1>2, <1>3, <1>5 DEF Of
    <2>2. \A u \in Threads : ~Gen(u, c)'
      BY <1>1, <1>4, <1>5 DEF Gen
    <2>3. Quiet(c)
      BY <1>1, <2>1, <2>2 DEF Quiet, StillRows
    <2>. QED
      BY <2>3, QuietKeeps
  <1>6. CASE c = b
    <2>1. ~Holds(c, "queued")'
      <3>1. ASSUME NEW j \in Of(c) PROVE job'[j].state # "queued"
        <4>1. j \in Jobs
          BY DEF Of
        <4>2. CASE j \in thread[t].claims
          BY <1>3, <4>1, <4>2
        <4>3. CASE j \notin thread[t].claims
          BY <1>2, <1>3, <1>6, <4>1, <4>3 DEF In
        <4>. QED
          BY <4>2, <4>3
      <3>. QED
        BY <3>1 DEF Holds, Of
    <2>2. /\ batch'[c] # "absent" /\ (batch'[c] = "generating" \/ c \in doubted')
          /\ batch'[c] \in Closed => c \in doubted'
      BY <1>1, <1>2, <1>6 DEF Closed
    <2>3. \A u \in Threads : Gen(u, c)' => thread'[u].pc # "claim"
      BY <1>1, <1>4, <1>6
    <2>. QED
      BY <2>1, <2>2, <2>3 DEF BatchInv
  <1>. QED
    BY <1>5, <1>6

\* A generation ends, with its jobs parked or with none left.
LEMMA EndBatchInv ==
    ASSUME Typed, GateHolds, NEW c \in Batches, BatchInv(c), NEW t \in Threads,
           GenerationFails(t) \/ GenerationDone(t)
    PROVE  BatchInv(c)'
  <1>. DEFINE b == thread[t].b
  <1>0. RowsTyped /\ ThreadsTyped
    BY DEF Typed
  <1>1. /\ b \in Batches /\ Gen(t, b) /\ UNCHANGED doubted /\ OnlyThread(t) /\ thread[t].pc # "claim"
        /\ batch'[b] \in {"failed", "running"} /\ \A d \in Batches \ {b} : batch'[d] = batch[d]
        /\ thread'[t].pc \notin Generating
    <2>1. CASE GenerationFails(t)
      BY <2>1, GenFailRows, IdleType DEF Gen, Generating
    <2>2. CASE GenerationDone(t)
      <3>1. b \in Batches
        BY <1>0, <2>2 DEF GenerationDone, ThreadsTyped
      <3>2. OnlyThread(t) /\ thread'[t].pc = "refresh"
        BY <1>0, <2>2, ThreadGoes DEF GenerationDone, Goto
      <3>. QED
        BY <1>0, <2>2, <3>1, <3>2 DEF GenerationDone, RowsTyped, Gen, Generating
    <2>. QED
      BY <2>1, <2>2
  <1>2. /\ \A j \in Jobs : job'[j] = job[j] \/ (job[j].state \in Active /\ Parks(job[j], job'[j]))
        /\ \A j \in Of(b) : job[j].state = "generating" => Parks(job[j], job'[j])
    <2>1. CASE GenerationFails(t)
      BY <2>1, GenFailRows
    <2>2. CASE GenerationDone(t)
      BY <2>2 DEF GenerationDone, Unfinished, In
    <2>. QED
      BY <2>1, <2>2
  <1>3. \A u \in Threads : ~Gen(u, c)'
    BY <1>1 DEF GateHolds, Gen, OnlyThread
  <1>. HIDE DEF b
  <1>4. CASE c # b
    <2>1. Quiet(c)
      BY <1>1, <1>2, <1>3, <1>4, QuietParts DEF Quiet
    <2>. QED
      BY <2>1, QuietKeeps
  <1>5. CASE c = b
    <2>1. ~Holds(c, "queued")
      BY <1>1, <1>5 DEF BatchInv
    <2>2. \A j \in Of(c) : job'[j].state \notin {"queued", "generating"}
      BY <1>2, <1>5, <2>1 DEF Holds, Of, Parks
    <2>3. ~Holds(c, "queued")' /\ ~Holds(c, "generating")'
      BY <2>2 DEF Holds, Of
    <2>. QED
      BY <1>1, <1>3, <1>5, <2>3 DEF BatchInv
  <1>. QED
    BY <1>4, <1>5

LEMMA RecoverBatchInv ==
    ASSUME Typed, Versioned, NEW b \in Batches, BatchInv(b), Recover
    PROVE  BatchInv(b)'
  <1>0. /\ \A j \in Jobs : job'[j] = job[j] \/ (job[j].state \in Active /\ Parks(job[j], job'[j]))
        /\ \A j \in Jobs : job[j].state \in Active /\ ~Driven(j) => Parks(job[j], job'[j])
        /\ UNCHANGED <<thread, doubted>>
    BY RecoverRows
  <1>1. \A t \in Threads : ~Gen(t, b)'
    <2>1. \A t \in Threads : thread[t].pc = "idle"
      BY DEF Typed, ThreadsTyped, Recover, Up
    <2>. QED
      BY <1>0, <2>1 DEF Gen, Generating
  <1>2. CASE batch'[b] = batch[b] \/ (batch[b] = "running" /\ batch'[b] = "done")
    <2>1. Quiet(b)
      BY <1>0, <1>1, <1>2, QuietParts DEF Quiet
    <2>. QED
      BY <2>1, QuietKeeps
  <1>3. CASE /\ batch[b] = "generating" /\ batch'[b] = "failed"
             /\ \E j \in Of(b) : /\ job[j].state \in Active /\ ~Driven(j)
                                 /\ job[j].state \in {"queued", "generating"} \/ job[j].attempt = 0
    <2>1. PICK i \in Of(b) : /\ job[i].state \in Active /\ ~Driven(i)
                             /\ job[i].state \in {"queued", "generating"} \/ job[i].attempt = 0
      BY <1>3
    <2>2. i \in Jobs /\ i[1] = b /\ job[i].state \in {"queued", "generating"}
      BY <2>1 DEF Of, Versioned, Active
    <2>3. ASSUME NEW j \in Of(b), job[j].state \in {"queued", "generating"} PROVE Parks(job[j], job'[j])
      <3>1. j \in Jobs /\ j[1] = b /\ job[j].state \in Active
        BY <2>3 DEF Of, Active
      <3>2. CASE job[j].state = "generating"
        <4>1. ~Driven(j)
          BY <3>2 DEF Driven
        <4>. QED
          BY <1>0, <3>1, <4>1
      <3>3. CASE job[j].state = "queued"
        <4>1. job[i].state = "queued"
          BY <2>1, <2>2, <3>3 DEF BatchInv, Holds
        <4>2. Generate(b) \notin worker.pending
          BY <2>1, <2>2, <4>1 DEF Driven
        <4>3. ~Driven(j)
          BY <3>1, <3>3, <4>2 DEF Driven
        <4>. QED
          BY <1>0, <3>1, <4>3
      <3>. QED
        BY <2>3, <3>2, <3>3
    <2>4. \A j \in Of(b) : job'[j].state \notin {"queued", "generating"}
      BY <1>0, <2>3 DEF Parks, Of
    <2>5. ~Holds(b, "queued")' /\ ~Holds(b, "generating")'
      BY <2>4 DEF Holds, Of
    <2>. QED
      BY <1>1, <1>3, <2>5 DEF BatchInv
  <1>. QED
    BY <1>2, <1>3, RecoverRows

\* What the other actions make of the threads.
LEMMA OtherThreads ==
    ASSUME Typed,
           \/ \E t \in Threads :
                 \/ \E j \in Jobs : TakeAdvance(t, j) \/ Accepts(t, j)
                 \/ \E b \in Batches : BusyLost(t, b)
                 \/ HandOver(t) \/ HandOverRaises(t) \/ GenerationCrashes(t) \/ RefreshBatch(t)
                 \/ DriveStep(t, thread[t].j) \/ DriverEnds(t, thread[t].j)
           \/ WorkerDies \/ UNCHANGED thread
    PROVE  \A t \in Threads : StillThread(t)
  <1>. DEFINE Still == \A t \in Threads : StillThread(t)
  <1>0. ThreadsTyped
    BY DEF Typed
  <1>1. ASSUME NEW t \in Threads, OnlyThread(t), thread'[t].pc \notin Generating PROVE Still
    BY <1>1 DEF OnlyThread, StillThread
  <1>2. UNCHANGED thread => Still
    BY DEF StillThread
  <1>3. ASSUME NEW t \in Threads, OnlyThread(t), StillThread(t) PROVE Still
    BY <1>3 DEF OnlyThread, StillThread
  <1>. HIDE DEF Still
  <1>4. ASSUME NEW t \in Threads, NEW j \in Jobs, TakeAdvance(t, j) PROVE Still
    <2>. DEFINE x == [Idle EXCEPT !.pc = "loop", !.b = j[1], !.j = j]
    <2>1. x \in ThreadType /\ x.pc = "loop"
      BY BoundsAssumption DEF ThreadType, Idle
    <2>2. thread' = [thread EXCEPT ![t] = x]
      BY <1>4 DEF TakeAdvance
    <2>. HIDE DEF x
    <2>3. OnlyThread(t) /\ thread'[t].pc = "loop"
      BY <1>0, <2>1, <2>2, ThreadIs
    <2>. QED
      BY <1>1, <2>3 DEF Generating
  <1>5. ASSUME NEW t \in Threads, NEW j \in Jobs, Accepts(t, j) PROVE Still
    <2>1. thread[t].pc = "gen" /\ thread[t].claims = {}
      BY <1>0, <1>5 DEF Accepts, ThreadsTyped
    <2>. QED
      BY <1>2, <1>3, <1>5, <2>1 DEF Accepts, StillThread, Generating
  <1>6. ASSUME NEW t \in Threads, HandOver(t) PROVE Still
    <2>. DEFINE x == [thread[t] EXCEPT !.pc = "gen", !.j = None]
    <2>1. x \in ThreadType /\ x.pc = "gen" /\ x.b = thread[t].b /\ x.claims = thread[t].claims
      BY <1>0 DEF ThreadsTyped, ThreadType, Generating
    <2>2. thread' = [thread EXCEPT ![t] = x] /\ thread[t].pc = "ready"
      BY <1>0, <1>6 DEF HandOver, ThreadsTyped
    <2>. HIDE DEF x
    <2>3. OnlyThread(t) /\ thread'[t] = x
      BY <1>0, <2>1, <2>2, ThreadIs
    <2>. QED
      BY <1>3, <2>1, <2>2, <2>3 DEF StillThread, Generating
  <1>7. ASSUME NEW t \in Threads, HandOverRaises(t) PROVE Still
    <2>1. /\ OnlyThread(t) /\ thread'[t].pc = "undelivered" /\ thread'[t].b = thread[t].b
          /\ thread'[t].claims = thread[t].claims /\ thread[t].pc = "ready"
      BY <1>0, <1>7, ThreadGoes DEF HandOverRaises, Goto, Generating
    <2>. QED
      BY <1>3, <2>1 DEF StillThread, Generating
  <1>8. ASSUME NEW t \in Threads, GenerationCrashes(t) \/ RefreshBatch(t) PROVE Still
    <2>1. OnlyThread(t) /\ thread'[t].pc \notin Generating
      BY <1>0, <1>8, Finishes, IdleType DEF GenerationCrashes, RefreshBatch
    <2>. QED
      BY <1>1, <2>1
  <1>9. ASSUME NEW t \in Threads, DriveStep(t, thread[t].j) \/ DriverEnds(t, thread[t].j) PROVE Still
    <2>1. OnlyThread(t) /\ thread'[t].pc \notin Generating
      BY <1>9, IdleType DEF DriveStep, DriverEnds, Generating
    <2>. QED
      BY <1>1, <2>1
  <1>10. ASSUME WorkerDies PROVE Still
    BY <1>10, IdleType DEF WorkerDies, StillThread, Still
  <1>12. ASSUME NEW t \in Threads, NEW b \in Batches, BusyLost(t, b) PROVE Still
    BY <1>2, <1>12 DEF BusyLost
  <1>11. Still
    BY <1>2, <1>4, <1>5, <1>6, <1>7, <1>8, <1>9, <1>10, <1>12
  <1>. QED
    BY <1>11 DEF Still

\* The other actions.
LEMMA QuietBatchInv ==
    ASSUME Typed, Versioned, NEW b \in Batches, BatchInv(b),
           \/ \E w \in Web :
                 \/ \E chosen \in SUBSET Targets : CheckBatch(w, chosen)
                 \/ \E j \in Jobs : Revises(w, j)
                 \/ Enqueue(w) \/ DispatchRaises(w) \/ WebDies(w)
           \/ \E t \in Threads :
                 \/ \E j \in Jobs : TakeAdvance(t, j) \/ Accepts(t, j)
                 \/ \E c \in Batches : BusyLost(t, c)
                 \/ HandOver(t) \/ HandOverRaises(t) \/ GenerationCrashes(t) \/ RefreshBatch(t)
                 \/ DriveStep(t, thread[t].j) \/ DriverEnds(t, thread[t].j)
           \/ \E j \in Jobs : Decides(j)
           \/ \E J \in SUBSET Jobs : Stop(J)
           \/ \E c \in Batches : Redeliver(c)
           \/ WorkerDies \/ ReadPending \/ UNCHANGED vars
    PROVE  BatchInv(b)'
  <1>. DEFINE Still == \A t \in Threads : StillThread(t)
              Same == batch'[b] = batch[b] \/ (batch[b] = "running" /\ batch'[b] = "done")
  <1>0. RowsTyped /\ ThreadsTyped /\ Of(b) \subseteq Jobs
    BY DEF Typed, Of
  <1>1. SUFFICES Quiet(b)
    BY QuietKeeps
  <1>2. UNCHANGED job => StillRows(b)
    BY QuietParts
  <1>3. Same /\ doubted \subseteq doubted' /\ StillRows(b) /\ Still => Quiet(b)
    BY QuietParts
  <1>4. UNCHANGED thread => Still
    BY QuietParts
  <1>5. ASSUME NEW w \in Web,
               \/ \E chosen \in SUBSET Targets : CheckBatch(w, chosen)
               \/ Enqueue(w) \/ DispatchRaises(w) \/ WebDies(w)
        PROVE  Quiet(b)
    BY <1>2, <1>3, <1>4, <1>5 DEF CheckBatch, Enqueue, DispatchRaises, WebDies
  <1>6. ASSUME NEW w \in Web, NEW j \in Jobs, Revises(w, j) PROVE Quiet(b)
    <2>1. StillRows(b)
      BY <1>0, <1>6 DEF Revises, RowOnly, Open, Actionable, HumanGates, StillRows
    <2>. QED
      BY <1>3, <1>4, <1>6, <2>1 DEF Revises
  <1>7. ASSUME NEW t \in Threads,
                 \/ \E j \in Jobs : TakeAdvance(t, j)
                 \/ \E c \in Batches : BusyLost(t, c)
                 \/ HandOver(t) \/ HandOverRaises(t) \/ GenerationCrashes(t) \/ RefreshBatch(t)
        PROVE  Quiet(b)
    <2>1. Still
      BY <1>7, OtherThreads
    <2>2. Same
      BY <1>0, <1>7 DEF TakeAdvance, BusyLost, HandOver, HandOverRaises, GenerationCrashes, RefreshBatch, RowsTyped
    <2>. HIDE DEF Still, Same
    <2>. QED
      BY <1>2, <1>3, <1>7, <2>1, <2>2
         DEF TakeAdvance, BusyLost, HandOver, HandOverRaises, GenerationCrashes, RefreshBatch
  <1>8. ASSUME NEW t \in Threads, NEW j \in Jobs, Accepts(t, j) PROVE Quiet(b)
    <2>1. StillRows(b)
      BY <1>0, <1>8 DEF Accepts, RowOnly, StillRows
    <2>2. Still
      BY <1>8, OtherThreads
    <2>. QED
      BY <1>3, <1>8, <2>1, <2>2 DEF Accepts
  <1>9. ASSUME NEW t \in Threads, DriveStep(t, thread[t].j) PROVE Quiet(b)
    <2>1. Still
      BY <1>9, OtherThreads
    <2>2. \A j \in Jobs \ {thread[t].j} : job'[j] = job[j]
      BY <1>9 DEF DriveStep, RowOnly
    <2>3. LET j == thread[t].j
          IN  /\ job'[j].state \in {"queued", "generating"} => job'[j].state = job[j].state
              /\ job[j].state = "absent" => job'[j].state = "absent"
      BY <1>9 DEF DriveStep, Versioned, HumanGates, Active
    <2>4. StillRows(b)
      BY <1>0, <2>2, <2>3 DEF StillRows
    <2>. QED
      BY <1>3, <1>9, <2>1, <2>4 DEF DriveStep
  <1>10. ASSUME NEW t \in Threads, DriverEnds(t, thread[t].j) PROVE Quiet(b)
    <2>1. Still
      BY <1>10, OtherThreads
    <2>2. StillRows(b)
      BY <1>10, QuietParts DEF DriverEnds, RowOnly
    <2>. QED
      BY <1>3, <1>10, <2>1, <2>2 DEF DriverEnds
  <1>11. ASSUME NEW j \in Jobs, Decides(j) PROVE Quiet(b)
    <2>1. StillRows(b)
      BY <1>0, <1>11 DEF Decides, RowOnly, Decided, Open, Actionable, HumanGates, StillRows
    <2>. QED
      BY <1>3, <1>4, <1>11, <2>1 DEF Decides
  <1>12. ASSUME NEW J \in SUBSET Jobs, Stop(J) PROVE Quiet(b)
    <2>1. StillRows(b)
      BY <1>0, <1>12, StopRows DEF StillRows
    <2>. QED
      BY <1>3, <1>4, <1>12, <2>1 DEF Stop
  <1>13. CASE WorkerDies
    <2>1. Still
      BY <1>13, OtherThreads
    <2>. QED
      BY <1>2, <1>3, <1>13, <2>1 DEF WorkerDies
  <1>14. CASE (\E c \in Batches : Redeliver(c)) \/ ReadPending \/ UNCHANGED vars
    BY <1>2, <1>3, <1>4, <1>14 DEF Redeliver, ReadPending, vars
  <1>. QED
    BY <1>5, <1>6, <1>7, <1>8, <1>9, <1>10, <1>11, <1>12, <1>13, <1>14

LEMMA GateStep ==
    ASSUME Typed, GateHolds, [Next]_vars
    PROVE  GateHolds'
  <1>0. ThreadsTyped
    BY DEF Typed
  <1>1. (\A t \in Threads : thread'[t].pc \in Generating => thread[t].pc \in Generating) => GateHolds'
    BY DEF GateHolds
  <1>2. (\A t \in Threads : StillThread(t)) => GateHolds'
    BY <1>1 DEF StillThread
  <1>3. ASSUME NEW t \in Threads, OnlyThread(t), thread[t].pc \in Generating PROVE GateHolds'
    BY <1>1, <1>3 DEF OnlyThread
  <1>4. ASSUME NEW t \in Threads, NEW b \in Batches, Starts(t, b) PROVE GateHolds'
    BY <1>2, <1>4, OtherThreads DEF Starts, Begins, GateFree, OnlyThread, GateHolds
  <1>5. ASSUME NEW t \in Threads, Claims(t) \/ GenerationFails(t) \/ GenerationDone(t) PROVE GateHolds'
    <2>1. OnlyThread(t) /\ thread[t].pc \in Generating
      BY <1>0, <1>5, GenFailRows, ThreadGoes DEF Claims, GenerationDone, Goto, Generating
    <2>. QED
      BY <1>3, <2>1
  <1>6. CASE ThreadCases
    BY <1>2, <1>4, <1>5, <1>6, OtherThreads DEF ThreadCases
  <1>7. CASE Recover
    BY <1>2, <1>7, OtherThreads DEF Recover
  <1>. QED
    BY <1>2, <1>6, <1>7, StepCases, OtherThreads
       DEF WebCases, CheckBatch, CreateBatch, Revises, Enqueue, DispatchRaises, DispatchFailed, WebDies, Decides,
           Stop, Redeliver, ReadPending, vars

BatchesInv == Typed /\ Versioned /\ GateHolds /\ \A b \in Batches : BatchInv(b)

LEMMA BatchesStep == BatchesInv /\ [Next]_vars => BatchesInv'
  <1>. SUFFICES ASSUME BatchesInv, [Next]_vars PROVE BatchesInv'
    OBVIOUS
  <1>1. Typed /\ Versioned /\ GateHolds /\ Typed' /\ Versioned' /\ GateHolds'
    BY TypedRest, TypedRows, TypedThreads, TypedWeb, VersionedStep, GateStep DEF BatchesInv, Typed
  <1>2. ASSUME NEW b \in Batches PROVE BatchInv(b)'
    <2>0. BatchInv(b)
      BY DEF BatchesInv
    <2>1. ASSUME NEW w \in Web, NEW c \in Batches, CreateBatch(w, c) PROVE BatchInv(b)'
      BY <1>1, <2>0, <2>1, CreateBatchInv
    <2>2. ASSUME NEW w \in Web, DispatchFailed(w) PROVE BatchInv(b)'
      BY <1>1, <2>0, <2>2, DispatchBatchInv
    <2>3. ASSUME NEW t \in Threads, NEW c \in Batches, Starts(t, c) PROVE BatchInv(b)'
      BY <1>1, <2>0, <2>3, StartBatchInv
    <2>4. ASSUME NEW t \in Threads, GenerationFails(t) \/ GenerationDone(t) PROVE BatchInv(b)'
      BY <1>1, <2>0, <2>4, EndBatchInv
    <2>5. ASSUME NEW t \in Threads, Claims(t) PROVE BatchInv(b)'
      <3>1. BatchInv(thread[t].b)
        BY <2>5 DEF BatchesInv, Claims
      <3>. QED
        BY <1>1, <2>0, <2>5, <3>1, ClaimBatchInv
    <2>6. CASE Recover
      BY <1>1, <2>0, <2>6, RecoverBatchInv
    <2>7. CASE WebCases
      BY <1>1, <2>0, <2>1, <2>2, <2>7, QuietBatchInv DEF WebCases
    <2>8. CASE ThreadCases
      BY <1>1, <2>0, <2>3, <2>4, <2>5, <2>8, QuietBatchInv DEF ThreadCases
    <2>. QED
      BY <1>1, <2>0, <2>6, <2>7, <2>8, StepCases, QuietBatchInv
  <1>. QED
    BY <1>1, <1>2 DEF BatchesInv

LEMMA BatchesInit == Init => BatchesInv
  <1>. SUFFICES ASSUME Init PROVE BatchesInv
    OBVIOUS
  <1>1. /\ \A j \in Jobs : job[j].state = "absent"
        /\ \A t \in Threads : thread[t].pc = "idle"
        /\ \A b \in Batches : batch[b] = "absent"
    BY DEF Init, Absent, Idle
  <1>2. Versioned /\ GateHolds
    BY <1>1 DEF Versioned, GateHolds, Generating
  <1>3. \A b \in Batches : BatchInv(b)
    BY <1>1 DEF BatchInv, Holds, Of, Gen, Generating, Closed
  <1>. QED
    BY <1>2, <1>3, TypedInit DEF BatchesInv

\* No closed batch has a job that waits for the generation, or is in it: not
\* after a repeated message, a failed hand-over, a crash of the generation, a
\* stop, or a restart of the worker (start_generation, dispatch_failed,
\* recover_interrupted).  Except a batch that dispatch_failed closed although
\* its message had been stored and its generation had begun.
THEOREM BatchesAreGenerated == Spec => []ClosedBatchGenerated
  <1>1. BatchesInv => ClosedBatchGenerated
    BY DEF BatchesInv, BatchInv, ClosedBatchGenerated, Closed, Holds, In
  <1>. QED
    BY BatchesInit, BatchesStep, <1>1, PTL DEF Spec

-----------------------------------------------------------------------------
(* One task for a job, until somebody acts on it while a task is about.    *)

At(t, j) == Drives(t, j) \/ (thread[t].pc = "ready" /\ thread[t].j = j)
Sends(w, j) == web[w].pc = "advance" /\ web[w].j = j
Claimed(j) == \E t \in Threads : j \in thread[t].claims
Tasked(j) == Advance(j) \in queue \/ (\E t \in Threads : At(t, j)) \/ \E w \in Web : Sends(w, j)

Sole(j) ==
    /\ \A s, t \in Threads : At(s, j) /\ At(t, j) => s = t
    /\ \A v, w \in Web : Sends(v, j) /\ Sends(w, j) => v = w
    /\ \A t \in Threads : At(t, j) => Advance(j) \notin queue /\ \A w \in Web : ~Sends(w, j)
    /\ \A w \in Web : Sends(w, j) => Advance(j) \notin queue

\* No task is about for a job that is not generated, or that is about to be
\* claimed, and none is amid a step at a job that is decided.
Untouched(j) ==
    /\ job[j].state \in {"absent", "queued", "generating"} \/ Claimed(j) => ~Tasked(j)
    /\ job[j].state \in Decided => ~MidStep(j)

Reviewed(j) ==
    job[j].state = "awaiting_review" \/ (job[j].state = "approved" /\ ~job[j].noted) => job[j].check = "pass"

\* A driver at work on j knows its version, and has a round left.
Driving(t, j) ==
    thread[t].j = j =>
       /\ thread[t].pc = "execute" => thread[t].a = job[j].attempt
       /\ thread[t].pc = "repair" => job[j].rounds < MaxRounds

Undisturbed(j) ==
    Sole(j) /\ Untouched(j) /\ Reviewed(j) /\ job[j].rounds <= MaxRounds /\ \A t \in Threads : Driving(t, j)

DriverInv == \A j \in Jobs \ overtaken : Undisturbed(j)

LEMMA AttendedIs ==
    ASSUME NEW j
    PROVE  Attended(j) <=> Tasked(j) \/ Claimed(j)
  BY DEF Attended, Tasked, Claimed, At, Sends

\* No task for j begins.
Stays(j) ==
    /\ \A t \in Threads : At(t, j)' => At(t, j)
    /\ \A w \in Web : Sends(w, j)' => Sends(w, j)
    /\ Advance(j) \in queue' => Advance(j) \in queue

LEMMA StaysKeep ==
    ASSUME NEW j \in Jobs, Sole(j), Stays(j)
    PROVE  Sole(j)' /\ (Tasked(j)' => Tasked(j))
  <1>1. Advance(j)' = Advance(j)
    BY DEF Advance
  <1>. QED
    BY <1>1 DEF Sole, Stays, Tasked

LEMMA StaysParts ==
    ASSUME NEW j \in Jobs
    PROVE  /\ UNCHANGED thread => \A t \in Threads : At(t, j)' => At(t, j)
           /\ UNCHANGED web => \A w \in Web : Sends(w, j)' => Sends(w, j)
           /\ \A t \in Threads : OnlyThread(t) /\ (At(t, j)' => At(t, j)) => \A u \in Threads : At(u, j)' => At(u, j)
           /\ \A t \in Threads : thread'[t].pc \notin {"ready", "loop", "execute", "repair"} => ~At(t, j)'
           /\ \A w \in Web : \A pc, b, k :
                 WebGoes(w, pc, b, k) /\ (pc # "advance" \/ k # j) => \A v \in Web : Sends(v, j)' => Sends(v, j) /\ v # w
  <1>1. UNCHANGED thread => \A t \in Threads : At(t, j)' => At(t, j)
    BY DEF At, Drives
  <1>2. UNCHANGED web => \A w \in Web : Sends(w, j)' => Sends(w, j)
    BY DEF Sends
  <1>3. ASSUME NEW t \in Threads, OnlyThread(t), At(t, j)' => At(t, j), NEW u \in Threads, At(u, j)' PROVE At(u, j)
    BY <1>3 DEF OnlyThread, At, Drives
  <1>4. \A t \in Threads : thread'[t].pc \notin {"ready", "loop", "execute", "repair"} => ~At(t, j)'
    BY DEF At, Drives
  <1>5. ASSUME NEW w \in Web, NEW pc, NEW b, NEW k, WebGoes(w, pc, b, k), pc # "advance" \/ k # j,
               NEW v \in Web, Sends(v, j)'
        PROVE  Sends(v, j) /\ v # w
    BY <1>5 DEF WebGoes, Sends
  <1>. QED
    BY <1>1, <1>2, <1>3, <1>4, <1>5

\* The task of j passes on.
LEMMA TokenMoves ==
    ASSUME Typed, NEW j \in Jobs, Sole(j)
    PROVE  /\ \A w \in Web : Dispatch(w) => Sole(j)' /\ (Tasked(j)' => Tasked(j))
           /\ \A t \in Threads : HandOver(t) \/ HandOverRaises(t) => Sole(j)' /\ (Tasked(j)' => Tasked(j))
           /\ \A t \in Threads, k \in Jobs : TakeAdvance(t, k) => Sole(j)' /\ (Tasked(j)' => Tasked(j))
  <1>0. /\ ThreadsTyped /\ WebTyped /\ Advance(j)' = Advance(j)
        /\ \A k \in Jobs : Advance(k) = Advance(j) => k = j
        /\ \A b : Generate(b) # Advance(j)
    BY DEF Typed, Advance, Generate
  <1>1. ASSUME NEW w \in Web, Dispatch(w) PROVE Sole(j)' /\ (Tasked(j)' => Tasked(j))
    <2>1. /\ WebGoes(w, "idle", None, None) \/ WebGoes(w, "failing", web[w].b, web[w].j)
          /\ UNCHANGED thread
      BY <1>0, <1>1, WebMoves DEF Dispatch, Enqueue, DispatchRaises, DispatchFailed, WebDies
    <2>2. \A v \in Web : Sends(v, j)' => Sends(v, j) /\ v # w
      BY <2>1, StaysParts
    <2>3. \A t \in Threads : At(t, j)' => At(t, j)
      BY <2>1, StaysParts
    <2>4. Advance(j) \in queue' => Advance(j) \in queue \/ Sends(w, j)
      <3>1. CASE Enqueue(w) \/ DispatchRaises(w)
        <4>1. web[w].pc \in {"generate", "advance"}
          BY <3>1 DEF Enqueue, DispatchRaises
        <4>2. web[w].pc = "advance" => web[w].b = None /\ web[w].j \in Jobs
          BY <1>0, <4>1, RequestHas
        <4>3. web[w].pc = "generate" => web[w].b # None
          BY <1>0, <4>1, RequestHas
        <4>4. CASE web[w].pc = "generate"
          <5>1. Message(w) # Advance(j)
            BY <1>0, <4>3, <4>4 DEF Message
          <5>. QED
            BY <1>0, <3>1, <4>4, <5>1 DEF Enqueue, DispatchRaises
        <4>5. CASE web[w].pc = "advance"
          <5>1. Message(w) = Advance(web[w].j)
            BY <4>2, <4>5 DEF Message
          <5>2. queue' \subseteq queue \cup {Advance(web[w].j)}
            BY <3>1, <4>5, <5>1 DEF Enqueue, DispatchRaises
          <5>. QED
            BY <1>0, <4>2, <4>5, <5>2 DEF Sends
        <4>. QED
          BY <4>1, <4>4, <4>5
      <3>2. CASE DispatchFailed(w) \/ WebDies(w)
        BY <3>2 DEF DispatchFailed, WebDies
      <3>. QED
        BY <1>1, <3>1, <3>2 DEF Dispatch
    <2>. QED
      BY <1>0, <2>2, <2>3, <2>4 DEF Sole, Tasked
  <1>2. ASSUME NEW t \in Threads, HandOver(t) \/ HandOverRaises(t) PROVE Sole(j)' /\ (Tasked(j)' => Tasked(j))
    <2>1. /\ UNCHANGED web /\ thread[t].pc = "ready" /\ thread[t].j \in Jobs
          /\ queue' \in {queue, queue \cup {Advance(thread[t].j)}}
      BY <1>0, <1>2 DEF HandOver, HandOverRaises, ThreadsTyped
    <2>2. OnlyThread(t) /\ thread'[t].pc \in {"gen", "undelivered"}
      <3>1. CASE HandOver(t)
        <4>. DEFINE x == [thread[t] EXCEPT !.pc = "gen", !.j = None]
        <4>1. x \in ThreadType /\ x.pc = "gen"
          BY <1>0 DEF ThreadsTyped, ThreadType, Generating
        <4>2. thread' = [thread EXCEPT ![t] = x]
          BY <1>0, <3>1 DEF HandOver, ThreadsTyped
        <4>. HIDE DEF x
        <4>. QED
          BY <1>0, <4>1, <4>2, ThreadIs
      <3>2. CASE HandOverRaises(t)
        BY <1>0, <3>2, ThreadGoes DEF HandOverRaises, Goto, Generating
      <3>. QED
        BY <1>2, <3>1, <3>2
    <2>3. ~At(t, j)'
      BY <2>2, StaysParts
    <2>4. \A u \in Threads : At(u, j)' => At(u, j) /\ u # t
      BY <2>2, <2>3, StaysParts
    <2>5. Advance(j) \in queue' => Advance(j) \in queue \/ At(t, j)
      BY <1>0, <2>1 DEF At
    <2>6. \A w \in Web : Sends(w, j)' => Sends(w, j)
      BY <2>1, StaysParts
    <2>. QED
      BY <1>0, <2>4, <2>5, <2>6 DEF Sole, Tasked
  <1>3. ASSUME NEW t \in Threads, NEW k \in Jobs, TakeAdvance(t, k)
        PROVE  Sole(j)' /\ (Tasked(j)' => Tasked(j))
    <2>. DEFINE x == [Idle EXCEPT !.pc = "loop", !.b = k[1], !.j = k]
    <2>1. x \in ThreadType /\ x.j = k
      BY BoundsAssumption DEF ThreadType, Idle
    <2>2. /\ thread' = [thread EXCEPT ![t] = x] /\ UNCHANGED web
          /\ queue' = queue \ {Advance(k)} /\ Advance(k) \in queue
      BY <1>3 DEF TakeAdvance
    <2>. HIDE DEF x
    <2>3. OnlyThread(t) /\ thread'[t] = x
      BY <1>0, <2>1, <2>2, ThreadIs
    <2>6. \A w \in Web : Sends(w, j)' => Sends(w, j)
      BY <2>2, StaysParts
    <2>4. CASE k = j
      <3>1. Advance(j) \in queue /\ Advance(j) \notin queue'
        BY <2>2, <2>4
      <3>2. (\A u \in Threads : ~At(u, j)) /\ \A w \in Web : ~Sends(w, j)
        BY <3>1 DEF Sole
      <3>3. \A u \in Threads : At(u, j)' => u = t
        BY <2>3, <3>2 DEF OnlyThread, At, Drives
      <3>. QED
        BY <1>0, <2>6, <3>1, <3>2, <3>3 DEF Sole, Tasked
    <2>5. CASE k # j
      <3>1. ~At(t, j)'
        BY <2>1, <2>3, <2>5 DEF At, Drives
      <3>2. Stays(j)
        BY <2>2, <2>3, <2>6, <3>1, StaysParts DEF Stays
      <3>. QED
        BY <3>2, StaysKeep
    <2>. QED
      BY <2>4, <2>5
  <1>. QED
    BY <1>1, <1>2, <1>3

TaskBegins(j) == job'[j].state \in {"executing", "repairing"} /\ ~Claimed(j)'

\* A task begins at a job that has none, and makes it active.
LEMMA TokenBegins ==
    ASSUME Typed, GateHolds, NEW j \in Jobs, j \notin overtaken', Sole(j), Untouched(j)
    PROVE  /\ \A w \in Web, k \in Jobs : Revises(w, k) =>
                 Sole(j)' /\ ((Tasked(j)' => Tasked(j)) \/ TaskBegins(j))
           /\ \A t \in Threads, k \in Jobs : Accepts(t, k) =>
                 Sole(j)' /\ ((Tasked(j)' => Tasked(j)) \/ TaskBegins(j))
  <1>0. ThreadsTyped /\ WebTyped /\ Advance(j)' = Advance(j)
    BY DEF Typed, Advance
  <1>1. ASSUME NEW w \in Web, NEW k \in Jobs, Revises(w, k)
        PROVE  Sole(j)' /\ ((Tasked(j)' => Tasked(j)) \/ TaskBegins(j))
    <2>1. WebGoes(w, "advance", None, k) /\ UNCHANGED <<queue, thread>>
      BY <1>0, <1>1, WebMoves DEF Revises
    <2>2. \A t \in Threads : At(t, j)' => At(t, j)
      BY <2>1, StaysParts
    <2>3. CASE k # j
      <3>1. \A v \in Web : Sends(v, j)' => Sends(v, j)
        BY <2>1, <2>3, StaysParts
      <3>2. Stays(j)
        BY <2>1, <2>2, <3>1 DEF Stays
      <3>. QED
        BY <3>2, StaysKeep
    <2>4. CASE k = j
      <3>1. ~Tasked(j) /\ ~Claimed(j)
        BY <1>1, <2>4, AttendedIs DEF Revises, Overtake
      <3>2. \A v \in Web : Sends(v, j)' => v = w
        BY <2>1, <3>1 DEF WebGoes, Sends, Tasked
      <3>3. Sole(j)'
        BY <1>0, <2>1, <2>2, <3>1, <3>2 DEF Sole, Tasked
      <3>4. ~Claimed(j)'
        BY <2>1, <3>1 DEF Claimed
      <3>. QED
        BY <1>1, <2>4, <3>3, <3>4 DEF Revises, TaskBegins
    <2>. QED
      BY <2>3, <2>4
  <1>2. ASSUME NEW t \in Threads, NEW k \in Jobs, Accepts(t, k)
        PROVE  Sole(j)' /\ ((Tasked(j)' => Tasked(j)) \/ TaskBegins(j))
    <2>1. UNCHANGED <<queue, web>> /\ thread[t].pc = "gen"
      BY <1>2 DEF Accepts
    <2>2. \A w \in Web : Sends(w, j)' => Sends(w, j)
      BY <2>1, StaysParts
    <2>3. CASE UNCHANGED thread
      <3>1. Stays(j)
        BY <2>1, <2>2, <2>3, StaysParts DEF Stays
      <3>. QED
        BY <3>1, StaysKeep
    <2>4. CASE ~UNCHANGED thread
      <3>1. /\ OnlyThread(t) /\ thread'[t].pc = "ready" /\ thread'[t].j = k /\ thread'[t].claims = {}
            /\ job'[k].state = "executing" /\ job[k].state = "generating"
        BY <1>2, <2>4 DEF Accepts
      <3>2. CASE k # j
        <4>1. ~At(t, j)'
          BY <3>1, <3>2 DEF At, Drives
        <4>2. Stays(j)
          BY <2>1, <2>2, <3>1, <4>1, StaysParts DEF Stays
        <4>. QED
          BY <4>2, StaysKeep
      <3>3. CASE k = j
        <4>1. ~Tasked(j)
          BY <3>1, <3>3 DEF Untouched
        <4>2. \A u \in Threads : At(u, j)' => u = t
          BY <3>1, <4>1 DEF OnlyThread, At, Drives, Tasked
        <4>3. Sole(j)'
          BY <1>0, <2>1, <2>2, <4>1, <4>2 DEF Sole, Tasked
        <4>4. \A u \in Threads : thread[u].claims # {} => u = t
          BY <1>0, <2>1 DEF GateHolds, ThreadsTyped, Generating
        <4>5. ~Claimed(j)'
          BY <3>1, <4>4 DEF Claimed, OnlyThread
        <4>. QED
          BY <3>1, <3>3, <4>3, <4>5 DEF TaskBegins
      <3>. QED
        BY <3>2, <3>3
    <2>. QED
      BY <2>3, <2>4
  <1>. QED
    BY <1>1, <1>2

LEMMA TokenStep ==
    ASSUME Typed, GateHolds, [Next]_vars, NEW j \in Jobs, j \notin overtaken', Sole(j), Untouched(j)
    PROVE  Sole(j)' /\ ((Tasked(j)' => Tasked(j)) \/ TaskBegins(j))
  <1>. DEFINE Goal == Sole(j)' /\ ((Tasked(j)' => Tasked(j)) \/ TaskBegins(j))
  <1>0. /\ ThreadsTyped /\ WebTyped
        /\ \A b : Generate(b) # Advance(j)
    BY DEF Typed, Advance, Generate
  <1>1. Stays(j) => Goal
    BY StaysKeep
  <1>2. UNCHANGED <<queue, thread, web>> => Stays(j)
    BY StaysParts DEF Stays
  <1>3. ASSUME NEW t \in Threads, OnlyThread(t), At(t, j)' => At(t, j), queue' \subseteq queue, UNCHANGED web
        PROVE  Stays(j)
    BY <1>3, StaysParts DEF Stays
  <1>4. ASSUME NEW w \in Web,
               (\E chosen \in SUBSET Targets : CheckBatch(w, chosen)) \/ \E b \in Batches : CreateBatch(w, b)
        PROVE  Stays(j)
    <2>1. UNCHANGED <<queue, thread>>
      BY <1>4 DEF CheckBatch, CreateBatch
    <2>2. WebGoes(w, "create", None, None) \/ \E b \in Batches : WebGoes(w, "generate", b, None)
      BY <1>0, <1>4, WebMoves DEF CheckBatch, CreateBatch
    <2>3. \A v \in Web : Sends(v, j)' => Sends(v, j)
      BY <2>2, StaysParts
    <2>. QED
      BY <2>1, <2>3, StaysParts DEF Stays
  <1>5. ASSUME NEW w \in Web, Dispatch(w) PROVE Goal
    BY <1>5, TokenMoves
  <1>. HIDE DEF Goal
  <1>6. ASSUME WebCases PROVE Goal
    <2>1. ASSUME NEW w \in Web, NEW k \in Jobs, Revises(w, k) PROVE Goal
      BY <2>1, TokenBegins DEF Goal
    <2>. QED
      BY <1>1, <1>4, <1>5, <1>6, <2>1 DEF WebCases, Dispatch
  <1>7. ASSUME ThreadCases PROVE Goal
    <2>1. PICK t \in Threads :
             \/ \E b \in Batches : Starts(t, b) \/ BusyLost(t, b)
             \/ \E k \in Jobs : TakeAdvance(t, k) \/ Accepts(t, k)
             \/ Claims(t) \/ HandOver(t) \/ HandOverRaises(t)
             \/ GenerationFails(t) \/ GenerationCrashes(t) \/ GenerationDone(t) \/ RefreshBatch(t)
             \/ DriveStep(t, thread[t].j) \/ DriverEnds(t, thread[t].j)
      BY <1>7 DEF ThreadCases
    <2>2. ASSUME NEW b \in Batches, Starts(t, b) PROVE Goal
      <3>1. queue' \subseteq queue /\ UNCHANGED web
        BY <2>2 DEF Starts
      <3>2. CASE UNCHANGED thread
        BY <1>1, <3>1, <3>2, StaysParts DEF Stays
      <3>3. CASE OnlyThread(t) /\ thread'[t].pc \in {"claim", "refresh"}
        <4>1. ~At(t, j)'
          BY <3>3, StaysParts
        <4>. QED
          BY <1>1, <1>3, <3>1, <3>3, <4>1
      <3>. QED
        BY <2>2, <3>2, <3>3 DEF Starts, Begins
    <2>3. ASSUME NEW b \in Batches, BusyLost(t, b) PROVE Goal
      <3>1. queue' \subseteq queue /\ UNCHANGED <<thread, web>>
        BY <2>3 DEF BusyLost
      <3>. QED
        BY <1>1, <3>1, StaysParts DEF Stays
    <2>4. ASSUME NEW k \in Jobs, TakeAdvance(t, k) \/ Accepts(t, k) PROVE Goal
      BY <2>4, TokenMoves, TokenBegins DEF Goal
    <2>5. ASSUME HandOver(t) \/ HandOverRaises(t) PROVE Goal
      BY <2>5, TokenMoves DEF Goal
    <2>6. ASSUME OnlyThread(t), thread'[t].pc \in {"idle", "gen", "refresh"}, UNCHANGED <<queue, web>> PROVE Goal
      <3>1. ~At(t, j)'
        BY <2>6, StaysParts
      <3>. QED
        BY <1>1, <1>3, <2>6, <3>1
    <2>7. ASSUME GenerationFails(t) \/ GenerationCrashes(t) \/ RefreshBatch(t) \/ GenerationDone(t) PROVE Goal
      <3>1. /\ OnlyThread(t) /\ thread'[t].pc \in {"idle", "refresh"}
            /\ UNCHANGED <<queue, web>>
        BY <1>0, <2>7, Finishes, IdleType, ThreadGoes
           DEF GenerationFails, GenerationCrashes, RefreshBatch, GenerationDone, Goto
      <3>. QED
        BY <2>6, <3>1
    <2>8. ASSUME Claims(t) \/ DriverEnds(t, thread[t].j) PROVE Goal
      BY <2>6, <2>8, IdleType DEF Claims, DriverEnds
    <2>9. ASSUME DriveStep(t, thread[t].j) PROVE Goal
      <3>1. /\ OnlyThread(t) /\ UNCHANGED <<queue, web>> /\ thread[t].pc \in {"loop", "execute", "repair"}
            /\ thread'[t] = Idle \/ (thread'[t].j = thread[t].j
                                     /\ thread'[t].pc \in {"loop", "refresh", "execute", "repair"})
        BY <2>9 DEF DriveStep
      <3>2. At(t, j)' => At(t, j)
        BY <3>1, IdleType DEF At, Drives
      <3>. QED
        BY <1>1, <1>3, <3>1, <3>2
    <2>. QED
      BY <2>1, <2>2, <2>3, <2>4, <2>5, <2>7, <2>8, <2>9
  <1>8. ASSUME WorkerDies PROVE Goal
    <2>1. \A t \in Threads : ~At(t, j)'
      BY <1>8, IdleType DEF WorkerDies, At, Drives
    <2>2. Stays(j)
      BY <1>8, <2>1, StaysParts DEF WorkerDies, Stays
    <2>. QED
      BY <1>1, <2>2
  <1>9. ASSUME NEW b \in Batches, Redeliver(b) PROVE Goal
    <2>1. UNCHANGED <<thread, web>> /\ queue' = queue \cup {Generate(b)}
      BY <1>9 DEF Redeliver
    <2>2. Stays(j)
      BY <1>0, <2>1, StaysParts DEF Stays
    <2>. QED
      BY <1>1, <2>2
  <1>10. Goal
    BY <1>1, <1>2, <1>6, <1>7, <1>8, <1>9, StepCases DEF Decides, Stop, ReadPending, Recover, vars
  <1>. QED
    BY <1>10 DEF Goal


-----------------------------------------------------------------------------
(* What happens to the row of a job.                                       *)

\* A step that is not about this job's work.
Passes(j) ==
    /\ SameWork(job[j], job'[j])
    /\ \/ job'[j].state = job[j].state
       \/ job[j].state = "absent" /\ job'[j].state = "queued"
       \/ job[j].state \in Active /\ job'[j].state \in {"error", "needs_human", "stopped"}

\* The claim that writes it.
IsClaimed(j) ==
    /\ SameWork(job[j], job'[j]) /\ job'[j].state = "generating"
    /\ Claimed(j)

RowCases(j) ==
    \/ Passes(j) \/ IsClaimed(j)
    \/ \E w \in Web : Revises(w, j)
    \/ Decides(j)
    \/ \E t \in Threads : Accepts(t, j) \/ (DriveStep(t, j) /\ thread[t].j = j)

LEMMA RowCasesHold ==
    ASSUME BatchesInv, [Next]_vars, NEW j \in Jobs
    PROVE  RowCases(j)
  <1>0. Typed /\ RowsTyped /\ ThreadsTyped /\ WebTyped
    BY DEF BatchesInv, Typed
  <1>1. job'[j] = job[j] => Passes(j)
    BY DEF Passes, SameWork
  <1>2. job[j].state \in Active /\ Parks(job[j], job'[j]) => Passes(j)
    BY DEF Passes, Parks
  <1>3. SUFFICES ASSUME job'[j] # job[j] PROVE RowCases(j)
    BY <1>1 DEF RowCases
  <1>4. CASE WebCases
    <2>1. ASSUME NEW w \in Web, NEW b \in Batches, CreateBatch(w, b) PROVE Passes(j)
      <3>1. j \in Of(b) /\ job'[j].state = "queued" /\ SameWork(job[j], job'[j])
        BY <1>0, <1>3, <2>1, CreateRows
      <3>2. job[j].state = "absent"
        BY <2>1, <3>1 DEF BatchesInv, BatchInv, CreateBatch, Room
      <3>. QED
        BY <3>1, <3>2 DEF Passes
    <2>2. ASSUME NEW w \in Web, DispatchFailed(w) PROVE Passes(j)
      BY <1>0, <1>1, <1>2, <2>2, DispatchRows
    <2>3. ASSUME NEW w \in Web, NEW k \in Jobs, Revises(w, k) PROVE k = j
      BY <1>3, <2>3 DEF Revises, RowOnly
    <2>. QED
      BY <1>3, <1>4, <2>1, <2>2, <2>3 DEF WebCases, CheckBatch, Enqueue, DispatchRaises, WebDies, RowCases
  <1>5. CASE ThreadCases
    <2>1. PICK t \in Threads :
             \/ \E b \in Batches : Starts(t, b) \/ BusyLost(t, b)
             \/ \E k \in Jobs : TakeAdvance(t, k) \/ Accepts(t, k)
             \/ Claims(t) \/ HandOver(t) \/ HandOverRaises(t)
             \/ GenerationFails(t) \/ GenerationCrashes(t) \/ GenerationDone(t) \/ RefreshBatch(t)
             \/ DriveStep(t, thread[t].j) \/ DriverEnds(t, thread[t].j)
      BY <1>5 DEF ThreadCases
    <2>2. ASSUME NEW b \in Batches, Starts(t, b) PROVE Passes(j)
      <3>1. j \in Of(b) /\ job[j].state = "generating" /\ Parks(job[j], job'[j])
        BY <1>3, <2>2 DEF Starts
      <3>. QED
        BY <1>2, <3>1 DEF Active
    <2>3. CASE GenerationFails(t)
      BY <1>0, <1>1, <1>2, <2>3, GenFailRows DEF RowCases
    <2>4. ASSUME NEW k \in Jobs, Accepts(t, k) PROVE k = j
      BY <1>3, <2>4 DEF Accepts, RowOnly
    <2>5. CASE DriveStep(t, thread[t].j)
      <3>1. thread[t].j = j
        BY <1>3, <2>5 DEF DriveStep, RowOnly
      <3>. QED
        BY <2>5, <3>1 DEF RowCases
    <2>6. ASSUME Claims(t) PROVE IsClaimed(j)
      BY <1>3, <2>6 DEF Claims, IsClaimed, Claimed
    <2>7. ASSUME DriverEnds(t, thread[t].j) PROVE Passes(j)
      <3>1. thread[t].j = j
        BY <1>3, <2>7 DEF DriverEnds, RowOnly
      <3>. QED
        BY <1>1, <1>2, <2>7, <3>1 DEF DriverEnds
    <2>. QED
      BY <1>3, <2>1, <2>2, <2>3, <2>4, <2>5, <2>6, <2>7
         DEF BusyLost, TakeAdvance, HandOver, HandOverRaises, GenerationCrashes, GenerationDone, RefreshBatch, RowCases
  <1>6. CASE Recover
    BY <1>0, <1>1, <1>2, <1>6, RecoverRows DEF RowCases
  <1>7. ASSUME NEW J \in SUBSET Jobs, Stop(J) PROVE Passes(j)
    <2>1. /\ SameWork(job[j], job'[j])
          /\ job'[j].state = job[j].state \/ (job[j].state = "queued" /\ job'[j].state = "stopped")
      BY <1>0, <1>7, StopRows
    <2>. QED
      BY <2>1 DEF Passes, Active
  <1>8. ASSUME NEW k \in Jobs, Decides(k) PROVE k = j
    BY <1>3, <1>8 DEF Decides, RowOnly
  <1>. QED
    BY <1>0, <1>3, <1>4, <1>5, <1>6, <1>7, <1>8, StepCases
       DEF RowCases, Redeliver, WorkerDies, ReadPending, vars

\* What a thread holds after a step it held before, but for the claims of a
\* task that begins and the place of a driver that goes on.
ClaimsWhat(t, b) ==
    /\ thread'[t].pc = "claim" /\ thread'[t].claims = In({"queued"}, Of(b)) /\ UNCHANGED job

LEMMA PlaceIs ==
    ASSUME Typed, [Next]_vars, NEW t \in Threads
    PROVE  \/ thread'[t] = thread[t]
           \/ thread'[t].pc \notin {"execute", "repair"} /\ thread'[t].claims = {}
           \/ \E b \in Batches : ClaimsWhat(t, b)
           \/ DriveStep(t, thread[t].j)
  <1>. DEFINE Goal == \/ thread'[t] = thread[t]
                      \/ thread'[t].pc \notin {"execute", "repair"} /\ thread'[t].claims = {}
                      \/ \E b \in Batches : ClaimsWhat(t, b)
                      \/ DriveStep(t, thread[t].j)
  <1>0. ThreadsTyped
    BY DEF Typed
  <1>1. ASSUME NEW u \in Threads, OnlyThread(u), thread'[u].pc \notin {"execute", "repair"}, thread'[u].claims = {}
        PROVE  Goal
    BY <1>1 DEF OnlyThread
  <1>9. ASSUME UNCHANGED thread PROVE Goal
    BY <1>9
  <1>2. ASSUME ThreadCases PROVE Goal
    <2>1. PICK u \in Threads :
             \/ \E b \in Batches : Starts(u, b) \/ BusyLost(u, b)
             \/ \E k \in Jobs : TakeAdvance(u, k) \/ Accepts(u, k)
             \/ Claims(u) \/ HandOver(u) \/ HandOverRaises(u)
             \/ GenerationFails(u) \/ GenerationCrashes(u) \/ GenerationDone(u) \/ RefreshBatch(u)
             \/ DriveStep(u, thread[u].j) \/ DriverEnds(u, thread[u].j)
      BY <1>2 DEF ThreadCases
    <2>2. ASSUME NEW b \in Batches, Starts(u, b) PROVE Goal
      <3>1. \/ UNCHANGED thread
            \/ Begins(u, b, "claim", In({"queued"}, Of(b))) /\ UNCHANGED job
            \/ Begins(u, b, "refresh", {})
        BY <2>2 DEF Starts
      <3>2. ASSUME Begins(u, b, "claim", In({"queued"}, Of(b))), UNCHANGED job PROVE Goal
        <4>1. u = t => ClaimsWhat(t, b)
          BY <3>2 DEF Begins, ClaimsWhat
        <4>. QED
          BY <3>2, <4>1 DEF Begins, OnlyThread
      <3>. QED
        BY <1>1, <1>9, <3>1, <3>2 DEF Begins
    <2>3. ASSUME NEW k \in Jobs, TakeAdvance(u, k) PROVE Goal
      <3>. DEFINE x == [Idle EXCEPT !.pc = "loop", !.b = k[1], !.j = k]
      <3>1. x \in ThreadType /\ x.pc = "loop" /\ x.claims = {}
        BY BoundsAssumption DEF ThreadType, Idle
      <3>2. thread' = [thread EXCEPT ![u] = x]
        BY <2>3 DEF TakeAdvance
      <3>. HIDE DEF x
      <3>3. OnlyThread(u) /\ thread'[u] = x
        BY <1>0, <3>1, <3>2, ThreadIs
      <3>. QED
        BY <1>1, <3>1, <3>3
    <2>4. ASSUME NEW k \in Jobs, Accepts(u, k) PROVE Goal
      BY <1>1, <1>9, <2>4 DEF Accepts
    <2>5. ASSUME HandOver(u) PROVE Goal
      <3>. DEFINE x == [thread[u] EXCEPT !.pc = "gen", !.j = None]
      <3>1. x \in ThreadType /\ x.pc = "gen" /\ x.claims = {}
        BY <1>0, <2>5 DEF ThreadsTyped, ThreadType, HandOver, Generating
      <3>2. thread' = [thread EXCEPT ![u] = x]
        BY <1>0, <2>5 DEF HandOver, ThreadsTyped
      <3>. HIDE DEF x
      <3>3. OnlyThread(u) /\ thread'[u] = x
        BY <1>0, <3>1, <3>2, ThreadIs
      <3>. QED
        BY <1>1, <3>1, <3>3
    <2>6. ASSUME Finish(u) PROVE Goal
      <3>1. OnlyThread(u) /\ thread'[u] = Idle
        BY <1>0, <2>6, Finishes
      <3>. QED
        BY <1>1, <3>1, IdleType
    <2>7. ASSUME GenerationDone(u) \/ HandOverRaises(u) PROVE Goal
      <3>1. thread[u].claims = {}
        BY <1>0, <2>7 DEF ThreadsTyped, GenerationDone, HandOverRaises
      <3>2. OnlyThread(u) /\ thread'[u].claims = {} /\ thread'[u].pc \in {"refresh", "undelivered"}
        BY <1>0, <2>7, <3>1, ThreadGoes DEF GenerationDone, HandOverRaises, Goto, Generating
      <3>. QED
        BY <1>1, <3>2
    <2>8. ASSUME DriveStep(u, thread[u].j) PROVE Goal
      <3>1. u # t => thread'[t] = thread[t]
        BY <2>8 DEF DriveStep, OnlyThread
      <3>. QED
        BY <2>8, <3>1
    <2>9. ASSUME Claims(u) PROVE Goal
      BY <1>1, <2>9 DEF Claims
    <2>10. ASSUME DriverEnds(u, thread[u].j) PROVE Goal
      BY <1>1, <2>10, IdleType DEF DriverEnds
    <2>11. ASSUME NEW b \in Batches, BusyLost(u, b) PROVE Goal
      BY <1>9, <2>11 DEF BusyLost
    <2>. HIDE DEF Goal
    <2>. QED
      BY <2>1, <2>2, <2>3, <2>4, <2>5, <2>6, <2>7, <2>8, <2>9, <2>10, <2>11
         DEF GenerationFails, GenerationCrashes, RefreshBatch
  <1>3. ASSUME WorkerDies PROVE Goal
    BY <1>3, IdleType DEF WorkerDies
  <1>. HIDE DEF Goal
  <1>4. Goal
    BY <1>2, <1>3, <1>9, StepCases
       DEF WebCases, CheckBatch, CreateBatch, Revises, Enqueue, DispatchRaises, DispatchFailed, WebDies, Decides,
           Stop, Redeliver, ReadPending, Recover, vars
  <1>. QED
    BY <1>4 DEF Goal

\* A claim, and a step at a job, begin in the state they are for.
LEMMA MidStepIs ==
    ASSUME Typed, [Next]_vars, NEW j \in Jobs
    PROVE  /\ Claimed(j)' => Claimed(j) \/ (job[j].state = "queued" /\ job'[j] = job[j])
           /\ MidStep(j)' => \/ MidStep(j) \/ job'[j].state \in {"executing", "repairing"}
                             \/ job[j].state = "queued" /\ job'[j] = job[j]
  <1>1. ASSUME NEW t \in Threads, j \in thread'[t].claims
        PROVE  j \in thread[t].claims \/ (job[j].state = "queued" /\ job'[j] = job[j])
    <2>1. ~DriveStep(t, thread[t].j)
      BY <1>1 DEF DriveStep
    <2>2. ASSUME NEW b \in Batches, ClaimsWhat(t, b) PROVE job[j].state = "queued" /\ job'[j] = job[j]
      BY <1>1, <2>2 DEF ClaimsWhat, In
    <2>. QED
      BY <1>1, <2>1, <2>2, PlaceIs
  <1>2. ASSUME NEW t \in Threads, thread'[t].pc \in {"execute", "repair"}, thread'[t].j = j
        PROVE  (thread[t].pc \in {"execute", "repair"} /\ thread[t].j = j)
               \/ job'[j].state \in {"executing", "repairing"}
    <2>1. \A b \in Batches : ~ClaimsWhat(t, b)
      BY <1>2 DEF ClaimsWhat
    <2>2. ASSUME DriveStep(t, thread[t].j) PROVE job'[j].state \in {"executing", "repairing"}
      <3>1. thread[t].j = j
        BY <1>2, <2>2, IdleType DEF DriveStep
      <3>. QED
        BY <1>2, <2>2, <3>1 DEF DriveStep
    <2>. QED
      BY <1>2, <2>1, <2>2, PlaceIs
  <1>. QED
    BY <1>1, <1>2 DEF Claimed, MidStep

LEMMA OvertakenGrows ==
    ASSUME Typed, [Next]_vars
    PROVE  overtaken \subseteq overtaken'
  <1>1. WebCases => overtaken \subseteq overtaken'
    BY DEF WebCases, CheckBatch, CreateBatch, Revises, Overtake, Enqueue, DispatchRaises, DispatchFailed, WebDies
  <1>2. ThreadCases => overtaken \subseteq overtaken'
    BY DEF ThreadCases, Starts, BusyLost, TakeAdvance, Accepts, Claims, HandOver, HandOverRaises, GenerationFails,
           GenerationCrashes, GenerationDone, RefreshBatch, DriveStep, DriverEnds
  <1>. QED
    BY <1>1, <1>2, StepCases
       DEF Decides, Overtake, Stop, Redeliver, WorkerDies, ReadPending, Recover, vars

-----------------------------------------------------------------------------
(* A step at a job nobody overtook.                                        *)

LEMMA UntouchedStep ==
    ASSUME BatchesInv, [Next]_vars, NEW j \in Jobs, j \notin overtaken', Undisturbed(j)
    PROVE  Sole(j)' /\ Untouched(j)'
  <1>0. Typed /\ GateHolds /\ Sole(j) /\ Untouched(j) /\ RowCases(j)
    BY RowCasesHold DEF BatchesInv, Undisturbed
  <1>1. Sole(j)' /\ ((Tasked(j)' => Tasked(j)) \/ TaskBegins(j))
    BY <1>0, TokenStep
  <1>2. /\ Claimed(j)' => Claimed(j) \/ (job[j].state = "queued" /\ job'[j] = job[j])
        /\ MidStep(j)' => \/ MidStep(j) \/ job'[j].state \in {"executing", "repairing"}
                          \/ job[j].state = "queued" /\ job'[j] = job[j]
    BY <1>0, MidStepIs
  <1>3. ASSUME job'[j].state \in {"absent", "queued", "generating"} \/ Claimed(j)', Tasked(j)'
        PROVE  FALSE
    <2>1. Tasked(j)
      BY <1>1, <1>3 DEF TaskBegins
    <2>2. job[j].state \notin {"absent", "queued", "generating"} /\ ~Claimed(j)
      BY <1>0, <2>1 DEF Untouched
    <2>3. job'[j].state \in {"absent", "queued", "generating"}
      BY <1>2, <1>3, <2>2
    <2>4. ~Passes(j) /\ ~IsClaimed(j)
      BY <2>2, <2>3 DEF Passes, IsClaimed
    <2>5. (\A w \in Web : ~Revises(w, j)) /\ ~Decides(j)
      BY <2>3 DEF Revises, Decides, Decided
    <2>6. \A t \in Threads : ~Accepts(t, j) /\ ~DriveStep(t, j)
      BY <2>2, <2>3 DEF Accepts, DriveStep, HumanGates
    <2>. QED
      BY <1>0, <2>4, <2>5, <2>6 DEF RowCases
  <1>4. ASSUME job'[j].state \in Decided, MidStep(j)'
        PROVE  FALSE
    <2>1. MidStep(j)
      BY <1>2, <1>4 DEF Decided
    <2>2. job[j].state \notin Decided
      BY <1>0, <2>1 DEF Untouched
    <2>3. ~Passes(j) /\ ~IsClaimed(j)
      BY <1>4, <2>2 DEF Passes, IsClaimed, Decided
    <2>4. (\A w \in Web : ~Revises(w, j)) /\ ~Decides(j)
      BY <1>4, <2>1 DEF Revises, Decides, Decided, Overtake
    <2>5. \A t \in Threads : ~Accepts(t, j) /\ ~DriveStep(t, j)
      BY <1>4, <2>2 DEF Accepts, DriveStep, HumanGates, Decided
    <2>. QED
      BY <1>0, <2>3, <2>4, <2>5 DEF RowCases
  <1>. QED
    BY <1>1, <1>3, <1>4 DEF Untouched

LEMMA ReviewedStep ==
    ASSUME BatchesInv, [Next]_vars, NEW j \in Jobs, Undisturbed(j)
    PROVE  Reviewed(j)' /\ job'[j].rounds <= MaxRounds
  <1>. DEFINE Goal == Reviewed(j)' /\ job'[j].rounds <= MaxRounds
  <1>0. Untouched(j) /\ Reviewed(j) /\ job[j].rounds <= MaxRounds /\ RowCases(j)
    BY RowCasesHold DEF Undisturbed
  <1>1. ASSUME Passes(j) \/ IsClaimed(j) PROVE Goal
    BY <1>0, <1>1 DEF Passes, IsClaimed, SameWork, Reviewed
  <1>2. ASSUME NEW w \in Web, Revises(w, j) PROVE Goal
    BY <1>0, <1>2 DEF Revises, Reviewed
  <1>3. ASSUME Decides(j) PROVE Goal
    <2>1. job'[j].state = "approved" /\ ~job'[j].noted => job[j].check = "pass"
      BY <1>0, <1>3 DEF Decides, Reviewed
    <2>. QED
      BY <1>0, <1>3, <2>1 DEF Decides, Decided, Reviewed
  <1>4. ASSUME NEW t \in Threads, Accepts(t, j) PROVE Goal
    BY <1>0, <1>4 DEF Accepts, Reviewed
  <1>5. ASSUME NEW t \in Threads, DriveStep(t, j), thread[t].j = j PROVE Goal
    <2>1. /\ thread[t].pc = "execute" => thread[t].a = job[j].attempt
          /\ thread[t].pc = "repair" => job[j].rounds < MaxRounds
      BY <1>5 DEF Undisturbed, Driving
    <2>2. MaxRounds \in Nat /\ job[j].rounds \in Nat
      BY BoundsAssumption DEF BatchesInv, Typed, RowsTyped, JobType
    <2>3. job'[j].rounds <= MaxRounds
      BY <1>0, <1>5, <2>1, <2>2 DEF DriveStep
    <2>4. job'[j].state = "awaiting_review" => job'[j].check = "pass"
      BY <1>0, <1>5, <2>1 DEF DriveStep, Reviewed
    <2>5. job'[j].state = "approved" => job[j].state = "approved" /\ SameWork(job[j], job'[j])
      <3>1. HAVE job'[j].state = "approved"
      <3>2. job[j].state = "approved"
        BY <1>5, <3>1 DEF DriveStep, HumanGates
      <3>3. thread[t].pc \notin {"execute", "repair"}
        BY <1>0, <1>5, <3>2 DEF Untouched, Decided, MidStep
      <3>. QED
        BY <1>5, <3>2, <3>3 DEF DriveStep
    <2>. QED
      BY <1>0, <2>3, <2>4, <2>5 DEF Reviewed, SameWork
  <1>. HIDE DEF Goal
  <1>6. Goal
    BY <1>0, <1>1, <1>2, <1>3, <1>4, <1>5 DEF RowCases
  <1>. QED
    BY <1>6 DEF Goal

LEMMA DrivingStep ==
    ASSUME BatchesInv, [Next]_vars, NEW j \in Jobs, j \notin overtaken', Undisturbed(j), NEW t \in Threads
    PROVE  Driving(t, j)'
  <1>0. Typed /\ Sole(j) /\ Untouched(j) /\ Driving(t, j) /\ RowCases(j)
    BY RowCasesHold DEF BatchesInv, Undisturbed
  <1>1. SUFFICES ASSUME thread'[t].j = j, thread'[t].pc \in {"execute", "repair"}
                 PROVE  /\ thread'[t].pc = "execute" => thread'[t].a = job'[j].attempt
                        /\ thread'[t].pc = "repair" => job'[j].rounds < MaxRounds
    BY DEF Driving
  <1>2. \A b \in Batches : ~ClaimsWhat(t, b)
    BY <1>1 DEF ClaimsWhat
  <1>3. CASE DriveStep(t, thread[t].j)
    <2>1. thread[t].j = j
      BY <1>1, <1>3, IdleType DEF DriveStep
    <2>. QED
      BY <1>1, <1>3, <2>1 DEF DriveStep
  <1>4. CASE thread'[t] = thread[t] /\ ~DriveStep(t, thread[t].j)
    <2>1. thread[t].j = j /\ At(t, j) /\ Tasked(j) /\ MidStep(j)
      BY <1>1, <1>4 DEF At, Drives, Tasked, MidStep
    <2>2. \A w \in Web : ~Revises(w, j)
      BY <2>1, AttendedIs DEF Revises, Overtake
    <2>3. ~Decides(j)
      BY <2>1 DEF Decides, Overtake
    <2>4. \A u \in Threads : ~Accepts(u, j)
      BY <1>0, <2>1 DEF Accepts, Untouched
    <2>5. \A u \in Threads : ~(DriveStep(u, j) /\ thread[u].j = j)
      <3>1. ASSUME NEW u \in Threads, DriveStep(u, j), thread[u].j = j PROVE FALSE
        <4>1. At(u, j)
          BY <3>1 DEF DriveStep, At, Drives
        <4>2. u = t
          BY <1>0, <2>1, <4>1 DEF Sole
        <4>. QED
          BY <1>4, <3>1, <4>2
      <3>. QED
        BY <3>1
    <2>6. SameWork(job[j], job'[j])
      BY <1>0, <2>2, <2>3, <2>4, <2>5 DEF RowCases, Passes, IsClaimed
    <2>. QED
      BY <1>0, <1>1, <1>4, <2>1, <2>6 DEF Driving, SameWork
  <1>. QED
    BY <1>0, <1>1, <1>2, <1>3, <1>4, PlaceIs

LEMMA DriverStepInv ==
    ASSUME BatchesInv, DriverInv, [Next]_vars
    PROVE  DriverInv'
  <1>1. ASSUME NEW j \in Jobs, j \notin overtaken'
        PROVE  Undisturbed(j)'
    <2>1. Undisturbed(j)
      BY <1>1, OvertakenGrows DEF DriverInv, BatchesInv
    <2>2. Sole(j)' /\ Untouched(j)'
      BY <1>1, <2>1, UntouchedStep
    <2>3. Reviewed(j)' /\ job'[j].rounds <= MaxRounds
      BY <2>1, ReviewedStep
    <2>4. \A t \in Threads : Driving(t, j)'
      BY <1>1, <2>1, DrivingStep
    <2>. QED
      BY <2>2, <2>3, <2>4 DEF Undisturbed
  <1>. QED
    BY <1>1 DEF DriverInv

LEMMA DriverInit == Init => DriverInv
  <1>. SUFFICES ASSUME Init PROVE DriverInv
    OBVIOUS
  <1>1. /\ \A j \in Jobs : job[j].state = "absent" /\ job[j].rounds = 0
        /\ \A t \in Threads : thread[t].pc = "idle" /\ thread[t].j = None /\ thread[t].claims = {}
        /\ \A w \in Web : web[w].pc = "idle"
        /\ queue = {}
        /\ None \notin Jobs
    BY NoneAssumption DEF Init, Absent, Idle, NoRequest
  <1>2. \A j \in Jobs : Sole(j) /\ Untouched(j)
    BY <1>1 DEF Sole, Untouched, Tasked, At, Drives, Sends, Decided
  <1>3. \A j \in Jobs : Reviewed(j) /\ job[j].rounds <= MaxRounds
    BY <1>1, BoundsAssumption DEF Reviewed
  <1>4. \A j \in Jobs, t \in Threads : Driving(t, j)
    BY <1>1 DEF Driving
  <1>. QED
    BY <1>2, <1>3, <1>4 DEF DriverInv, Undisturbed

LEMMA DriverInvHolds == Spec => [](BatchesInv /\ DriverInv)
  <1>1. Init => BatchesInv /\ DriverInv
    BY BatchesInit, DriverInit
  <1>2. BatchesInv /\ DriverInv /\ [Next]_vars => (BatchesInv /\ DriverInv)'
    BY BatchesStep, DriverStepInv
  <1>. QED
    BY <1>1, <1>2, PTL DEF Spec

-----------------------------------------------------------------------------

\* Every variable has its type, and no job spends more repair rounds than its
\* configuration allows (_host_next_state, _step_repair), except a job that
\* somebody acted on while a task was about it.
THEOREM TypesHold == Spec => []TypeOK
  <1>1. BatchesInv /\ DriverInv => TypeOK
    <2>. SUFFICES ASSUME BatchesInv, DriverInv PROVE TypeOK
      OBVIOUS
    <2>1. RowsTyped /\ ThreadsTyped /\ WebTyped /\ RestTyped
      BY DEF BatchesInv, Typed
    <2>2. \A j \in Jobs \ overtaken : job[j].rounds <= MaxRounds
      BY DEF DriverInv, Undisturbed
    <2>. QED
      BY <2>1, <2>2
         DEF TypeOK, RowsTyped, JobType, BatchStates, ThreadsTyped, ThreadType, WebTyped, WebType, RestTyped, BudgetType
  <1>. QED
    BY <1>1, DriverInvHolds, PTL

\* What waits for review has the passing evidence of its version, and so has
\* what is approved without a note (_execute, _evidence, review), except a
\* job that somebody acted on while a task was about it.
THEOREM ReviewsRestOnEvidence == Spec => []ReviewedOnEvidence
  <1>1. DriverInv => ReviewedOnEvidence
    BY DEF DriverInv, Undisturbed, Reviewed, ReviewedOnEvidence
  <1>. QED
    BY <1>1, DriverInvHolds, PTL

LEMMA AtMostOne ==
    ASSUME NEW S, \A x, y \in S : x = y
    PROVE  IF S = {} THEN Cardinality(S) = 0 ELSE Cardinality(S) = 1
  <1>1. CASE S = {}
    BY <1>1, FS_EmptySet
  <1>2. CASE S # {}
    <2>1. PICK x \in S : S = {x}
      BY <1>2
    <2>2. Cardinality({x}) = 1
      BY FS_Singleton
    <2>. QED
      BY <1>2, <2>1, <2>2
  <1>. QED
    BY <1>1, <1>2

\* One task at most is about for a job: a message, a driver, or a request
\* that will send one (start_advance, the routes' dispatch), until a person
\* revives the job while one is about.
THEOREM DriversAreAlone == Spec => []SoleDriver
  <1>1. DriverInv => SoleDriver
    <2>. SUFFICES ASSUME DriverInv, NEW j \in Jobs \ overtaken
                  PROVE  Cardinality({t \in Threads : Drives(t, j) \/ (thread[t].pc = "ready" /\ thread[t].j = j)}) +
                         Cardinality({w \in Web : web[w].pc = "advance" /\ web[w].j = j}) +
                         (IF Advance(j) \in queue THEN 1 ELSE 0) <= 1
      BY DEF SoleDriver
    <2>. DEFINE T == {t \in Threads : At(t, j)}
                W == {w \in Web : Sends(w, j)}
    <2>1. Sole(j)
      BY DEF DriverInv, Undisturbed
    <2>2. (\A x, y \in T : x = y) /\ (\A x, y \in W : x = y)
      BY <2>1 DEF Sole
    <2>3. /\ T # {} => W = {} /\ Advance(j) \notin queue
          /\ W # {} => Advance(j) \notin queue
      BY <2>1 DEF Sole
    <2>. HIDE DEF T, W
    <2>4. IF T = {} THEN Cardinality(T) = 0 ELSE Cardinality(T) = 1
      BY <2>2, AtMostOne
    <2>5. IF W = {} THEN Cardinality(W) = 0 ELSE Cardinality(W) = 1
      BY <2>2, AtMostOne
    <2>6. Cardinality(T) + Cardinality(W) + (IF Advance(j) \in queue THEN 1 ELSE 0) <= 1
      BY <2>3, <2>4, <2>5
    <2>. QED
      BY <2>6 DEF T, W, At, Sends
  <1>. QED
    BY <1>1, DriverInvHolds, PTL

\* No driver, generation, stop, recovery or new version changes the state of
\* a decided job (_locked_job, advance_job), unless a claim or a step of a
\* driver was under way when the reviewer decided, or a person had acted on
\* the job while a task was about it.
THEOREM DecisionsStand == Spec => UndisturbedDecisionStands
  <1>1. BatchesInv /\ DriverInv /\ [Next]_vars =>
           [\A j \in Jobs \ overtaken : job[j].state \in Decided => job'[j].state = job[j].state]_vars
    <2>. SUFFICES ASSUME BatchesInv, DriverInv, [Next]_vars, NEW j \in Jobs, j \notin overtaken,
                         job[j].state \in Decided
                  PROVE  job'[j].state = job[j].state
      OBVIOUS
    <2>1. Untouched(j) /\ RowCases(j)
      BY RowCasesHold DEF DriverInv, Undisturbed
    <2>2. ~MidStep(j)
      BY <2>1 DEF Untouched
    <2>3. Passes(j) => job'[j].state = job[j].state
      BY DEF Passes, Decided, Active
    <2>4. ~IsClaimed(j)
      BY <2>2 DEF IsClaimed, Claimed, MidStep
    <2>5. (\A w \in Web : ~Revises(w, j)) /\ ~Decides(j) /\ \A t \in Threads : ~Accepts(t, j)
      BY DEF Revises, Decides, Accepts, Open, Decided, Actionable, HumanGates
    <2>6. ASSUME NEW t \in Threads, DriveStep(t, j), thread[t].j = j PROVE job'[j].state = job[j].state
      <3>1. thread[t].pc \notin {"execute", "repair"}
        BY <2>2, <2>6 DEF MidStep
      <3>. QED
        BY <2>6, <3>1 DEF DriveStep, Active, Decided
    <2>. QED
      BY <2>1, <2>3, <2>4, <2>5, <2>6 DEF RowCases
  <1>. QED
    BY <1>1, DriverInvHolds, PTL DEF Spec, UndisturbedDecisionStands

=============================================================================
