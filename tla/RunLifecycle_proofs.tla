------------------------ MODULE RunLifecycle_proofs ------------------------
(***************************************************************************)
(* Proofs about RunLifecycle, for any number of workers, requests,         *)
(* attempts, faults and licences.                                          *)
(***************************************************************************)
EXTENDS RunLifecycle, FiniteSetTheorems, TLAPS

USE DEF history

(* What worker w knows at each point of run_task.  Attempts only move on, so *)
(* an outcome that was not sealed for the worker's own attempt was sealed   *)
(* for a later one, and finalise_attempt will refuse.                       *)
Placed(w) ==
    /\ worker[w].pc \in {"idle", "waiting", "marking", "licensed", "claimed",
                         "starting", "running", "stopping"}
          => worker[w].target = 0
    /\ Executing(w) \/ worker[w].pc \in {"finalising", "untrusted"}
          => worker[w].attempt \in Attempts
    /\ worker[w].pc \in {"running", "stopping", "sealing", "committing"}
          => worker[w].dir \in Attempts
    /\ worker[w].pc \in {"sealing", "committing"} => worker[w].verdict \in Final
    /\ worker[w].attempt <= task.run
    /\ worker[w].pc = "sealing" => worker[w].target \in {0, worker[w].attempt}
    /\ worker[w].pc = "committing" =>
          /\ worker[w].target \in Attempts /\ Sealed(worker[w].target)
          /\ worker[w].target = worker[w].attempt \/ worker[w].attempt < task.run
    /\ worker[w].pc = "finalising" =>
          evidence[worker[w].attempt].digest \/ worker[w].attempt < task.run

(* A digest is only bound to an outcome, and the periodic scan only picks    *)
(* attempts with a digest.                                                   *)
Trusted ==
    /\ \A a \in Attempts : evidence[a].digest => Sealed(a)
    /\ recovery.mode = "up" /\ recovery.pick # None => evidence[recovery.pick].digest

TypeInv ==
    /\ TypeOK
    /\ \A w \in Workers : Placed(w)
    /\ Trusted

LEMMA InitTypeInv == Init => TypeInv
<1> SUFFICES ASSUME Init PROVE TypeInv
  OBVIOUS
<1> USE BoundsAssumption DEF Init, Attempts
<1>1. TypeOK
  BY DEF TypeOK, TaskType, EvidenceType, WorkerType, RequestType, Idle, Ready,
         Pinned, Final, Phases
<1>2. \A w \in Workers : Placed(w)
  BY DEF Placed, Idle, Executing
<1>3. Trusted
  BY DEF Trusted, Pinned, Sealed
<1> QED
  BY <1>1, <1>2, <1>3 DEF TypeInv

-----------------------------------------------------------------------------
(* What one worker's move, and one finalisation, does to the variables.    *)

Move(w, pc, attempt, dir, target, verdict) ==
    /\ worker' \in [Workers -> WorkerType]
    /\ \A v \in Workers : v # w => worker'[v] = worker[v]
    /\ worker'[w].pc = pc /\ worker'[w].attempt = attempt /\ worker'[w].dir = dir
    /\ worker'[w].target = target /\ worker'[w].verdict = verdict

Keep(w, pc) ==
    Move(w, pc, worker[w].attempt, worker[w].dir, worker[w].target, worker[w].verdict)
Reset(w) == Move(w, "idle", 0, 0, 0, None)

LEMMA GotoMoves ==
    ASSUME TypeOK, NEW w \in Workers, NEW pc \in Phases, Goto(w, pc)
    PROVE  Keep(w, pc)
  BY DEF Goto, TypeOK, WorkerType, Keep, Move

LEMMA IdleMoves ==
    ASSUME TypeOK, NEW w \in Workers, worker' = [worker EXCEPT ![w] = Idle]
    PROVE  Reset(w)
<1>1. Idle \in WorkerType
  BY BoundsAssumption DEF Idle, WorkerType, Phases
<1> QED
  BY <1>1 DEF TypeOK, Reset, Move, Idle

LEMMA ReceiveMoves ==
    ASSUME TypeOK, NEW w \in Workers, NEW a \in 0 .. MaxRuns,
           worker' = [worker EXCEPT ![w].pc = "waiting", ![w].expected = a]
    PROVE  Keep(w, "waiting")
  BY DEF TypeOK, WorkerType, Keep, Move, Phases

LEMMA BeginMoves ==
    ASSUME TypeOK, NEW w \in Workers, NEW a \in 0 .. MaxRuns, NEW pc \in Phases,
           worker' = [worker EXCEPT ![w].pc = pc, ![w].attempt = a]
    PROVE  Move(w, pc, a, worker[w].dir, worker[w].target, worker[w].verdict)
  BY DEF TypeOK, WorkerType, Move

LEMMA CancelledMoves ==
    ASSUME TypeOK, NEW w \in Workers, NEW a \in 0 .. MaxRuns,
           worker' = [[worker EXCEPT ![w].pc = "sealing", ![w].attempt = a]
                      EXCEPT ![w].dir = a, ![w].target = a, ![w].verdict = "cancelled"]
    PROVE  Move(w, "sealing", a, a, a, "cancelled")
<1> DEFINE begun == [worker EXCEPT ![w].pc = "sealing", ![w].attempt = a]
           placed == [begun EXCEPT ![w].dir = a, ![w].target = a]
<1>1. /\ begun \in [Workers -> WorkerType]
      /\ \A v \in Workers : v # w => begun[v] = worker[v]
      /\ begun[w].pc = "sealing" /\ begun[w].attempt = a
  BY DEF TypeOK, WorkerType, Phases
<1>2. worker' = [placed EXCEPT ![w].verdict = "cancelled"]
  OBVIOUS
<1> HIDE DEF begun
<1>3. /\ placed \in [Workers -> WorkerType]
      /\ \A v \in Workers : v # w => placed[v] = worker[v]
      /\ placed[w].pc = "sealing" /\ placed[w].attempt = a
      /\ placed[w].dir = a /\ placed[w].target = a
  BY <1>1 DEF WorkerType
<1> HIDE DEF placed
<1>4. worker' \in [Workers -> WorkerType]
  <2>1. "cancelled" \in {None} \cup Final
    BY DEF Final
  <2>2. [placed[w] EXCEPT !.verdict = "cancelled"] \in WorkerType
    BY <1>3, <2>1 DEF WorkerType
  <2> QED BY <1>2, <1>3, <2>2
<1>5. worker'[w] = [placed[w] EXCEPT !.verdict = "cancelled"]
  BY <1>2, <1>3
<1>6. \A v \in Workers : v # w => worker'[v] = worker[v]
  BY <1>2, <1>3
<1> QED
  BY <1>3, <1>4, <1>5, <1>6 DEF WorkerType, Move

LEMMA BackendMoves ==
    ASSUME TypeOK, NEW w \in Workers, NEW a \in 0 .. MaxRuns,
           worker' = [worker EXCEPT ![w].pc = "running", ![w].dir = a]
    PROVE  Move(w, "running", worker[w].attempt, a, worker[w].target, worker[w].verdict)
  BY DEF TypeOK, WorkerType, Move, Phases

LEMMA SealMoves ==
    ASSUME TypeOK, NEW w \in Workers, NEW a \in 0 .. MaxRuns,
           worker' = [worker EXCEPT ![w].pc = "committing", ![w].target = a]
    PROVE  Move(w, "committing", worker[w].attempt, worker[w].dir, a, worker[w].verdict)
  BY DEF TypeOK, WorkerType, Move, Phases

LEMMA UnwoundMoves ==
    ASSUME TypeOK, NEW w \in Workers, NEW pc \in Phases, NEW a \in 0 .. MaxRuns,
           worker' = [worker EXCEPT ![w] = Unwound(w, pc, a)]
    PROVE  Move(w, pc, a, 0, 0, None)
<1>1. worker[w].expected \in 0 .. MaxRuns /\ Idle \in WorkerType
  BY BoundsAssumption DEF TypeOK, WorkerType, Idle, Phases
<1>2. /\ Unwound(w, pc, a) \in WorkerType
      /\ Unwound(w, pc, a).pc = pc /\ Unwound(w, pc, a).attempt = a
      /\ Unwound(w, pc, a).dir = Idle.dir /\ Unwound(w, pc, a).target = Idle.target
      /\ Unwound(w, pc, a).verdict = Idle.verdict
  BY <1>1 DEF Unwound, WorkerType
<1>3. Idle.dir = 0 /\ Idle.target = 0 /\ Idle.verdict = None
  BY DEF Idle
<1> HIDE DEF Unwound
<1>4. /\ worker' \in [Workers -> WorkerType] /\ worker'[w] = Unwound(w, pc, a)
      /\ \A v \in Workers : v # w => worker'[v] = worker[v]
  BY <1>2 DEF TypeOK
<1> QED
  BY <1>2, <1>3, <1>4 DEF Move

\* What Breaks and FileFails make of the worker.
LEMMA BreaksMoves ==
    ASSUME TypeOK, NEW w \in Workers, Breaks(w)
    PROVE  \/ Move(w, "erring", 0, 0, 0, None)
           \/ worker[w].pc = "licensed" /\ Keep(w, "leaving")
           \/ worker[w].pc = "marking" /\ Reset(w)
  BY UnwoundMoves, GotoMoves, IdleMoves, BoundsAssumption DEF Breaks, Phases

\* run_count is among the numbers a worker may carry.
LEMMA RunType ==
    ASSUME TypeOK
    PROVE  task.run \in Attempts /\ task.run \in 0 .. MaxRuns
  BY BoundsAssumption DEF TypeOK, TaskType, Attempts

LEMMA FileFailsMoves ==
    ASSUME TypeOK, NEW w \in Workers, Placed(w), FileFails(w)
    PROVE  \E a \in Attempts :
              /\ Move(w, "untrusted", a, 0, 0, None)
              /\ a <= task.run
              /\ misread' = IF evidence[a].digest THEN misread \cup {a} ELSE misread
<1> DEFINE a == IF worker[w].pc = "claimed" THEN task.run ELSE worker[w].attempt
<1>1. /\ worker' = [worker EXCEPT ![w] = Unwound(w, "untrusted", a)]
      /\ misread' = IF evidence[a].digest THEN misread \cup {a} ELSE misread
      /\ worker[w].pc # "claimed" => Executing(w) \/ worker[w].pc = "finalising"
  BY DEF FileFails, Executing
<1>2. a \in Attempts /\ a \in 0 .. MaxRuns /\ a <= task.run
  BY <1>1, RunType, BoundsAssumption DEF Placed, Attempts
<1> HIDE DEF a
<1>3. Move(w, "untrusted", a, 0, 0, None)
  BY <1>1, <1>2, UnwoundMoves DEF Phases
<1> QED
  BY <1>1, <1>2, <1>3

LEMMA FinaliseMoves ==
    ASSUME TypeOK, NEW a \in Attempts, NEW verdict, FinaliseAttempt(a, verdict),
           ~Fenced(a) => verdict \in Final
    PROVE  /\ task' \in TaskType /\ task'.run = task.run
           /\ evidence' \in [Attempts -> EvidenceType]
           /\ \A b \in Attempts :
                 /\ evidence'[b].claimed = evidence[b].claimed
                 /\ evidence'[b].sealed = evidence[b].sealed
                 /\ evidence'[b].digest = evidence[b].digest
<1>1. CASE Fenced(a)
  BY <1>1 DEF FinaliseAttempt, TypeOK
<1>2. CASE ~Fenced(a)
  <2>1. /\ task' = [task EXCEPT !.status = verdict]
        /\ evidence' = [evidence EXCEPT ![a].finalised = TRUE, ![a].records = @ + 1]
    BY <1>2 DEF FinaliseAttempt
  <2>2. verdict \in Final
    BY <1>2
  <2>3. task' \in TaskType /\ task'.run = task.run
    BY <2>1, <2>2 DEF TypeOK, TaskType
  <2>4. evidence' \in [Attempts -> EvidenceType]
    BY <2>1 DEF TypeOK, EvidenceType
  <2>5. \A b \in Attempts :
                 /\ evidence'[b].claimed = evidence[b].claimed
                 /\ evidence'[b].sealed = evidence[b].sealed
                 /\ evidence'[b].digest = evidence[b].digest
    BY <2>1 DEF TypeOK, EvidenceType
  <2> QED BY <2>3, <2>4, <2>5
<1> QED
  BY <1>1, <1>2

(* run_count only grows, an outcome stays where it was created, and a digest *)
(* stays bound.                                                              *)
Onward ==
    /\ task' \in TaskType /\ task.run <= task'.run
    /\ evidence' \in [Attempts -> EvidenceType]
    /\ \A a \in Attempts : Sealed(a) => Sealed(a)'
    /\ \A a \in Attempts : evidence[a].digest => evidence'[a].digest

LEMMA StillOnward ==
    ASSUME TypeOK, UNCHANGED <<task, evidence>>
    PROVE  Onward
  BY DEF TypeOK, Onward, TaskType, Attempts, Sealed

LEMMA TaskOnward ==
    ASSUME TypeOK, task' \in TaskType, task'.run = task.run, UNCHANGED evidence
    PROVE  Onward
  BY DEF TypeOK, Onward, TaskType, Attempts, Sealed

LEMMA FinaliseOnward ==
    ASSUME TypeOK, NEW a \in Attempts, NEW verdict, FinaliseAttempt(a, verdict),
           ~Fenced(a) => verdict \in Final
    PROVE  Onward
  BY FinaliseMoves DEF TypeOK, Onward, TaskType, Attempts, Sealed

\* A worker that does not move stays well placed.
LEMMA PlacedStays ==
    ASSUME TypeOK, Onward, NEW w \in Workers, Placed(w), worker'[w] = worker[w]
    PROVE  Placed(w)'
<1>1. worker[w].attempt \in Int /\ task.run \in Int /\ task'.run \in Int
  BY DEF TypeOK, TaskType, WorkerType, Attempts, Onward
<1>2. /\ worker[w].attempt <= task.run => worker[w].attempt <= task'.run
      /\ worker[w].attempt < task.run => worker[w].attempt < task'.run
  BY <1>1 DEF Onward
<1>3. Executing(w)' <=> Executing(w)
  BY DEF Executing
<1>4. worker[w].pc = "committing" =>
          worker[w].target \in Attempts /\ evidence'[worker[w].target].sealed # None
  BY DEF Placed, Onward, Sealed
<1>5. worker[w].pc = "finalising" =>
          evidence'[worker[w].attempt].digest \/ worker[w].attempt < task'.run
  BY <1>2 DEF Placed, Onward, Attempts
<1> QED
  BY <1>2, <1>3, <1>4, <1>5 DEF Placed, Sealed

-----------------------------------------------------------------------------
LEMMA NextTypeInv == TypeInv /\ [Next]_vars => TypeInv'
<1> SUFFICES ASSUME TypeInv, [Next]_vars PROVE TypeInv'
  OBVIOUS
<1>0. TypeOK /\ (\A w \in Workers : Placed(w)) /\ Trusted
  BY DEF TypeInv
<1>1. ASSUME NEW a \in Attempts, Enqueue(a) PROVE TypeInv'
  <2>1. Onward
    BY <1>0, <1>1, StillOnward DEF Enqueue
  <2>2. TypeOK'
    BY <1>0, <1>1, <2>1, BoundsAssumption DEF Enqueue, TypeOK, Onward, TaskType
  <2>3. \A v \in Workers : Placed(v)'
    BY <1>0, <1>1, <2>1, PlacedStays DEF Enqueue
  <2>4. Trusted'
    BY <1>0, <1>1, <2>1 DEF Enqueue, Trusted, Sealed, TypeOK, Onward
  <2> QED BY <2>2, <2>3, <2>4 DEF TypeInv
<1>2. ASSUME NEW a \in Attempts, EnqueueFails(a) PROVE TypeInv'
  <2>1. Onward
    BY <1>0, <1>2, TaskOnward DEF EnqueueFails, FailSubmission, TypeOK, TaskType, Final
  <2>2. TypeOK'
    BY <1>0, <1>2, <2>1, BoundsAssumption DEF EnqueueFails, Fails, TypeOK, Onward
  <2>3. \A v \in Workers : Placed(v)'
    BY <1>0, <1>2, <2>1, PlacedStays DEF EnqueueFails, Fails
  <2>4. Trusted'
    BY <1>0, <1>2, <2>1 DEF EnqueueFails, Fails, Trusted, Sealed, TypeOK, Onward
  <2> QED BY <2>2, <2>3, <2>4 DEF TypeInv
<1>3. ASSUME NEW a \in Attempts, EnqueueLost(a) PROVE TypeInv'
  <2>1. Onward
    BY <1>0, <1>3, StillOnward DEF EnqueueLost
  <2>2. TypeOK'
    BY <1>0, <1>3, <2>1, BoundsAssumption DEF EnqueueLost, Fails, TypeOK, Onward
  <2>3. \A v \in Workers : Placed(v)'
    BY <1>0, <1>3, <2>1, PlacedStays DEF EnqueueLost, Fails
  <2>4. Trusted'
    BY <1>0, <1>3, <2>1 DEF EnqueueLost, Fails, Trusted, Sealed, TypeOK, Onward
  <2> QED BY <2>2, <2>3, <2>4 DEF TypeInv
<1>4. ASSUME Retest PROVE TypeInv'
  <2>1. Onward /\ task.run + 1 \in Attempts
    BY <1>0, <1>4, BoundsAssumption DEF Retest, Onward, TypeOK, TaskType, Attempts, Sealed
  <2>2. TypeOK'
    BY <1>0, <1>4, <2>1, BoundsAssumption DEF Retest, TypeOK, Onward, Attempts
  <2>3. \A v \in Workers : Placed(v)'
    BY <1>0, <1>4, <2>1, PlacedStays DEF Retest
  <2>4. Trusted'
    BY <1>0, <1>4, <2>1 DEF Retest, Trusted, Sealed, TypeOK, Onward
  <2> QED BY <2>2, <2>3, <2>4 DEF TypeInv
<1>5. ASSUME NEW r \in Requests, NEW kind \in Kinds, RequestOpen(r, kind) PROVE TypeInv'
  <2>1. Onward
    BY <1>0, <1>5, StillOnward DEF RequestOpen
  <2>2. request' \in [Requests -> RequestType]
    BY <1>0, <1>5 DEF RequestOpen, TypeOK, TaskType, RequestType
  <2>3. TypeOK'
    BY <1>0, <1>5, <2>1, <2>2, BoundsAssumption DEF RequestOpen, TypeOK, Onward
  <2>4. \A v \in Workers : Placed(v)'
    BY <1>0, <1>5, <2>1, <2>2, PlacedStays DEF RequestOpen
  <2>5. Trusted'
    BY <1>0, <1>5, <2>1, <2>2 DEF RequestOpen, Trusted, Sealed, TypeOK, Onward
  <2> QED BY <2>3, <2>4, <2>5 DEF TypeInv
<1>6. ASSUME NEW r \in Requests, RequestWrite(r) PROVE TypeInv'
  <2>1. Onward
    BY <1>0, <1>6, TaskOnward DEF RequestWrite, CancelLoaded, TypeOK, TaskType, Final, RequestType
  <2>2. request' \in [Requests -> RequestType]
    BY <1>0, <1>6 DEF RequestWrite, TypeOK, RequestType, Ready
  <2>3. TypeOK'
    BY <1>0, <1>6, <2>1, <2>2, BoundsAssumption DEF RequestWrite, TypeOK, Onward
  <2>4. \A v \in Workers : Placed(v)'
    BY <1>0, <1>6, <2>1, <2>2, PlacedStays DEF RequestWrite
  <2>5. Trusted'
    BY <1>0, <1>6, <2>1, <2>2 DEF RequestWrite, Trusted, Sealed, TypeOK, Onward
  <2> QED BY <2>3, <2>4, <2>5 DEF TypeInv
<1>7. ASSUME NEW r \in Requests, Delete(r) PROVE TypeInv'
  <2>1. Onward
    BY <1>0, <1>7, TaskOnward DEF Delete, TypeOK, TaskType, Final
  <2>2. request' \in [Requests -> RequestType]
    BY <1>0, <1>7 DEF Delete, TypeOK, RequestType
  <2>3. TypeOK'
    BY <1>0, <1>7, <2>1, <2>2, BoundsAssumption DEF Delete, TypeOK, Onward
  <2>4. \A v \in Workers : Placed(v)'
    BY <1>0, <1>7, <2>1, <2>2, PlacedStays DEF Delete
  <2>5. Trusted'
    BY <1>0, <1>7, <2>1, <2>2 DEF Delete, Trusted, Sealed, TypeOK, Onward
  <2> QED BY <2>3, <2>4, <2>5 DEF TypeInv
<1>8. ASSUME NEW r \in Requests, Restore(r) PROVE TypeInv'
  <2>1. Onward
    BY <1>0, <1>8, TaskOnward DEF Restore, TypeOK, TaskType, Final
  <2>2. request' \in [Requests -> RequestType]
    BY <1>0, <1>8 DEF Restore, TypeOK, RequestType
  <2>3. TypeOK'
    BY <1>0, <1>8, <2>1, <2>2, BoundsAssumption DEF Restore, TypeOK, Onward
  <2>4. \A v \in Workers : Placed(v)'
    BY <1>0, <1>8, <2>1, <2>2, PlacedStays DEF Restore
  <2>5. Trusted'
    BY <1>0, <1>8, <2>1, <2>2 DEF Restore, Trusted, Sealed, TypeOK, Onward
  <2> QED BY <2>3, <2>4, <2>5 DEF TypeInv
<1>9. ASSUME NEW w \in Workers, NEW a \in Attempts, Receive(w, a) PROVE TypeInv'
  <2>1. Onward
    BY <1>0, <1>9, StillOnward DEF Receive
  <2>2. a \in 0 .. MaxRuns
    BY <1>0, <1>9, BoundsAssumption DEF Attempts
  <2>3. worker' = worker \/ (Keep(w, "waiting") /\ worker[w].pc = "idle")
    BY <1>0, <1>9, <2>2, ReceiveMoves DEF Receive
  <2>4. TypeOK'
    BY <1>0, <1>9, <2>1, <2>2, <2>3, BoundsAssumption DEF Receive, Keep, Move, TypeOK, Onward
  <2>5. Placed(w)'
    BY <1>0, <1>9, <2>1, <2>2, <2>3 DEF Receive, Keep, Move, Placed, Executing, TypeOK, TaskType, WorkerType, Onward, Attempts
  <2>6. \A v \in Workers : v # w => Placed(v)'
    BY <1>0, <1>9, <2>1, <2>2, <2>3, PlacedStays DEF Keep, Reset, Move
  <2>7. Trusted'
    BY <1>0, <1>9, <2>1, <2>2, <2>3 DEF Receive, Keep, Move, Trusted, Sealed, TypeOK, Onward
  <2> QED BY <2>4, <2>5, <2>6, <2>7 DEF TypeInv
<1>10. ASSUME NEW w \in Workers, GiveUp(w) PROVE TypeInv'
  <2>1. Onward
    BY <1>0, <1>10, StillOnward DEF GiveUp
  <2>2. (Keep(w, "marking") /\ worker[w].pc = "waiting") \/ Reset(w)
    BY <1>0, <1>10, GotoMoves, IdleMoves DEF GiveUp, Goto, Phases
  <2>3. TypeOK'
    BY <1>0, <1>10, <2>1, <2>2, BoundsAssumption DEF GiveUp, Keep, Move, Reset, TypeOK, Onward
  <2>4. Placed(w)'
    BY <1>0, <1>10, <2>1, <2>2 DEF GiveUp, Keep, Move, Reset, Placed, Executing, TypeOK, TaskType, WorkerType, Onward, Attempts
  <2>5. \A v \in Workers : v # w => Placed(v)'
    BY <1>0, <1>10, <2>1, <2>2, PlacedStays DEF Keep, Reset, Move
  <2>6. Trusted'
    BY <1>0, <1>10, <2>1, <2>2 DEF GiveUp, Keep, Move, Reset, Trusted, Sealed, TypeOK, Onward
  <2> QED BY <2>3, <2>4, <2>5, <2>6 DEF TypeInv
<1>11. ASSUME NEW w \in Workers, MarkCancelled(w) PROVE TypeInv'
  <2>1. Onward
    BY <1>0, <1>11, TaskOnward DEF MarkCancelled, TypeOK, TaskType, Final
  <2>2. Reset(w)
    BY <1>0, <1>11, IdleMoves DEF MarkCancelled
  <2>3. TypeOK'
    BY <1>0, <1>11, <2>1, <2>2, BoundsAssumption DEF MarkCancelled, Reset, Move, TypeOK, Onward
  <2>4. Placed(w)'
    BY <1>0, <1>11, <2>1, <2>2 DEF MarkCancelled, Reset, Move, Placed, Executing, TypeOK, TaskType, WorkerType, Onward, Attempts
  <2>5. \A v \in Workers : v # w => Placed(v)'
    BY <1>0, <1>11, <2>1, <2>2, PlacedStays DEF Keep, Reset, Move
  <2>6. Trusted'
    BY <1>0, <1>11, <2>1, <2>2 DEF MarkCancelled, Reset, Move, Trusted, Sealed, TypeOK, Onward
  <2> QED BY <2>3, <2>4, <2>5, <2>6 DEF TypeInv
<1>12. ASSUME NEW w \in Workers, DropMessage(w) PROVE TypeInv'
  <2>1. Onward
    BY <1>0, <1>12, StillOnward DEF DropMessage
  <2>2. Reset(w)
    BY <1>0, <1>12, IdleMoves DEF DropMessage
  <2>3. TypeOK'
    BY <1>0, <1>12, <2>1, <2>2, BoundsAssumption DEF DropMessage, Fails, Reset, Move, TypeOK, Onward
  <2>4. Placed(w)'
    BY <1>0, <1>12, <2>1, <2>2 DEF DropMessage, Fails, Reset, Move, Placed, Executing, TypeOK, TaskType, WorkerType, Onward, Attempts
  <2>5. \A v \in Workers : v # w => Placed(v)'
    BY <1>0, <1>12, <2>1, <2>2, PlacedStays DEF Keep, Reset, Move
  <2>6. Trusted'
    BY <1>0, <1>12, <2>1, <2>2 DEF DropMessage, Fails, Reset, Move, Trusted, Sealed, TypeOK, Onward
  <2> QED BY <2>3, <2>4, <2>5, <2>6 DEF TypeInv
<1>13. ASSUME NEW w \in Workers, TryAcquire(w) PROVE TypeInv'
  <2>1. Onward
    BY <1>0, <1>13, StillOnward DEF TryAcquire
  <2>2. Keep(w, "licensed")
    BY <1>0, <1>13, GotoMoves DEF TryAcquire, Phases
  <2>3. TypeOK'
    BY <1>0, <1>13, <2>1, <2>2, BoundsAssumption DEF TryAcquire, Keep, Move, TypeOK, Onward
  <2>4. Placed(w)'
    BY <1>0, <1>13, <2>1, <2>2 DEF TryAcquire, Keep, Move, Placed, Executing, TypeOK, TaskType, WorkerType, Onward, Attempts
  <2>5. \A v \in Workers : v # w => Placed(v)'
    BY <1>0, <1>13, <2>1, <2>2, PlacedStays DEF Keep, Reset, Move
  <2>6. Trusted'
    BY <1>0, <1>13, <2>1, <2>2 DEF TryAcquire, Keep, Move, Trusted, Sealed, TypeOK, Onward
  <2> QED BY <2>3, <2>4, <2>5, <2>6 DEF TypeInv
<1>14. ASSUME NEW w \in Workers, LicenceBusy(w) PROVE TypeInv'
  <2>1. Onward
    BY <1>0, <1>14, StillOnward DEF LicenceBusy
  <2>2. Reset(w)
    BY <1>0, <1>14, IdleMoves DEF LicenceBusy
  <2>3. TypeOK'
    BY <1>0, <1>14, <2>1, <2>2, BoundsAssumption DEF LicenceBusy, ShouldCancel, Reset, Move, TypeOK, Onward, TaskType
  <2>4. Placed(w)'
    BY <1>0, <1>14, <2>1, <2>2 DEF LicenceBusy, ShouldCancel, Reset, Move, Placed, Executing, TypeOK, TaskType, WorkerType, Onward, Attempts
  <2>5. \A v \in Workers : v # w => Placed(v)'
    BY <1>0, <1>14, <2>1, <2>2, PlacedStays DEF Keep, Reset, Move
  <2>6. Trusted'
    BY <1>0, <1>14, <2>1, <2>2 DEF LicenceBusy, ShouldCancel, Reset, Move, Trusted, Sealed, TypeOK, Onward
  <2> QED BY <2>3, <2>4, <2>5, <2>6 DEF TypeInv
<1>15. ASSUME NEW w \in Workers, Claim(w) PROVE TypeInv'
  <2>1. Onward
    BY <1>0, <1>15, TaskOnward DEF Claim, TypeOK, TaskType, Final
  <2>2. worker[w].pc = "licensed" /\ (Keep(w, "leaving") \/ Keep(w, "claimed"))
    BY <1>0, <1>15, GotoMoves DEF Claim, Phases
  <2>3. TypeOK'
    BY <1>0, <1>15, <2>1, <2>2, BoundsAssumption DEF Claim, Keep, Move, TypeOK, Onward
  <2>4. Placed(w)'
    BY <1>0, <1>15, <2>1, <2>2 DEF Claim, Keep, Move, Placed, Executing, TypeOK, TaskType, WorkerType, Onward, Attempts
  <2>5. \A v \in Workers : v # w => Placed(v)'
    BY <1>0, <1>15, <2>1, <2>2, PlacedStays DEF Keep, Reset, Move
  <2>6. Trusted'
    BY <1>0, <1>15, <2>1, <2>2 DEF Claim, Keep, Move, Trusted, Sealed, TypeOK, Onward
  <2> QED BY <2>3, <2>4, <2>5, <2>6 DEF TypeInv
<1>16. ASSUME NEW w \in Workers, Leave(w) PROVE TypeInv'
  <2>1. Onward
    BY <1>0, <1>16, StillOnward DEF Leave
  <2>2. Reset(w)
    BY <1>0, <1>16, IdleMoves DEF Leave
  <2>3. TypeOK'
    BY <1>0, <1>16, <2>1, <2>2, BoundsAssumption DEF Leave, Reset, Move, TypeOK, Onward
  <2>4. Placed(w)'
    BY <1>0, <1>16, <2>1, <2>2 DEF Leave, Reset, Move, Placed, Executing, TypeOK, TaskType, WorkerType, Onward, Attempts
  <2>5. \A v \in Workers : v # w => Placed(v)'
    BY <1>0, <1>16, <2>1, <2>2, PlacedStays DEF Keep, Reset, Move
  <2>6. Trusted'
    BY <1>0, <1>16, <2>1, <2>2 DEF Leave, Reset, Move, Trusted, Sealed, TypeOK, Onward
  <2> QED BY <2>3, <2>4, <2>5, <2>6 DEF TypeInv
<1>17. ASSUME NEW w \in Workers, Begin(w) PROVE TypeInv'
  <2>1. evidence' = evidence \/ evidence' = [evidence EXCEPT ![task.run].claimed = TRUE]
    BY <1>0, <1>17 DEF Begin
  <2>2. evidence' \in [Attempts -> EvidenceType]
    <3>1. [evidence[task.run] EXCEPT !.claimed = TRUE] \in EvidenceType
      BY <1>0, RunType DEF TypeOK, EvidenceType
    <3> QED BY <1>0, <2>1, <3>1, RunType DEF TypeOK
  <2>3. \A a \in Attempts : evidence'[a].sealed = evidence[a].sealed /\ evidence'[a].digest = evidence[a].digest
    BY <1>0, <1>17, <2>1 DEF TypeOK, EvidenceType
  <2>4. Onward
    BY <1>0, <1>17, <2>2, <2>3 DEF Begin, Onward, TypeOK, TaskType, Attempts, Sealed
  <2>5. worker[w].pc = "claimed" /\ worker[w].target = 0
    BY <1>0, <1>17 DEF Begin, Placed
  <2>6. \/ Move(w, "untrusted", task.run, worker[w].dir, 0, worker[w].verdict)
        \/ Move(w, "finalising", task.run, worker[w].dir, 0, worker[w].verdict) /\ evidence[task.run].digest
        \/ Move(w, "leaving", task.run, worker[w].dir, 0, worker[w].verdict)
        \/ Move(w, "starting", task.run, worker[w].dir, 0, worker[w].verdict)
        \/ Move(w, "sealing", task.run, task.run, task.run, "cancelled")
    BY <1>0, <1>17, <2>5, RunType, BeginMoves, CancelledMoves DEF Begin, Phases
  <2>7. TypeOK'
    BY <1>0, <1>17, <2>1, <2>2, <2>3, <2>4, <2>5, <2>6, BoundsAssumption DEF Begin, Move, TypeOK, Onward
  <2>8. Placed(w)'
    <3>1. task' = task /\ task.run <= task.run
      BY <1>0, <1>17, RunType DEF Begin, Attempts
    <3>2. "cancelled" \in Final
      BY DEF Final
    <3> QED BY <1>0, <2>3, <2>6, <3>1, <3>2, RunType DEF Move, Placed, Executing
  <2>9. \A v \in Workers : v # w => Placed(v)'
    BY <1>0, <1>17, <2>1, <2>2, <2>3, <2>4, <2>5, <2>6, PlacedStays DEF Keep, Reset, Move
  <2>10. Trusted'
    BY <1>0, <1>17, <2>1, <2>2, <2>3, <2>4, <2>5, <2>6 DEF Begin, Move, Trusted, Sealed, TypeOK, Onward
  <2> QED BY <2>7, <2>8, <2>9, <2>10 DEF TypeInv
<1>18. ASSUME NEW w \in Workers, Reject(w) PROVE TypeInv'
  <2>1. Onward
    BY <1>0, <1>18, StillOnward DEF Reject
  <2>2. Move(w, "untrusted", task.run, worker[w].dir, worker[w].target, worker[w].verdict)
    BY <1>0, <1>18, RunType, BeginMoves DEF Reject, Phases
  <2>3. TypeOK'
    BY <1>0, <1>18, <2>1, <2>2, BoundsAssumption DEF Reject, Move, TypeOK, Onward
  <2>4. Placed(w)'
    BY <1>0, <1>18, <2>1, <2>2, RunType DEF Reject, Move, Placed, Executing, TypeOK, TaskType, WorkerType, Onward, Attempts
  <2>5. \A v \in Workers : v # w => Placed(v)'
    BY <1>0, <1>18, <2>1, <2>2, PlacedStays DEF Keep, Reset, Move
  <2>6. Trusted'
    BY <1>0, <1>18, <2>1, <2>2 DEF Reject, Move, Trusted, Sealed, TypeOK, Onward
  <2> QED BY <2>3, <2>4, <2>5, <2>6 DEF TypeInv
<1>19. ASSUME NEW w \in Workers, StartBackend(w) PROVE TypeInv'
  <2>1. Onward
    BY <1>0, <1>19, StillOnward DEF StartBackend
  <2>2. /\ worker[w].pc = "starting"
        /\ \/ Keep(w, "untrusted")
           \/ Move(w, "running", worker[w].attempt, task.run, worker[w].target, worker[w].verdict)
    BY <1>0, <1>19, RunType, BackendMoves, GotoMoves DEF StartBackend, Goto, Phases
  <2>3. TypeOK'
    BY <1>0, <1>19, <2>1, <2>2, BoundsAssumption DEF StartBackend, Keep, Move, TypeOK, Onward
  <2>4. Placed(w)'
    BY <1>0, <1>19, <2>1, <2>2, RunType DEF StartBackend, Keep, Move, Placed, Executing, TypeOK, TaskType, WorkerType, Onward, Attempts
  <2>5. \A v \in Workers : v # w => Placed(v)'
    BY <1>0, <1>19, <2>1, <2>2, PlacedStays DEF Keep, Reset, Move
  <2>6. Trusted'
    BY <1>0, <1>19, <2>1, <2>2 DEF StartBackend, Keep, Move, Trusted, Sealed, TypeOK, Onward
  <2> QED BY <2>3, <2>4, <2>5, <2>6 DEF TypeInv
<1>20. ASSUME NEW w \in Workers, MonitorTrips(w) PROVE TypeInv'
  <2>1. Onward
    BY <1>0, <1>20, StillOnward DEF MonitorTrips
  <2>2. Keep(w, "stopping")
    BY <1>0, <1>20, GotoMoves DEF MonitorTrips, Phases
  <2>3. TypeOK'
    BY <1>0, <1>20, <2>1, <2>2, BoundsAssumption DEF MonitorTrips, Keep, Move, TypeOK, Onward
  <2>4. Placed(w)'
    BY <1>0, <1>20, <2>1, <2>2 DEF MonitorTrips, Keep, Move, Placed, Executing, TypeOK, TaskType, WorkerType, Onward, Attempts
  <2>5. \A v \in Workers : v # w => Placed(v)'
    BY <1>0, <1>20, <2>1, <2>2, PlacedStays DEF Keep, Reset, Move
  <2>6. Trusted'
    BY <1>0, <1>20, <2>1, <2>2 DEF MonitorTrips, Keep, Move, Trusted, Sealed, TypeOK, Onward
  <2> QED BY <2>3, <2>4, <2>5, <2>6 DEF TypeInv
<1>21. ASSUME NEW w \in Workers, NEW x \in Final, RunEnds(w, x) PROVE TypeInv'
  <2>1. Onward
    BY <1>0, <1>21, StillOnward DEF RunEnds
  <2>2. Move(w, "sealing", worker[w].attempt, worker[w].dir, worker[w].target, x)
    BY <1>0, <1>21 DEF RunEnds, TypeOK, WorkerType, Phases, Move
  <2>3. TypeOK'
    BY <1>0, <1>21, <2>1, <2>2, BoundsAssumption DEF RunEnds, Move, TypeOK, Onward
  <2>4. Placed(w)'
    BY <1>0, <1>21, <2>1, <2>2 DEF RunEnds, Move, Placed, Executing, TypeOK, TaskType, WorkerType, Onward, Attempts
  <2>5. \A v \in Workers : v # w => Placed(v)'
    BY <1>0, <1>21, <2>1, <2>2, PlacedStays DEF Keep, Reset, Move
  <2>6. Trusted'
    BY <1>0, <1>21, <2>1, <2>2 DEF RunEnds, Move, Trusted, Sealed, TypeOK, Onward
  <2> QED BY <2>3, <2>4, <2>5, <2>6 DEF TypeInv
<1>22. ASSUME NEW w \in Workers, Seal(w) PROVE TypeInv'
  <2> DEFINE to == Row(w).run
             done == [verdict |-> worker[w].verdict, ran |-> worker[w].dir]
  <2>1. /\ worker[w].pc = "sealing" /\ worker[w].attempt \in Attempts
        /\ done \in Outcome
    BY <1>0, <1>22 DEF Seal, Placed, Executing, Outcome
  <2>2. /\ to \in Attempts /\ to \in 0 .. MaxRuns
        /\ to = worker[w].attempt \/ worker[w].attempt < task.run
    BY <1>0, <2>1, RunType DEF Row, Placed, TypeOK, TaskType, WorkerType, Attempts
  <2>3. CASE Keep(w, "finalising") /\ evidence' = evidence /\ evidence[worker[w].attempt].digest
    <3>1. Onward
      BY <1>0, <1>22, <2>3, StillOnward DEF Seal
    <3>2. TypeOK'
      BY <1>0, <1>22, <2>3 DEF Seal, Keep, Move, TypeOK
    <3>3. Placed(w)'
      BY <1>0, <1>22, <2>1, <2>3 DEF Seal, Keep, Move, Placed, Executing
    <3>4. \A v \in Workers : v # w => Placed(v)'
      BY <1>0, <2>3, <3>1, PlacedStays DEF Keep, Move
    <3>5. Trusted'
      BY <1>0, <1>22, <2>3 DEF Seal, Trusted, Sealed
    <3> QED BY <3>2, <3>3, <3>4, <3>5 DEF TypeInv
  <2>4. CASE Keep(w, "untrusted") /\ evidence' = evidence
    <3>1. Onward
      BY <1>0, <1>22, <2>4, StillOnward DEF Seal
    <3>2. TypeOK'
      BY <1>0, <1>22, <2>4 DEF Seal, Keep, Move, TypeOK
    <3>3. Placed(w)'
      BY <1>0, <1>22, <2>1, <2>4 DEF Seal, Keep, Move, Placed, Executing
    <3>4. \A v \in Workers : v # w => Placed(v)'
      BY <1>0, <2>4, <3>1, PlacedStays DEF Keep, Move
    <3>5. Trusted'
      BY <1>0, <1>22, <2>4 DEF Seal, Trusted, Sealed
    <3> QED BY <3>2, <3>3, <3>4, <3>5 DEF TypeInv
  <2>5. CASE /\ ~Sealed(to)
             /\ evidence' = [evidence EXCEPT ![to].sealed = done]
             /\ worker' = [worker EXCEPT ![w].pc = "committing", ![w].target = to]
    <3>1. Move(w, "committing", worker[w].attempt, worker[w].dir, to, worker[w].verdict)
      BY <1>0, <2>2, <2>5, SealMoves
    <3>2. /\ evidence' \in [Attempts -> EvidenceType]
          /\ evidence'[to].sealed = done
          /\ \A a \in Attempts : a # to => evidence'[a] = evidence[a]
          /\ \A a \in Attempts : evidence'[a].digest = evidence[a].digest
      BY <1>0, <2>1, <2>2, <2>5 DEF TypeOK, EvidenceType
    <3>3. /\ evidence'[to].sealed # None
          /\ \A a \in Attempts : Sealed(a) => evidence'[a].sealed # None
      BY <2>1, <2>2, <3>2, BoundsAssumption DEF Sealed
    <3>4. Onward
      BY <1>0, <1>22, <3>2, <3>3 DEF Seal, Onward, Sealed, TypeOK, TaskType, Attempts
    <3>5. TypeOK'
      BY <1>0, <1>22, <3>1, <3>2 DEF Seal, Move, TypeOK
    <3>6. Placed(w)'
      BY <1>0, <1>22, <2>1, <2>2, <3>1, <3>3 DEF Seal, Move, Placed, Executing, Sealed
    <3>7. \A v \in Workers : v # w => Placed(v)'
      BY <1>0, <3>1, <3>4, PlacedStays DEF Move
    <3>8. Trusted'
      BY <1>0, <1>22, <3>2, <3>3 DEF Seal, Trusted, Sealed, TypeOK
    <3> QED BY <3>5, <3>6, <3>7, <3>8 DEF TypeInv
  <2> QED BY <1>0, <1>22, <2>3, <2>4, <2>5, GotoMoves DEF Seal, Phases
<1>23. ASSUME NEW w \in Workers, CommitSeal(w) PROVE TypeInv'
  <2>1. /\ worker[w].target \in Attempts /\ Sealed(worker[w].target)
        /\ worker[w].pc = "committing" /\ worker[w].attempt \in Attempts
    BY <1>0, <1>23 DEF CommitSeal, Placed, Executing
  <2>2. /\ evidence' \in [Attempts -> EvidenceType]
        /\ evidence'[worker[w].target].digest
        /\ \A a \in Attempts : evidence'[a].sealed = evidence[a].sealed
        /\ \A a \in Attempts : a # worker[w].target => evidence'[a].digest = evidence[a].digest
    BY <1>0, <1>23, <2>1 DEF CommitSeal, TypeOK, EvidenceType
  <2>3. Onward
    BY <1>0, <1>23, <2>1, <2>2 DEF CommitSeal, Onward, TypeOK, TaskType, EvidenceType, Attempts, Sealed
  <2>4. Keep(w, "finalising")
    BY <1>0, <1>23, GotoMoves DEF CommitSeal, Phases
  <2>5. TypeOK'
    BY <1>0, <1>23, <2>1, <2>2, <2>3, <2>4, BoundsAssumption DEF CommitSeal, Keep, Move, TypeOK, Onward
  <2>6. Placed(w)'
    BY <1>0, <1>23, <2>1, <2>2, <2>3, <2>4 DEF CommitSeal, Keep, Move, Placed, Executing, TypeOK, TaskType, WorkerType, Onward, Attempts
  <2>7. \A v \in Workers : v # w => Placed(v)'
    BY <1>0, <1>23, <2>1, <2>2, <2>3, <2>4, PlacedStays DEF Keep, Reset, Move
  <2>8. Trusted'
    BY <1>0, <1>23, <2>1, <2>2, <2>3, <2>4 DEF CommitSeal, Keep, Move, Trusted, Sealed, TypeOK, Onward
  <2> QED BY <2>5, <2>6, <2>7, <2>8 DEF TypeInv
<1>24. ASSUME NEW w \in Workers, Finalise(w) PROVE TypeInv'
  <2>1. worker[w].attempt \in Attempts /\ (~Fenced(worker[w].attempt) => evidence[worker[w].attempt].sealed.verdict \in Final)
    BY <1>0, <1>24 DEF Finalise, Placed, Trusted, Fenced, Sealed, TypeOK, EvidenceType, TaskType, WorkerType, Outcome, Attempts
  <2>2. FinaliseAttempt(worker[w].attempt, evidence[worker[w].attempt].sealed.verdict)
    BY <1>0, <1>24 DEF Finalise, FinaliseAttempt
  <2>3. Onward
    BY <1>0, <1>24, <2>1, <2>2, FinaliseOnward
  <2>4. \A b \in Attempts : evidence'[b].sealed = evidence[b].sealed /\ evidence'[b].digest = evidence[b].digest
    BY <1>0, <1>24, <2>1, <2>2, FinaliseMoves
  <2>5. Keep(w, "leaving")
    BY <1>0, <1>24, GotoMoves DEF Finalise, Phases
  <2>6. TypeOK'
    BY <1>0, <1>24, <2>1, <2>2, <2>3, <2>4, <2>5, BoundsAssumption DEF Finalise, Keep, Move, TypeOK, Onward
  <2>7. Placed(w)'
    BY <1>0, <1>24, <2>1, <2>2, <2>3, <2>4, <2>5 DEF Finalise, Keep, Move, Placed, Executing, TypeOK, TaskType, WorkerType, Onward, Attempts
  <2>8. \A v \in Workers : v # w => Placed(v)'
    BY <1>0, <1>24, <2>1, <2>2, <2>3, <2>4, <2>5, PlacedStays DEF Keep, Reset, Move
  <2>9. Trusted'
    BY <1>0, <1>24, <2>1, <2>2, <2>3, <2>4, <2>5 DEF Finalise, Keep, Move, Trusted, Sealed, TypeOK, Onward
  <2> QED BY <2>6, <2>7, <2>8, <2>9 DEF TypeInv
<1>25. ASSUME NEW w \in Workers, FinaliseUntrusted(w) PROVE TypeInv'
  <2>1. worker[w].attempt \in Attempts /\ FinaliseAttempt(worker[w].attempt, "failed")
    BY <1>0, <1>25 DEF FinaliseUntrusted, Placed
  <2>2. Onward
    BY <1>0, <1>25, <2>1, FinaliseOnward DEF Final
  <2>3. \A b \in Attempts : evidence'[b].sealed = evidence[b].sealed /\ evidence'[b].digest = evidence[b].digest
    BY <1>0, <1>25, <2>1, FinaliseMoves DEF Final
  <2>4. Keep(w, "leaving")
    BY <1>0, <1>25, GotoMoves DEF FinaliseUntrusted, Phases
  <2>5. TypeOK'
    BY <1>0, <1>25, <2>1, <2>2, <2>3, <2>4, BoundsAssumption DEF FinaliseUntrusted, Keep, Move, TypeOK, Onward
  <2>6. Placed(w)'
    BY <1>0, <1>25, <2>1, <2>2, <2>3, <2>4 DEF FinaliseUntrusted, Keep, Move, Placed, Executing, TypeOK, TaskType, WorkerType, Onward, Attempts
  <2>7. \A v \in Workers : v # w => Placed(v)'
    BY <1>0, <1>25, <2>1, <2>2, <2>3, <2>4, PlacedStays DEF Keep, Reset, Move
  <2>8. Trusted'
    BY <1>0, <1>25, <2>1, <2>2, <2>3, <2>4 DEF FinaliseUntrusted, Keep, Move, Trusted, Sealed, TypeOK, Onward
  <2> QED BY <2>5, <2>6, <2>7, <2>8 DEF TypeInv
<1>26. ASSUME NEW w \in Workers, Breaks(w) PROVE TypeInv'
  <2>1. Onward
    BY <1>0, <1>26, StillOnward DEF Breaks
  <2>2. \/ Move(w, "erring", 0, 0, 0, None)
        \/ worker[w].pc = "licensed" /\ Keep(w, "leaving")
        \/ Reset(w)
    BY <1>0, <1>26, BreaksMoves
  <2>3. TypeOK'
    BY <1>0, <1>26, <2>1, <2>2, BoundsAssumption DEF Breaks, Fails, Keep, Reset, Move, TypeOK, Onward
  <2>4. Placed(w)'
    BY <1>0, <1>26, <2>1, <2>2, RunType DEF Breaks, Keep, Reset, Move, Placed, Executing, Attempts
  <2>5. \A v \in Workers : v # w => Placed(v)'
    BY <1>0, <1>26, <2>1, <2>2, PlacedStays DEF Keep, Reset, Move
  <2>6. Trusted'
    BY <1>0, <1>26, <2>1 DEF Breaks, Trusted, Sealed
  <2> QED BY <2>3, <2>4, <2>5, <2>6 DEF TypeInv
<1>37. ASSUME NEW w \in Workers, FileFails(w) PROVE TypeInv'
  <2>1. Onward
    BY <1>0, <1>37, StillOnward DEF FileFails
  <2>2. PICK a \in Attempts :
          /\ Move(w, "untrusted", a, 0, 0, None) /\ a <= task.run
          /\ misread' = IF evidence[a].digest THEN misread \cup {a} ELSE misread
    BY <1>0, <1>37, FileFailsMoves
  <2>3. misread' \subseteq Attempts
    BY <1>0, <2>2 DEF TypeOK
  <2>4. TypeOK'
    BY <1>0, <1>37, <2>1, <2>2, <2>3, BoundsAssumption DEF FileFails, Fails, Move, TypeOK, Onward
  <2>5. Placed(w)'
    BY <1>0, <1>37, <2>2 DEF FileFails, Move, Placed, Executing
  <2>6. \A v \in Workers : v # w => Placed(v)'
    BY <1>0, <2>1, <2>2, PlacedStays DEF Move
  <2>7. Trusted'
    BY <1>0, <1>37, <2>1 DEF FileFails, Trusted, Sealed
  <2> QED BY <2>4, <2>5, <2>6, <2>7 DEF TypeInv
<1>38. ASSUME NEW w \in Workers, HandlerFails(w) PROVE TypeInv'
  <2>1. Onward
    BY <1>0, <1>38, StillOnward DEF HandlerFails
  <2>2. Keep(w, "leaving")
    BY <1>0, <1>38, GotoMoves DEF HandlerFails, Phases
  <2>7. stranded' \subseteq 0 .. MaxRuns
    BY <1>0, <1>38 DEF HandlerFails, TypeOK, WorkerType
  <2>3. TypeOK'
    BY <1>0, <1>38, <2>1, <2>2, <2>7, BoundsAssumption DEF HandlerFails, Fails, Keep, Move, TypeOK, Onward
  <2>4. Placed(w)'
    BY <1>0, <1>38, <2>2 DEF HandlerFails, Keep, Move, Placed, Executing
  <2>5. \A v \in Workers : v # w => Placed(v)'
    BY <1>0, <2>1, <2>2, PlacedStays DEF Keep, Move
  <2>6. Trusted'
    BY <1>0, <1>38, <2>1 DEF HandlerFails, Trusted, Sealed
  <2> QED BY <2>3, <2>4, <2>5, <2>6 DEF TypeInv
<1>39. ASSUME NEW w \in Workers, ReleaseFails(w) PROVE TypeInv'
  <2>1. Onward
    BY <1>0, <1>39, StillOnward DEF ReleaseFails
  <2>2. Reset(w)
    BY <1>0, <1>39, IdleMoves DEF ReleaseFails
  <2>3. TypeOK'
    BY <1>0, <1>39, <2>1, <2>2, BoundsAssumption DEF ReleaseFails, Fails, Reset, Move, TypeOK, Onward
  <2>4. Placed(w)'
    BY <1>0, <1>39, <2>2, RunType DEF ReleaseFails, Reset, Move, Placed, Executing, Attempts
  <2>5. \A v \in Workers : v # w => Placed(v)'
    BY <1>0, <2>1, <2>2, PlacedStays DEF Reset, Move
  <2>6. Trusted'
    BY <1>0, <1>39, <2>1 DEF ReleaseFails, Trusted, Sealed
  <2> QED BY <2>3, <2>4, <2>5, <2>6 DEF TypeInv
<1>40. ASSUME StartupFails \/ PeriodicFails PROVE TypeInv'
  <2>1. Onward
    BY <1>0, <1>40, StillOnward DEF StartupFails, PeriodicFails
  <2>2. /\ recovery' \in [mode : {"up", "down", "starting"}, pick : {None} \cup Attempts]
        /\ recovery'.pick = None
    BY <1>0, <1>40 DEF StartupFails, PeriodicFails, TypeOK
  <2>3. stranded' \subseteq 0 .. MaxRuns
    BY <1>0, <1>40 DEF StartupFails, PeriodicFails, TypeOK, Attempts
  <2>4. TypeOK'
    BY <1>0, <1>40, <2>1, <2>2, <2>3, BoundsAssumption
    DEF StartupFails, PeriodicFails, Fails, TypeOK, Onward
  <2>5. \A v \in Workers : Placed(v)'
    BY <1>0, <1>40, <2>1, PlacedStays DEF StartupFails, PeriodicFails
  <2>6. Trusted'
    BY <1>0, <1>40, <2>2 DEF StartupFails, PeriodicFails, Trusted, Sealed
  <2> QED BY <2>4, <2>5, <2>6 DEF TypeInv
<1>27. ASSUME NEW w \in Workers, HandleError(w) PROVE TypeInv'
  <2>1. Onward
    BY <1>0, <1>27, StillOnward DEF HandleError
  <2>2. Keep(w, "overwriting") \/ Keep(w, "leaving")
    BY <1>0, <1>27, GotoMoves DEF HandleError, Phases
  <2>3. TypeOK'
    BY <1>0, <1>27, <2>1, <2>2, BoundsAssumption DEF HandleError, Keep, Move, TypeOK, Onward
  <2>4. Placed(w)'
    BY <1>0, <1>27, <2>1, <2>2 DEF HandleError, Keep, Move, Placed, Executing, TypeOK, TaskType, WorkerType, Onward, Attempts
  <2>5. \A v \in Workers : v # w => Placed(v)'
    BY <1>0, <1>27, <2>1, <2>2, PlacedStays DEF Keep, Reset, Move
  <2>6. Trusted'
    BY <1>0, <1>27, <2>1, <2>2 DEF HandleError, Keep, Move, Trusted, Sealed, TypeOK, Onward
  <2> QED BY <2>3, <2>4, <2>5, <2>6 DEF TypeInv
<1>28. ASSUME NEW w \in Workers, MarkFailed(w) PROVE TypeInv'
  <2>1. Onward
    BY <1>0, <1>28, TaskOnward DEF MarkFailed, TypeOK, TaskType, Final
  <2>2. Keep(w, "leaving")
    BY <1>0, <1>28, GotoMoves DEF MarkFailed, Phases
  <2>3. TypeOK'
    BY <1>0, <1>28, <2>1, <2>2, BoundsAssumption DEF MarkFailed, Keep, Move, TypeOK, Onward
  <2>4. Placed(w)'
    BY <1>0, <1>28, <2>1, <2>2 DEF MarkFailed, Keep, Move, Placed, Executing, TypeOK, TaskType, WorkerType, Onward, Attempts
  <2>5. \A v \in Workers : v # w => Placed(v)'
    BY <1>0, <1>28, <2>1, <2>2, PlacedStays DEF Keep, Reset, Move
  <2>6. Trusted'
    BY <1>0, <1>28, <2>1, <2>2 DEF MarkFailed, Keep, Move, Trusted, Sealed, TypeOK, Onward
  <2> QED BY <2>3, <2>4, <2>5, <2>6 DEF TypeInv
<1>29. ASSUME Crash PROVE TypeInv'
  <2>1. Onward
    BY <1>0, <1>29, StillOnward DEF Crash
  <2>2. worker' \in [Workers -> WorkerType]
    BY <1>29, BoundsAssumption DEF Crash, Idle, WorkerType, Phases
  <2>3. TypeOK'
    BY <1>0, <1>29, <2>1, <2>2, BoundsAssumption DEF Crash, Fails, TypeOK, Onward
  <2>4. \A v \in Workers : Placed(v)'
    BY <1>0, <1>29, <2>1 DEF Crash, Idle, Placed, Executing, TypeOK, TaskType, Attempts
  <2>5. Trusted'
    BY <1>0, <1>29, <2>1 DEF Crash, Trusted, Sealed
  <2> QED BY <2>3, <2>4, <2>5 DEF TypeInv
<1>30. ASSUME Restart PROVE TypeInv'
  <2>1. Onward
    BY <1>0, <1>30, StillOnward DEF Restart
  <2>2. TypeOK'
    BY <1>0, <1>30, <2>1, BoundsAssumption DEF Restart, TypeOK, Onward
  <2>3. \A v \in Workers : Placed(v)'
    BY <1>0, <1>30, <2>1, PlacedStays DEF Restart
  <2>4. Trusted'
    BY <1>0, <1>30, <2>1 DEF Restart, Trusted, Sealed, TypeOK, Onward
  <2> QED BY <2>2, <2>3, <2>4 DEF TypeInv
<1>31. ASSUME StartupScan PROVE TypeInv'
  <2>1. Onward
    BY <1>0, <1>31, StillOnward DEF StartupScan
  <2>2. TypeOK'
    BY <1>0, <1>31, <2>1, BoundsAssumption DEF StartupScan, Interrupted, TypeOK, Onward, TaskType
  <2>3. \A v \in Workers : Placed(v)'
    BY <1>0, <1>31, <2>1, PlacedStays DEF StartupScan, Interrupted
  <2>4. Trusted'
    BY <1>0, <1>31, <2>1 DEF StartupScan, Interrupted, Trusted, Sealed, TypeOK, Onward
  <2> QED BY <2>2, <2>3, <2>4 DEF TypeInv
<1>32. ASSUME StartupFinalise PROVE TypeInv'
  <2>1. recovery.pick \in Attempts /\ FinaliseAttempt(recovery.pick, IF evidence[recovery.pick].digest THEN evidence[recovery.pick].sealed.verdict ELSE "failed")
    BY <1>0, <1>32 DEF StartupFinalise, TypeOK
  <2>2. ~Fenced(recovery.pick) => (IF evidence[recovery.pick].digest THEN evidence[recovery.pick].sealed.verdict ELSE "failed") \in Final
    BY <1>0, <1>32, <2>1 DEF Trusted, Sealed, TypeOK, EvidenceType, Outcome, Final, StartupFinalise
  <2>3. Onward
    BY <1>0, <1>32, <2>1, <2>2, FinaliseOnward
  <2>4. \A b \in Attempts : evidence'[b].sealed = evidence[b].sealed /\ evidence'[b].digest = evidence[b].digest
    BY <1>0, <1>32, <2>1, <2>2, FinaliseMoves
  <2>5. TypeOK'
    BY <1>0, <1>32, <2>1, <2>2, <2>3, <2>4, BoundsAssumption DEF StartupFinalise, TypeOK, Onward
  <2>6. \A v \in Workers : Placed(v)'
    BY <1>0, <1>32, <2>1, <2>2, <2>3, <2>4, PlacedStays DEF StartupFinalise
  <2>7. Trusted'
    BY <1>0, <1>32, <2>1, <2>2, <2>3, <2>4 DEF StartupFinalise, Trusted, Sealed, TypeOK, Onward
  <2> QED BY <2>5, <2>6, <2>7 DEF TypeInv
<1>33. ASSUME PeriodicScan PROVE TypeInv'
  <2>1. Onward
    BY <1>0, <1>33, StillOnward DEF PeriodicScan
  <2>2. TypeOK'
    BY <1>0, <1>33, <2>1, BoundsAssumption DEF PeriodicScan, Interrupted, TypeOK, Onward, TaskType
  <2>3. \A v \in Workers : Placed(v)'
    BY <1>0, <1>33, <2>1, PlacedStays DEF PeriodicScan, Interrupted
  <2>4. Trusted'
    BY <1>0, <1>33, <2>1 DEF PeriodicScan, Interrupted, Trusted, Sealed, TypeOK, Onward
  <2> QED BY <2>2, <2>3, <2>4 DEF TypeInv
<1>34. ASSUME PeriodicFinalise PROVE TypeInv'
  <2>1. recovery.pick \in Attempts /\ FinaliseAttempt(recovery.pick, evidence[recovery.pick].sealed.verdict)
    BY <1>0, <1>34 DEF PeriodicFinalise, TypeOK
  <2>2. ~Fenced(recovery.pick) => (evidence[recovery.pick].sealed.verdict) \in Final
    BY <1>0, <1>34, <2>1 DEF Trusted, Sealed, TypeOK, EvidenceType, Outcome, Final, PeriodicFinalise
  <2>3. Onward
    BY <1>0, <1>34, <2>1, <2>2, FinaliseOnward
  <2>4. \A b \in Attempts : evidence'[b].sealed = evidence[b].sealed /\ evidence'[b].digest = evidence[b].digest
    BY <1>0, <1>34, <2>1, <2>2, FinaliseMoves
  <2>5. TypeOK'
    BY <1>0, <1>34, <2>1, <2>2, <2>3, <2>4, BoundsAssumption DEF PeriodicFinalise, TypeOK, Onward
  <2>6. \A v \in Workers : Placed(v)'
    BY <1>0, <1>34, <2>1, <2>2, <2>3, <2>4, PlacedStays DEF PeriodicFinalise
  <2>7. Trusted'
    BY <1>0, <1>34, <2>1, <2>2, <2>3, <2>4 DEF PeriodicFinalise, Trusted, Sealed, TypeOK, Onward
  <2> QED BY <2>5, <2>6, <2>7 DEF TypeInv
<1>35. ASSUME NEW a \in Attempts, Republish(a) PROVE TypeInv'
  <2>1. Onward
    BY <1>0, <1>35, StillOnward DEF Republish
  <2>2. TypeOK'
    BY <1>0, <1>35, <2>1, BoundsAssumption DEF Republish, TypeOK, Onward
  <2>3. \A v \in Workers : Placed(v)'
    BY <1>0, <1>35, <2>1, PlacedStays DEF Republish
  <2>4. Trusted'
    BY <1>0, <1>35, <2>1 DEF Republish, Trusted, Sealed, TypeOK, Onward
  <2> QED BY <2>2, <2>3, <2>4 DEF TypeInv
<1>36. CASE UNCHANGED vars
  <2>1. Onward
    BY <1>0, <1>36, StillOnward DEF vars
  <2>2. TypeOK' /\ Trusted'
    BY <1>0, <1>36 DEF vars, TypeOK, Trusted, Sealed
  <2>3. \A v \in Workers : Placed(v)'
    BY <1>0, <1>36, <2>1, PlacedStays DEF vars
  <2> QED BY <2>2, <2>3 DEF TypeInv
<1> QED
  BY <1>1, <1>2, <1>3, <1>4, <1>5, <1>6, <1>7, <1>8, <1>9, <1>10, <1>11, <1>12, <1>13, <1>14, <1>15, <1>16, <1>17, <1>18, <1>19, <1>20, <1>21, <1>22, <1>23, <1>24, <1>25, <1>26, <1>27, <1>28, <1>29, <1>30, <1>31, <1>32, <1>33, <1>34, <1>35, <1>36, <1>37, <1>38, <1>39, <1>40
  DEF Next, Step, Startup, Periodic, User, Trouble

\* Every variable keeps its type, and the licence counter its limit, however
\* many deliveries, requests and faults there are (TypeOK, try_acquire).
THEOREM TypeCorrect == Spec => []TypeOK
<1>1. Spec => []TypeInv
  BY InitTypeInv, NextTypeInv, PTL DEF Spec
<1> QED
  BY <1>1, PTL DEF TypeInv

\* TypeInv is an invariant; the invariants below are proved on top of it.
LEMMA TypeInvHolds == Spec => []TypeInv
  BY InitTypeInv, NextTypeInv, PTL DEF Spec

-----------------------------------------------------------------------------
(* Who writes evidence, and how.                                           *)

Finalises ==
    \/ \E w \in Workers : Finalise(w) \/ FinaliseUntrusted(w)
    \/ StartupFinalise \/ PeriodicFinalise

LEMMA EvidenceWriters ==
    ASSUME [Next]_vars
    PROVE  \/ UNCHANGED evidence
           \/ Finalises
           \/ \E w \in Workers : Begin(w) \/ Seal(w) \/ CommitSeal(w)
<1>1. CASE UNCHANGED vars
  BY <1>1 DEF vars
<1>2. ASSUME NEW a \in Attempts, Enqueue(a) \/ EnqueueFails(a) \/ EnqueueLost(a) \/ Republish(a)
      PROVE  UNCHANGED evidence
  BY <1>2 DEF Enqueue, EnqueueFails, EnqueueLost, Republish
<1>3. ASSUME User PROVE UNCHANGED evidence
  BY <1>3 DEF User, Retest, RequestOpen, RequestWrite, Delete, Restore
<1>4. ASSUME NEW w \in Workers, Step(w)
      PROVE  \/ UNCHANGED evidence
             \/ Finalise(w) \/ FinaliseUntrusted(w) \/ Begin(w) \/ Seal(w) \/ CommitSeal(w)
  BY <1>4 DEF Step, Receive, GiveUp, MarkCancelled, TryAcquire, LicenceBusy, Claim, Leave,
              Reject, StartBackend, MonitorTrips, RunEnds, HandleError, MarkFailed
<1>5. ASSUME NEW w \in Workers,
             DropMessage(w) \/ FileFails(w) \/ Breaks(w) \/ HandlerFails(w) \/ ReleaseFails(w)
      PROVE  UNCHANGED evidence
  BY <1>5 DEF DropMessage, FileFails, Breaks, HandlerFails, ReleaseFails
<1>6. ASSUME \/ Crash \/ Restart \/ StartupScan \/ PeriodicScan
             \/ StartupFails \/ PeriodicFails
      PROVE  UNCHANGED evidence
  BY <1>6 DEF Crash, Restart, StartupScan, PeriodicScan, StartupFails, PeriodicFails
<1> QED
  BY <1>1, <1>2, <1>3, <1>4, <1>5, <1>6
  DEF Next, Startup, Periodic, Trouble, Finalises

\* Only these fields of a record are ever read by a worker that executes.
SameOutcomes ==
    \A a \in Attempts : /\ evidence'[a].claimed = evidence[a].claimed
                        /\ evidence'[a].sealed = evidence[a].sealed
                        /\ evidence'[a].digest = evidence[a].digest

\* A finalisation is finalise_attempt of some attempt.
LEMMA FinalisesOne ==
    ASSUME TypeInv, Finalises
    PROVE  \E a \in Attempts : \E verdict :
              /\ FinaliseAttempt(a, verdict)
              /\ ~Fenced(a) => verdict \in Final
              /\ ~Fenced(a) /\ verdict = "passed" =>
                    evidence[a].digest /\ evidence[a].sealed.verdict = "passed"
<1>0. TypeOK /\ (\A w \in Workers : Placed(w)) /\ Trusted
  BY DEF TypeInv
<1>1. ASSUME NEW w \in Workers, Finalise(w)
      PROVE  /\ worker[w].attempt \in Attempts
             /\ FinaliseAttempt(worker[w].attempt, evidence[worker[w].attempt].sealed.verdict)
             /\ ~Fenced(worker[w].attempt) =>
                   /\ evidence[worker[w].attempt].digest
                   /\ evidence[worker[w].attempt].sealed.verdict \in Final
  <2>1. worker[w].attempt \in Attempts
    BY <1>0, <1>1 DEF Finalise, Placed
  <2>2. FinaliseAttempt(worker[w].attempt, evidence[worker[w].attempt].sealed.verdict)
    BY <1>1 DEF Finalise, FinaliseAttempt
  <2>3. ~Fenced(worker[w].attempt) => evidence[worker[w].attempt].digest
    BY <1>0, <1>1, <2>1 DEF Finalise, Placed, Fenced, Attempts
  <2>4. evidence[worker[w].attempt].digest =>
            evidence[worker[w].attempt].sealed.verdict \in Final
    BY <1>0, <2>1 DEF Trusted, Sealed, TypeOK, EvidenceType, Outcome
  <2> QED BY <2>1, <2>2, <2>3, <2>4
<1>2. ASSUME NEW w \in Workers, FinaliseUntrusted(w)
      PROVE  worker[w].attempt \in Attempts /\ FinaliseAttempt(worker[w].attempt, "failed")
  BY <1>0, <1>2 DEF FinaliseUntrusted, Placed
<1>3. ASSUME NEW a \in Attempts, evidence[a].digest
      PROVE  evidence[a].sealed.verdict \in Final
  BY <1>0, <1>3 DEF Trusted, Sealed, TypeOK, EvidenceType, Outcome
<1>4. ASSUME StartupFinalise
      PROVE  /\ recovery.pick \in Attempts
             /\ FinaliseAttempt(recovery.pick,
                    IF evidence[recovery.pick].digest
                    THEN evidence[recovery.pick].sealed.verdict ELSE "failed")
  BY <1>0, <1>4 DEF StartupFinalise, TypeOK
<1>5. ASSUME PeriodicFinalise
      PROVE  /\ recovery.pick \in Attempts /\ evidence[recovery.pick].digest
             /\ FinaliseAttempt(recovery.pick, evidence[recovery.pick].sealed.verdict)
  BY <1>0, <1>5 DEF PeriodicFinalise, TypeOK, Trusted
<1>6. "failed" \in Final /\ "failed" # "passed"
  BY DEF Final
<1>7. CASE \E w \in Workers : Finalise(w)
  BY <1>1, <1>7
<1>8. CASE \E w \in Workers : FinaliseUntrusted(w)
  BY <1>2, <1>6, <1>8
<1>9. CASE StartupFinalise
  BY <1>3, <1>4, <1>6, <1>9
<1>10. CASE PeriodicFinalise
  BY <1>3, <1>5, <1>10
<1> QED
  BY <1>7, <1>8, <1>9, <1>10 DEF Finalises

LEMMA FinalisesKeeps ==
    ASSUME TypeInv, Finalises
    PROVE  SameOutcomes
<1>1. PICK a \in Attempts :
          \E verdict : FinaliseAttempt(a, verdict) /\ (~Fenced(a) => verdict \in Final)
  BY FinalisesOne
<1>2. PICK verdict : FinaliseAttempt(a, verdict) /\ (~Fenced(a) => verdict \in Final)
  BY <1>1
<1>3. TypeOK
  BY DEF TypeInv
<1> QED
  BY <1>2, <1>3, FinaliseMoves DEF SameOutcomes

-----------------------------------------------------------------------------
(* The run record and the finalised marker are written by one transaction. *)

Counted ==
    \A a \in Attempts : evidence[a].records = IF evidence[a].finalised THEN 1 ELSE 0

LEMMA NextCounted == TypeInv /\ Counted /\ [Next]_vars => Counted'
<1> SUFFICES ASSUME TypeInv, Counted, [Next]_vars PROVE Counted'
  OBVIOUS
<1>0. TypeOK
  BY DEF TypeInv
<1>1. CASE UNCHANGED evidence
  BY <1>1 DEF Counted
<1>2. CASE Finalises
  <2>0. PICK a \in Attempts : \E verdict : FinaliseAttempt(a, verdict)
    BY <1>2, FinalisesOne
  <2>1. PICK verdict : FinaliseAttempt(a, verdict)
    BY <2>0
  <2>2. CASE Fenced(a)
    BY <2>1, <2>2 DEF FinaliseAttempt, Counted
  <2>3. CASE ~Fenced(a)
    <3>1. ~evidence[a].finalised
      BY <2>3 DEF Fenced
    <3>2. evidence' = [evidence EXCEPT ![a].finalised = TRUE, ![a].records = @ + 1]
      BY <2>1, <2>3 DEF FinaliseAttempt
    <3>3. \A b \in Attempts : b # a => evidence'[b] = evidence[b]
      BY <1>0, <3>2 DEF TypeOK
    <3>4. evidence'[a].finalised /\ evidence'[a].records = evidence[a].records + 1
      BY <1>0, <3>2 DEF TypeOK, EvidenceType
    <3> QED BY <3>1, <3>3, <3>4 DEF Counted
  <2> QED BY <2>2, <2>3
<1>3. ASSUME NEW w \in Workers, Begin(w) \/ Seal(w) \/ CommitSeal(w)
      PROVE  Counted'
  <2>1. \A a \in Attempts : /\ evidence'[a].records = evidence[a].records
                            /\ evidence'[a].finalised = evidence[a].finalised
    <3>1. CASE Begin(w)
      BY <1>0, <3>1 DEF Begin, TypeOK, EvidenceType
    <3>2. CASE Seal(w)
      BY <1>0, <3>2 DEF Seal, TypeOK, EvidenceType
    <3>3. CASE CommitSeal(w)
      BY <1>0, <3>3 DEF CommitSeal, TypeOK, EvidenceType
    <3> QED BY <1>3, <3>1, <3>2, <3>3
  <2> QED BY <2>1 DEF Counted
<1> QED
  BY <1>1, <1>2, <1>3, EvidenceWriters

\* The run record of an attempt is appended once, whoever finalises it and
\* however often (finalise_attempt's marker).
THEOREM OneRecordHolds == Spec => []OneRecord
<1>1. Init => Counted
  BY DEF Init, Pinned, Counted
<1>2. Spec => []Counted
  BY <1>1, TypeInvHolds, NextCounted, PTL DEF Spec
<1>3. Counted => OneRecord
  BY DEF Counted, OneRecord
<1> QED
  BY <1>2, <1>3, PTL

-----------------------------------------------------------------------------
(* Whoever executes an attempt created its execution.json.                 *)

Owned ==
    \A w \in Workers : Executing(w) => evidence[worker[w].attempt].claimed

LEMMA ClaimsStay ==
    ASSUME TypeInv, [Next]_vars, NEW a \in Attempts, evidence[a].claimed
    PROVE  evidence'[a].claimed
<1>0. TypeOK
  BY DEF TypeInv
<1>1. ASSUME NEW w \in Workers, Begin(w) PROVE evidence'[a].claimed
  BY <1>0, <1>1 DEF Begin, TypeOK, EvidenceType
<1>2. ASSUME NEW w \in Workers, Seal(w) PROVE evidence'[a].claimed
  BY <1>0, <1>2 DEF Seal, TypeOK, EvidenceType
<1>3. ASSUME NEW w \in Workers, CommitSeal(w) PROVE evidence'[a].claimed
  BY <1>0, <1>3 DEF CommitSeal, TypeOK, EvidenceType
<1> QED
  BY <1>1, <1>2, <1>3, EvidenceWriters, FinalisesKeeps DEF SameOutcomes

\* A worker only starts to execute in Begin.
StillExecutes(w) == Executing(w)' => Executing(w) /\ worker'[w].attempt = worker[w].attempt

LEMMA KeepExecutes ==
    ASSUME NEW w \in Workers, NEW pc, Keep(w, pc),
           pc \in {"starting", "running", "stopping", "sealing", "committing"} => Executing(w)
    PROVE  \A v \in Workers : StillExecutes(v)
  BY DEF Keep, Move, StillExecutes, Executing

LEMMA ResetExecutes ==
    ASSUME NEW w \in Workers, Reset(w)
    PROVE  \A v \in Workers : StillExecutes(v)
  BY DEF Reset, Move, StillExecutes, Executing

LEMMA ExecutorsMove ==
    ASSUME TypeInv, [Next]_vars
    PROVE  (\A v \in Workers : StillExecutes(v)) \/ (\E w \in Workers : Begin(w))
<1>0. TypeOK
  BY DEF TypeInv
<1>1. CASE UNCHANGED worker
  BY <1>1 DEF StillExecutes, Executing
<1>2. ASSUME NEW w \in Workers, NEW a \in Attempts, Receive(w, a)
      PROVE  \A v \in Workers : StillExecutes(v)
  <2>1. a \in 0 .. MaxRuns
    BY BoundsAssumption DEF Attempts
  <2>2. UNCHANGED worker \/ Keep(w, "waiting")
    BY <1>0, <1>2, <2>1, ReceiveMoves DEF Receive
  <2> QED BY <2>2, KeepExecutes DEF StillExecutes, Executing
<1>3. ASSUME NEW w \in Workers, MarkCancelled(w) \/ DropMessage(w) \/ LicenceBusy(w)
                                \/ Leave(w) \/ ReleaseFails(w)
      PROVE  \A v \in Workers : StillExecutes(v)
  <2>1. Reset(w)
    BY <1>0, <1>3, IdleMoves DEF MarkCancelled, DropMessage, LicenceBusy, Leave, ReleaseFails
  <2> QED BY <2>1, ResetExecutes
<1>4. ASSUME NEW w \in Workers, GiveUp(w)
      PROVE  \A v \in Workers : StillExecutes(v)
  <2>1. Reset(w) \/ Keep(w, "marking")
    BY <1>0, <1>4, IdleMoves, GotoMoves DEF GiveUp, Goto, Phases
  <2> QED BY <2>1, ResetExecutes, KeepExecutes
<1>5. ASSUME NEW w \in Workers, TryAcquire(w)
      PROVE  \A v \in Workers : StillExecutes(v)
  <2>1. Keep(w, "licensed")
    BY <1>0, <1>5, GotoMoves DEF TryAcquire, Phases
  <2> QED BY <2>1, KeepExecutes
<1>6. ASSUME NEW w \in Workers, Claim(w)
      PROVE  \A v \in Workers : StillExecutes(v)
  <2>1. Keep(w, "leaving") \/ Keep(w, "claimed")
    BY <1>0, <1>6, GotoMoves DEF Claim, Phases
  <2> QED BY <2>1, KeepExecutes
<1>7. ASSUME NEW w \in Workers,
             Finalise(w) \/ FinaliseUntrusted(w) \/ MarkFailed(w) \/ HandlerFails(w)
      PROVE  \A v \in Workers : StillExecutes(v)
  <2>1. Keep(w, "leaving")
    BY <1>0, <1>7, GotoMoves DEF Finalise, FinaliseUntrusted, MarkFailed, HandlerFails, Phases
  <2> QED BY <2>1, KeepExecutes
<1>8. ASSUME NEW w \in Workers, Breaks(w) \/ FileFails(w)
      PROVE  \A v \in Workers : StillExecutes(v)
  <2>1. Placed(w)
    BY DEF TypeInv
  <2>2. \/ Move(w, "erring", 0, 0, 0, None) \/ Keep(w, "leaving") \/ Reset(w)
        \/ \E a \in Attempts : Move(w, "untrusted", a, 0, 0, None)
    BY <1>0, <1>8, <2>1, BreaksMoves, FileFailsMoves
  <2> QED BY <2>2 DEF Keep, Reset, Move, StillExecutes, Executing
<1>9. ASSUME NEW w \in Workers, HandleError(w)
      PROVE  \A v \in Workers : StillExecutes(v)
  <2>1. Keep(w, "overwriting") \/ Keep(w, "leaving")
    BY <1>0, <1>9, GotoMoves DEF HandleError, Phases
  <2> QED BY <2>1, KeepExecutes
<1>10. ASSUME NEW w \in Workers, CommitSeal(w)
      PROVE  \A v \in Workers : StillExecutes(v)
  <2>1. Keep(w, "finalising")
    BY <1>0, <1>10, GotoMoves DEF CommitSeal, Phases
  <2> QED BY <2>1, KeepExecutes
<1>11. ASSUME NEW w \in Workers, MonitorTrips(w)
      PROVE  \A v \in Workers : StillExecutes(v)
  <2>1. Keep(w, "stopping") /\ Executing(w)
    BY <1>0, <1>11, GotoMoves DEF MonitorTrips, Phases, Executing
  <2> QED BY <2>1, KeepExecutes
<1>12. ASSUME NEW w \in Workers, Reject(w)
      PROVE  \A v \in Workers : StillExecutes(v)
  <2>1. Move(w, "untrusted", task.run, worker[w].dir, worker[w].target, worker[w].verdict)
    BY <1>0, <1>12, RunType, BeginMoves DEF Reject, Phases
  <2> QED BY <2>1 DEF Move, StillExecutes, Executing
<1>13. ASSUME NEW w \in Workers, StartBackend(w)
      PROVE  \A v \in Workers : StillExecutes(v)
  <2>1. \/ Keep(w, "untrusted")
        \/ Executing(w) /\ Move(w, "running", worker[w].attempt, task.run, worker[w].target,
                               worker[w].verdict)
    BY <1>0, <1>13, RunType, BackendMoves, GotoMoves DEF StartBackend, Goto, Phases, Executing
  <2> QED BY <2>1, KeepExecutes DEF Move, StillExecutes, Executing
<1>14. ASSUME NEW w \in Workers, NEW x \in Final, RunEnds(w, x)
      PROVE  \A v \in Workers : StillExecutes(v)
  <2>1. /\ Executing(w)
        /\ Move(w, "sealing", worker[w].attempt, worker[w].dir, worker[w].target, x)
    BY <1>0, <1>14 DEF RunEnds, TypeOK, WorkerType, Phases, Move, Executing
  <2> QED BY <2>1 DEF Move, StillExecutes, Executing
<1>15. ASSUME NEW w \in Workers, Seal(w)
      PROVE  \A v \in Workers : StillExecutes(v)
  <2>1. Executing(w) /\ Placed(w)
    BY <1>15 DEF Seal, Executing, TypeInv
  <2>2. Row(w).run \in 0 .. MaxRuns
    BY <1>0, RunType DEF Row, TypeOK, WorkerType
  <2>3. \/ Keep(w, "finalising") \/ Keep(w, "untrusted")
        \/ Move(w, "committing", worker[w].attempt, worker[w].dir, Row(w).run, worker[w].verdict)
    BY <1>0, <1>15, <2>2, GotoMoves, SealMoves DEF Seal, Phases
  <2> QED BY <2>1, <2>3, KeepExecutes DEF Move, StillExecutes, Executing
<1>16. ASSUME Crash
      PROVE  \A v \in Workers : StillExecutes(v)
  BY <1>16 DEF Crash, Idle, StillExecutes, Executing
<1>17. \/ UNCHANGED worker \/ Crash
      \/ \E w \in Workers : \/ Step(w) \/ DropMessage(w) \/ FileFails(w) \/ Breaks(w)
                           \/ HandlerFails(w) \/ ReleaseFails(w)
  <2>1. CASE User
    BY <2>1 DEF User, Retest, RequestOpen, RequestWrite, Delete, Restore
  <2>2. CASE Startup
    BY <2>2 DEF Startup, Restart, StartupScan, StartupFinalise
  <2>3. CASE Periodic
    BY <2>3 DEF Periodic, PeriodicScan, PeriodicFinalise, Republish
  <2>4. CASE Trouble
    BY <2>4 DEF Trouble, EnqueueFails, EnqueueLost, StartupFails, PeriodicFails
  <2>5. CASE \E a \in Attempts : Enqueue(a)
    BY <2>5 DEF Enqueue
  <2> QED BY <2>1, <2>2, <2>3, <2>4, <2>5 DEF Next, vars
<1> QED
  BY <1>1, <1>2, <1>3, <1>4, <1>5, <1>6, <1>7, <1>8, <1>9, <1>10, <1>11, <1>12, <1>13, <1>14, <1>15, <1>16, <1>17 DEF Step

LEMMA NextOwned ==
    TypeInv /\ Owned /\ SoleExecutor /\ [Next]_vars => Owned' /\ SoleExecutor'
<1> SUFFICES ASSUME TypeInv, Owned, SoleExecutor, [Next]_vars
             PROVE  Owned' /\ SoleExecutor'
  OBVIOUS
<1>0. TypeOK /\ (\A w \in Workers : Placed(w))
  BY DEF TypeInv
<1>1. CASE \A v \in Workers : StillExecutes(v)
  <2>1. \A v \in Workers : Executing(v) => worker[v].attempt \in Attempts
    BY <1>0 DEF Placed
  <2>2. Owned'
    BY <1>1, <2>1, ClaimsStay DEF Owned, StillExecutes
  <2>3. SoleExecutor'
    BY <1>1 DEF SoleExecutor, StillExecutes
  <2> QED BY <2>2, <2>3
<1>2. ASSUME NEW w \in Workers, Begin(w) PROVE Owned' /\ SoleExecutor'
  <2>1. task.run \in Attempts /\ task.run \in 0 .. MaxRuns
    BY <1>0, RunType
  <2>2. \A v \in Workers : v # w => worker'[v] = worker[v]
    BY <1>0, <1>2 DEF Begin, TypeOK
  <2>3. \A v \in Workers : v # w => StillExecutes(v)
    BY <2>2 DEF StillExecutes, Executing
  <2>4. Executing(w)' =>
            /\ worker'[w].attempt = task.run
            /\ ~evidence[task.run].claimed
            /\ evidence'[task.run].claimed
    <3>1. CASE /\ ~ExecutionClaimed(task.run)
               /\ evidence' = [evidence EXCEPT ![task.run].claimed = TRUE]
      <4>1. evidence'[task.run].claimed
        BY <1>0, <2>1, <3>1 DEF TypeOK, EvidenceType
      <4>2. worker'[w].attempt = task.run
        BY <1>0, <1>2, <2>1 DEF Begin, TypeOK, WorkerType
      <4> QED BY <3>1, <4>1, <4>2 DEF ExecutionClaimed
    <3>2. CASE \E pc \in {"untrusted", "finalising", "leaving"} :
                  worker' = [worker EXCEPT ![w].pc = pc, ![w].attempt = task.run]
      <4>1. PICK pc \in {"untrusted", "finalising", "leaving"} :
                worker' = [worker EXCEPT ![w].pc = pc, ![w].attempt = task.run]
        BY <3>2
      <4>2. Move(w, pc, task.run, worker[w].dir, worker[w].target, worker[w].verdict)
        BY <1>0, <2>1, <4>1, BeginMoves DEF Phases
      <4> QED BY <4>1, <4>2 DEF Move, Executing
    <3> QED BY <1>2, <3>1, <3>2 DEF Begin
  <2>5. \A v \in Workers : Executing(v) =>
            worker[v].attempt \in Attempts /\ evidence[worker[v].attempt].claimed
    BY <1>0 DEF Placed, Owned
  <2>6. Owned'
    BY <2>3, <2>4, <2>5, ClaimsStay DEF Owned, StillExecutes
  <2>7. SoleExecutor'
    BY <2>3, <2>4, <2>5 DEF SoleExecutor, StillExecutes
  <2> QED BY <2>6, <2>7
<1> QED
  BY <1>1, <1>2, ExecutorsMove

\* No two workers execute the same attempt: the exclusive creation of
\* execution.json decides, whatever happens to the row and its messages.
THEOREM SoleExecutorHolds == Spec => []SoleExecutor
<1>1. Init => Owned /\ SoleExecutor
  BY DEF Init, Idle, Owned, SoleExecutor, Executing
<1>2. Spec => [](Owned /\ SoleExecutor)
  BY <1>1, TypeInvHolds, NextOwned, PTL DEF Spec
<1> QED
  BY <1>2, PTL

-----------------------------------------------------------------------------
(* A task only passes with a bound outcome that says so.                   *)

\* Once its digest is bound, what an outcome says is never touched again.
LEMMA BoundStays ==
    ASSUME TypeInv, [Next]_vars, NEW a \in Attempts, evidence[a].digest
    PROVE  evidence'[a].digest /\ evidence'[a].sealed = evidence[a].sealed
<1>0. TypeOK /\ Trusted /\ (\A w \in Workers : Placed(w))
  BY DEF TypeInv
<1>1. ASSUME NEW w \in Workers, Begin(w)
      PROVE  evidence'[a].digest /\ evidence'[a].sealed = evidence[a].sealed
  BY <1>0, <1>1 DEF Begin, TypeOK, EvidenceType
<1>2. ASSUME NEW w \in Workers, Seal(w)
      PROVE  evidence'[a].digest /\ evidence'[a].sealed = evidence[a].sealed
  <2>1. Sealed(a)
    BY <1>0 DEF Trusted
  <2> QED BY <1>0, <1>2, <2>1 DEF Seal, TypeOK, EvidenceType
<1>3. ASSUME NEW w \in Workers, CommitSeal(w)
      PROVE  evidence'[a].digest /\ evidence'[a].sealed = evidence[a].sealed
  BY <1>0, <1>3 DEF CommitSeal, TypeOK, EvidenceType
<1> QED
  BY <1>1, <1>2, <1>3, EvidenceWriters, FinalisesKeeps DEF SameOutcomes

\* Who writes the row.
LEMMA TaskWriters ==
    ASSUME [Next]_vars
    PROVE  \/ UNCHANGED task \/ Retest \/ Finalises
           \/ \E a \in Attempts : EnqueueFails(a)
           \/ \E r \in Requests : RequestWrite(r) \/ Delete(r) \/ Restore(r)
           \/ \E w \in Workers : MarkCancelled(w) \/ Claim(w) \/ MarkFailed(w)
<1>1. CASE User
  BY <1>1 DEF User, RequestOpen
<1>2. CASE Startup
  BY <1>2 DEF Startup, Restart, StartupScan, Finalises
<1>3. CASE Periodic
  BY <1>3 DEF Periodic, PeriodicScan, Republish, Finalises
<1>4. CASE Trouble
  BY <1>4 DEF Trouble, EnqueueLost, DropMessage, FileFails, Breaks, HandlerFails,
              ReleaseFails, StartupFails, PeriodicFails, Crash
<1>5. CASE \E a \in Attempts : Enqueue(a)
  BY <1>5 DEF Enqueue
<1>6. CASE UNCHANGED vars
  BY <1>6 DEF vars
<1>7. ASSUME NEW w \in Workers, Step(w)
      PROVE  \/ UNCHANGED task
             \/ MarkCancelled(w) \/ Claim(w) \/ MarkFailed(w)
             \/ Finalise(w) \/ FinaliseUntrusted(w)
  BY <1>7 DEF Step, Receive, GiveUp, TryAcquire, LicenceBusy, Leave, Begin, Reject,
              StartBackend, MonitorTrips, RunEnds, Seal, CommitSeal, HandleError
<1> QED BY <1>1, <1>2, <1>3, <1>4, <1>5, <1>6, <1>7 DEF Next, Finalises

\* Only a finalisation lets a task pass.
LEMMA WhoPasses ==
    ASSUME TypeInv, [Next]_vars, task'.status = "passed", ~Finalises
    PROVE  task.status = "passed" /\ task'.run = task.run
<1>0. TypeOK
  BY DEF TypeInv
<1>1. CASE UNCHANGED task
  BY <1>1
<1>2. ASSUME NEW a \in Attempts, EnqueueFails(a)
      PROVE  task.status = "passed" /\ task'.run = task.run
  BY <1>0, <1>2 DEF EnqueueFails, FailSubmission, TypeOK, TaskType
<1>3. CASE Retest
  BY <1>3 DEF Retest
<1>4. ASSUME NEW r \in Requests, RequestWrite(r)
      PROVE  task.status = "passed" /\ task'.run = task.run
  BY <1>0, <1>4 DEF RequestWrite, CancelLoaded, TypeOK, TaskType
<1>5. ASSUME NEW r \in Requests, Delete(r) \/ Restore(r)
      PROVE  task.status = "passed" /\ task'.run = task.run
  BY <1>0, <1>5 DEF Delete, Restore, TypeOK, TaskType
<1>6. ASSUME NEW w \in Workers, MarkCancelled(w) \/ Claim(w) \/ MarkFailed(w)
      PROVE  task.status = "passed" /\ task'.run = task.run
  BY <1>0, <1>6 DEF MarkCancelled, Claim, MarkFailed, TypeOK, TaskType
<1> QED
  BY <1>1, <1>2, <1>3, <1>4, <1>5, <1>6, TaskWriters

LEMMA NextPassed ==
    TypeInv /\ PassedIsSealed /\ [Next]_vars => PassedIsSealed'
<1> SUFFICES ASSUME TypeInv, PassedIsSealed, [Next]_vars, task'.status = "passed"
             PROVE  /\ evidence'[task'.run].digest
                    /\ evidence'[task'.run].sealed.verdict = "passed"
  BY DEF PassedIsSealed
<1>0. TypeOK
  BY DEF TypeInv
<1>1. CASE task.status = "passed" /\ task'.run = task.run
  <2>1. task.run \in Attempts
    BY <1>0, RunType
  <2>2. evidence[task.run].digest /\ evidence[task.run].sealed.verdict = "passed"
    BY <1>1 DEF PassedIsSealed
  <2> QED BY <1>1, <2>1, <2>2, BoundStays
<1>2. CASE Finalises
  <2>0. PICK a \in Attempts :
          \E verdict :
            /\ FinaliseAttempt(a, verdict)
            /\ ~Fenced(a) => verdict \in Final
            /\ ~Fenced(a) /\ verdict = "passed" =>
                  evidence[a].digest /\ evidence[a].sealed.verdict = "passed"
    BY <1>2, FinalisesOne
  <2>1. PICK verdict :
            /\ FinaliseAttempt(a, verdict)
            /\ ~Fenced(a) => verdict \in Final
            /\ ~Fenced(a) /\ verdict = "passed" =>
                  evidence[a].digest /\ evidence[a].sealed.verdict = "passed"
    BY <2>0
  <2>2. CASE Fenced(a)
    <3>1. UNCHANGED task
      BY <2>1, <2>2 DEF FinaliseAttempt
    <3> QED BY <1>1, <3>1
  <2>3. CASE ~Fenced(a)
    <3>1. task' = [task EXCEPT !.status = verdict]
      BY <2>1, <2>3 DEF FinaliseAttempt
    <3>2. task'.status = verdict /\ task'.run = a
      BY <1>0, <2>3, <3>1 DEF TypeOK, TaskType, Fenced
    <3>3. evidence[a].digest /\ evidence[a].sealed.verdict = "passed"
      BY <2>1, <2>3, <3>2
    <3>4. evidence'[a].digest = evidence[a].digest /\ evidence'[a].sealed = evidence[a].sealed
      BY <1>2, FinalisesKeeps DEF SameOutcomes
    <3> QED BY <3>2, <3>3, <3>4
  <2> QED BY <2>2, <2>3
<1> QED
  BY <1>1, <1>2, WhoPasses

\* A task only shows "passed" with a committed outcome that says so, whatever
\* is cancelled, deleted, restored, retested, lost or broken on the way.
THEOREM PassedIsSealedHolds == Spec => []PassedIsSealed
<1>1. Init => PassedIsSealed
  BY DEF Init, PassedIsSealed
<1> QED
  BY <1>1, TypeInvHolds, NextPassed, PTL DEF Spec

-----------------------------------------------------------------------------
(* Licences: who holds one, and what the counter says.                     *)

Holding(w) == worker[w].pc \notin {"idle", "waiting", "marking"}

(* While the worker process is down or starting nobody works, so that the   *)
(* counter that Restart resets is right when the workers start again.       *)
Licensed ==
    /\ recovery.mode # "up" => \A w \in Workers : worker[w].pc = "idle"
    /\ recovery.mode = "starting" => inUse = 0 /\ leaked = 0
    /\ LicencesAccounted

LEMMA HoldersFinite == IsFiniteSet(Holders) /\ Cardinality(Holders) \in Nat
  BY BoundsAssumption, FS_Subset, FS_CardinalityType DEF Holders

LEMMA NoHolders ==
    ASSUME \A w \in Workers : worker[w].pc = "idle"
    PROVE  Cardinality(Holders) = 0
<1>1. Holders = {}
  BY DEF Holders, Holding
<1> QED
  BY <1>1, FS_EmptySet

\* A step that leaves the counter, the process and every holder as they were.
Undisturbed ==
    /\ UNCHANGED <<inUse, leaked>> /\ recovery'.mode = recovery.mode
    /\ \A v \in Workers : Holding(v)' <=> Holding(v)
    /\ recovery.mode = "up" \/ UNCHANGED worker

LEMMA UndisturbedLicensed ==
    ASSUME Licensed, Undisturbed
    PROVE  Licensed'
<1>1. Holders' = Holders
  BY DEF Undisturbed, Holders, Holding
<1> QED
  BY <1>1 DEF Licensed, LicencesAccounted, Undisturbed

LEMMA KeepHolds ==
    ASSUME NEW w \in Workers, NEW pc, Keep(w, pc), UNCHANGED <<inUse, leaked, recovery>>,
           recovery.mode = "up",
           Holding(w) <=> pc \notin {"idle", "waiting", "marking"}
    PROVE  Undisturbed
  BY DEF Keep, Move, Undisturbed, Holding

\* Every step of a worker but try_acquire and release.
HoldingStep(w) ==
    \/ Claim(w) \/ Begin(w) \/ Reject(w) \/ StartBackend(w) \/ MonitorTrips(w)
    \/ \E v \in Final : RunEnds(w, v)
    \/ Seal(w) \/ CommitSeal(w) \/ Finalise(w) \/ FinaliseUntrusted(w)
    \/ HandleError(w) \/ MarkFailed(w) \/ HandlerFails(w) \/ FileFails(w)
    \/ Breaks(w) /\ worker[w].pc # "marking"

IdleStep(w) ==
    \/ \E a \in Attempts : Receive(w, a)
    \/ GiveUp(w) \/ MarkCancelled(w) \/ LicenceBusy(w) \/ DropMessage(w)
    \/ Breaks(w) /\ worker[w].pc = "marking"

LEMMA WorkerStepMoves ==
    ASSUME TypeOK, NEW w \in Workers, HoldingStep(w) \/ IdleStep(w)
    PROVE  /\ UNCHANGED <<inUse, leaked, recovery>>
           /\ \A v \in Workers : v # w => worker'[v] = worker[v]
  BY DEF HoldingStep, IdleStep, TypeOK, Goto,
         Claim, Begin, Reject, StartBackend, MonitorTrips, RunEnds, Seal, CommitSeal,
         Finalise, FinaliseUntrusted, HandleError, MarkFailed, HandlerFails, FileFails, Breaks,
         Receive, GiveUp, MarkCancelled, LicenceBusy, DropMessage

LEMMA HoldingStepHolds ==
    ASSUME TypeOK, NEW w \in Workers, HoldingStep(w)
    PROVE  Holding(w) /\ Holding(w)'
<1>1. worker \in [Workers -> WorkerType]
  BY DEF TypeOK
<1>2. CASE Claim(w) \/ MonitorTrips(w) \/ CommitSeal(w) \/ Finalise(w)
           \/ FinaliseUntrusted(w) \/ HandleError(w) \/ MarkFailed(w) \/ HandlerFails(w)
  BY <1>1, <1>2 DEF Claim, MonitorTrips, CommitSeal, Finalise, FinaliseUntrusted,
         HandleError, MarkFailed, HandlerFails, Goto, Holding, WorkerType
<1>7. CASE FileFails(w) \/ (Breaks(w) /\ worker[w].pc # "marking")
  BY <1>1, <1>7 DEF FileFails, Breaks, Goto, Unwound, Idle, Holding, WorkerType
<1>3. CASE Begin(w)
  BY <1>1, <1>3 DEF Begin, Holding, WorkerType
<1>4. CASE Reject(w) \/ StartBackend(w)
  BY <1>1, <1>4 DEF Reject, StartBackend, Holding, WorkerType
<1>5. CASE Seal(w)
  BY <1>1, <1>5 DEF Seal, Goto, Holding, WorkerType
<1>6. CASE \E v \in Final : RunEnds(w, v)
  BY <1>1, <1>6 DEF RunEnds, Holding, WorkerType
<1> QED
  BY <1>2, <1>3, <1>4, <1>5, <1>6, <1>7 DEF HoldingStep

LEMMA IdleStepHolds ==
    ASSUME TypeOK, NEW w \in Workers, IdleStep(w)
    PROVE  ~Holding(w) /\ ~Holding(w)' /\ (recovery.mode = "up" \/ worker[w].pc # "idle")
<1>1. worker \in [Workers -> WorkerType]
  BY DEF TypeOK
<1>2. CASE \E a \in Attempts : Receive(w, a)
  BY <1>1, <1>2 DEF Receive, Holding, WorkerType
<1>3. CASE \/ GiveUp(w) \/ MarkCancelled(w) \/ LicenceBusy(w) \/ DropMessage(w)
           \/ Breaks(w) /\ worker[w].pc = "marking"
  BY <1>1, <1>3 DEF GiveUp, MarkCancelled, LicenceBusy, DropMessage, Breaks, Holding, WorkerType, Idle
<1> QED
  BY <1>2, <1>3 DEF IdleStep

LEMMA NextLicensed == TypeOK /\ Licensed /\ [Next]_vars => Licensed'
<1> SUFFICES ASSUME TypeOK, Licensed, [Next]_vars PROVE Licensed'
  OBVIOUS
<1>0. worker \in [Workers -> WorkerType] /\ inUse \in Nat /\ leaked \in Nat
  BY BoundsAssumption DEF TypeOK
<1>1. CASE UNCHANGED <<worker, inUse, leaked, recovery>>
  <2>1. Undisturbed
    BY <1>1 DEF Undisturbed, Holding
  <2> QED BY <2>1, UndisturbedLicensed
<1>2. ASSUME NEW w \in Workers, HoldingStep(w) \/ IdleStep(w) PROVE Licensed'
  <2>1. recovery.mode = "up"
    <3>1. CASE HoldingStep(w)
      BY <3>1, HoldingStepHolds DEF Holding, Licensed
    <3>2. CASE IdleStep(w)
      BY <3>2, IdleStepHolds DEF Licensed
    <3> QED BY <1>2, <3>1, <3>2
  <2>2. Holding(w)' <=> Holding(w)
    BY <1>2, HoldingStepHolds, IdleStepHolds
  <2>3. \A v \in Workers : v # w => (Holding(v)' <=> Holding(v))
    BY <1>2, WorkerStepMoves DEF Holding
  <2>4. Undisturbed
    BY <1>2, <2>1, <2>2, <2>3, WorkerStepMoves DEF Undisturbed
  <2> QED BY <2>4, UndisturbedLicensed
<1>3. ASSUME NEW w \in Workers, TryAcquire(w) PROVE Licensed'
  <2>1. recovery.mode = "up" /\ recovery' = recovery /\ inUse' = inUse + 1 /\ leaked' = leaked
    BY <1>3 DEF TryAcquire, Licensed
  <2>2. Keep(w, "licensed") /\ ~Holding(w)
    BY <1>3, GotoMoves DEF TryAcquire, Phases, Holding
  <2>3. Holders' = Holders \cup {w} /\ w \notin Holders
    BY <2>2 DEF Keep, Move, Holders, Holding
  <2>4. Cardinality(Holders') = Cardinality(Holders) + 1
    BY <2>3, HoldersFinite, FS_AddElement
  <2> QED BY <1>0, <2>1, <2>4, HoldersFinite DEF Licensed, LicencesAccounted
<1>4. ASSUME NEW w \in Workers, Leave(w) \/ ReleaseFails(w) PROVE Licensed'
  <2>1. recovery.mode = "up" /\ recovery' = recovery
    BY <1>4 DEF Leave, ReleaseFails, Licensed
  <2>2. Reset(w) /\ Holding(w)
    BY <1>4, IdleMoves DEF Leave, ReleaseFails, Holding
  <2>3. Holders' = Holders \ {w} /\ w \in Holders
    BY <2>2 DEF Reset, Move, Holders, Holding
  <2>4. Cardinality(Holders') = Cardinality(Holders) - 1
    BY <2>3, HoldersFinite, FS_RemoveElement
  <2>5. Cardinality(Holders) # 0
    BY <2>3, HoldersFinite, FS_EmptySet
  <2>6. inUse = Cardinality(Holders) + leaked /\ inUse > 0
    BY <1>0, <2>1, <2>5, HoldersFinite DEF Licensed, LicencesAccounted
  <2>7. \/ inUse' = inUse - 1 /\ leaked' = leaked
        \/ inUse' = inUse /\ leaked' = leaked + 1
    BY <1>4, <2>6 DEF Leave, ReleaseFails
  <2> QED BY <1>0, <2>1, <2>4, <2>6, <2>7, HoldersFinite DEF Licensed, LicencesAccounted
<1>5. CASE Crash
  BY <1>5 DEF Crash, Idle, Licensed, LicencesAccounted
<1>6. CASE Restart
  BY <1>6 DEF Restart, Licensed, LicencesAccounted, TypeOK
<1>7. CASE StartupScan \/ StartupFinalise \/ StartupFails
  <2>1. recovery.mode = "starting" /\ UNCHANGED <<worker, inUse, leaked>>
    BY <1>7 DEF StartupScan, StartupFinalise, StartupFails
  <2>2. recovery'.mode \in {"starting", "up"}
    BY <1>7 DEF StartupScan, StartupFinalise, StartupFails, TypeOK
  <2>3. \A w \in Workers : worker'[w].pc = "idle"
    BY <2>1 DEF Licensed
  <2>4. Cardinality(Holders') = 0
    <3>1. Holders' = {}
      BY <2>3 DEF Holders, Holding
    <3> QED BY <3>1, FS_EmptySet
  <2> QED BY <2>1, <2>2, <2>3, <2>4 DEF Licensed, LicencesAccounted
<1>8. CASE Periodic \/ PeriodicFails
  <2>1. recovery'.mode = recovery.mode /\ UNCHANGED <<worker, inUse, leaked>>
    BY <1>8 DEF Periodic, PeriodicScan, PeriodicFinalise, PeriodicFails, Republish, TypeOK
  <2>2. Undisturbed
    BY <2>1 DEF Undisturbed, Holding
  <2> QED BY <2>2, UndisturbedLicensed
<1>9. CASE User
  BY <1>1, <1>9 DEF User, Retest, RequestOpen, RequestWrite, Delete, Restore
<1>10. CASE \E a \in Attempts : Enqueue(a) \/ EnqueueFails(a) \/ EnqueueLost(a)
  BY <1>1, <1>10 DEF Enqueue, EnqueueFails, EnqueueLost
<1>11. ASSUME NEW w \in Workers, Step(w)
       PROVE  HoldingStep(w) \/ IdleStep(w) \/ TryAcquire(w) \/ Leave(w)
  BY <1>11 DEF Step, HoldingStep, IdleStep
<1>12. ASSUME NEW w \in Workers,
              DropMessage(w) \/ FileFails(w) \/ Breaks(w) \/ HandlerFails(w)
       PROVE  HoldingStep(w) \/ IdleStep(w)
  BY <1>12 DEF HoldingStep, IdleStep
<1>13. CASE \E w \in Workers : Step(w)
  BY <1>2, <1>3, <1>4, <1>11, <1>13
<1>14. CASE Trouble
  BY <1>2, <1>4, <1>5, <1>7, <1>8, <1>10, <1>12, <1>14 DEF Trouble
<1>15. CASE Startup
  BY <1>6, <1>7, <1>15 DEF Startup
<1>16. CASE UNCHANGED vars
  BY <1>1, <1>16 DEF vars
<1> QED
  BY <1>8, <1>9, <1>10, <1>13, <1>14, <1>15, <1>16 DEF Next

\* The counter counts exactly the workers between try_acquire and release and
\* the licences that failed releases kept since the process started: no other
\* end of an attempt keeps a licence, none gives one back twice, and the reset
\* after a crash is right because nobody works yet.
THEOREM LicencesAccountedHolds == Spec => []LicencesAccounted
<1>1. Init => Licensed
  <2> SUFFICES ASSUME Init PROVE Licensed
    OBVIOUS
  <2>1. \A w \in Workers : worker[w].pc = "idle"
    BY DEF Init, Idle
  <2> QED BY <2>1, NoHolders DEF Init, Licensed, LicencesAccounted
<1>2. Licensed => LicencesAccounted
  BY DEF Licensed
<1> QED
  BY <1>1, <1>2, TypeCorrect, NextLicensed, PTL DEF Spec

-----------------------------------------------------------------------------
(* Without requests: a sealed verdict and a final status stand.  (A request *)
(* acts on a row it loaded before, so with requests neither holds.)         *)

\* From the claim to the release a worker pursues the attempt of its message.
Pursued == {"claimed", "starting", "running", "sealing", "committing", "finalising",
            "untrusted", "erring", "overwriting"}

(* The worker has its attempt to itself: as long as no outcome is bound, the *)
(* row is at this attempt and running, and nobody but the worker binds one.  *)
(* Only a file error makes it distrust an outcome that is bound.             *)
Pursues(w) ==
    LET a == worker[w].expected
        pc == worker[w].pc
    IN
    /\ a \in 1 .. task.run
    /\ pc = "claimed" => evidence[a] = Pinned
    /\ pc \notin {"finalising", "erring", "untrusted"} => ~evidence[a].digest
    /\ pc = "untrusted" => ~evidence[a].digest \/ a \in misread
    /\ pc = "finalising" => evidence[a].digest
    /\ pc \notin {"claimed", "erring", "overwriting"} => worker[w].attempt = a
    /\ pc \in {"claimed", "starting", "running", "sealing"} => worker[w].target = 0
    /\ pc = "committing" => worker[w].target = a
    /\ ~evidence[a].digest => task.run = a /\ task.status = "running"
    /\ task.run = a => task.status # "queued"

Pursuit == \A w \in Workers : worker[w].pc \in Pursued => Pursues(w)

Apart ==
    \A v, w \in Workers :
        v # w /\ worker[v].pc \in Pursued /\ worker[w].pc \in Pursued =>
            worker[v].expected # worker[w].expected

(* What a request leaves behind is not there.                               *)
Calm ==
    /\ ~task.cancel /\ ~task.deleted
    /\ \A w \in Workers : worker[w].pc \notin {"marking", "stopping"}

(* What the row says about its attempt.                                     *)
Recorded ==
    /\ \A a \in Attempts : a > task.run => evidence[a] = Pinned
    /\ task.status = "queued" => evidence[task.run] = Pinned
    /\ evidence[task.run].finalised => task.status \in Final
    /\ task.status \in Final /\ evidence[task.run].digest => evidence[task.run].finalised
    /\ RowAgreesWithSeal

(* Startup recovery settles the attempt it found running.                   *)
Picked ==
    /\ recovery.mode = "down" => recovery.pick = None
    /\ recovery.mode = "starting" /\ recovery.pick # None =>
          task.run = recovery.pick /\ task.status = "running"

SealInv == Pursuit /\ Apart /\ Calm /\ Recorded /\ Picked

LEMMA InitSealInv == Init => SealInv
<1> SUFFICES ASSUME Init PROVE SealInv
  OBVIOUS
<1> USE BoundsAssumption DEF Init, Attempts, Idle, Pinned
<1>1. Pursuit /\ Apart
  BY DEF Pursuit, Apart, Pursued
<1>2. Calm /\ Picked
  BY DEF Calm, Picked
<1>3. Recorded
  BY DEF Recorded, RowAgreesWithSeal, Final
<1> QED
  BY <1>1, <1>2, <1>3 DEF SealInv

\* An attempt that was misread stays so.
LEMMA MisreadStays ==
    ASSUME [Next]_vars
    PROVE  misread \subseteq misread'
<1>1. CASE User
  BY <1>1 DEF User, Retest, RequestOpen, RequestWrite, Delete, Restore
<1>2. CASE Startup
  BY <1>2 DEF Startup, Restart, StartupScan, StartupFinalise
<1>3. CASE Periodic
  BY <1>3 DEF Periodic, PeriodicScan, PeriodicFinalise, Republish
<1>4. CASE Trouble
  BY <1>4 DEF Trouble, EnqueueFails, EnqueueLost, DropMessage, FileFails, Breaks,
              HandlerFails, ReleaseFails, StartupFails, PeriodicFails, Crash
<1>5. CASE \E a \in Attempts : Enqueue(a)
  BY <1>5 DEF Enqueue
<1>6. CASE UNCHANGED vars
  BY <1>6 DEF vars
<1>7. ASSUME NEW w \in Workers, Step(w) PROVE misread \subseteq misread'
  BY <1>7 DEF Step, Receive, GiveUp, MarkCancelled, TryAcquire, LicenceBusy, Claim, Leave,
              Begin, Reject, StartBackend, MonitorTrips, RunEnds, Seal, CommitSeal,
              Finalise, FinaliseUntrusted, HandleError, MarkFailed
<1> QED
  BY <1>1, <1>2, <1>3, <1>4, <1>5, <1>6, <1>7 DEF Next

\* Attempt a is, for whoever pursues it, what it was.
Spares(a) ==
    /\ task.run <= task'.run
    /\ \/ evidence'[a] = evidence[a]
       \/ evidence[a].digest /\ evidence'[a].digest
    /\ ~evidence[a].digest /\ task.run = a /\ task.status = "running" =>
          task'.run = a /\ task'.status = "running"
    /\ (task.run = a => task.status # "queued") => (task'.run = a => task'.status # "queued")

LEMMA PursuesStays ==
    ASSUME misread \subseteq misread',
           TypeOK, task' \in TaskType, NEW w \in Workers, Pursues(w),
           worker'[w] = worker[w], Spares(worker[w].expected)
    PROVE  Pursues(w)'
<1> DEFINE a == worker[w].expected
<1>0. task.run \in Int /\ task'.run \in Int /\ ~Pinned.digest
  BY DEF TypeOK, TaskType, Attempts, Pinned
<1>1. a \in 1 .. task'.run
  BY <1>0 DEF Pursues, Spares
<1>2. worker[w].pc = "claimed" => evidence'[a] = Pinned
  BY <1>0 DEF Pursues, Spares
<1>3. evidence'[a].digest = evidence[a].digest
  <2>1. evidence[a].digest \in BOOLEAN
    BY BoundsAssumption DEF TypeOK, TaskType, EvidenceType, Pursues, Attempts
  <2> QED BY <2>1 DEF Spares
<1>4. ~evidence'[a].digest => task'.run = a /\ task'.status = "running"
  BY <1>3 DEF Pursues, Spares
<1>5. task'.run = a => task'.status # "queued"
  BY DEF Pursues, Spares
<1> QED
  BY <1>1, <1>2, <1>3, <1>4, <1>5 DEF Pursues

\* One worker moves, and leaves the others what they pursue.
LEMMA PursuitMoves ==
    ASSUME misread \subseteq misread',
           TypeOK, task' \in TaskType, Pursuit, Apart, NEW w \in Workers,
           \A v \in Workers : v # w => worker'[v] = worker[v],
           \A v \in Workers : v # w /\ worker[v].pc \in Pursued => Spares(worker[v].expected),
           worker'[w].pc \in Pursued =>
               /\ Pursues(w)'
               /\ \/ worker[w].pc \in Pursued /\ worker'[w].expected = worker[w].expected
                  \/ \A v \in Workers : v # w /\ worker[v].pc \in Pursued =>
                         worker[v].expected # worker'[w].expected
    PROVE  Pursuit' /\ Apart'
<1>1. Pursuit'
  BY PursuesStays DEF Pursuit
<1>2. Apart'
  BY DEF Apart
<1> QED
  BY <1>1, <1>2

LEMMA SparesStill ==
    ASSUME TypeOK, UNCHANGED <<task, evidence>>, NEW a
    PROVE  Spares(a)
  BY DEF Spares, TypeOK, TaskType, Attempts

\* Only the record of attempt a changes.
LEMMA SparesOther ==
    ASSUME TypeOK, UNCHANGED task, NEW a, NEW b,
           \A c \in Attempts : c # b => evidence'[c] = evidence[c],
           a \in Attempts, a # b
    PROVE  Spares(a)
  BY DEF Spares, TypeOK, TaskType, Attempts

\* The record of an attempt that is not over and not ahead of the row changes.
LEMMA RecordedUnder ==
    ASSUME misread \subseteq misread',
           TypeOK, Recorded, UNCHANGED task, NEW b \in Attempts, b <= task.run,
           \A c \in Attempts : c # b => evidence'[c] = evidence[c],
           evidence'[b].finalised = evidence[b].finalised,
           b = task.run => task.status = "running"
    PROVE  Recorded'
<1>0. task.run \in Attempts
  BY RunType
<1>1. \A c \in Attempts : c > task.run => c # b
  BY <1>0 DEF Attempts
<1>2. CASE b = task.run
  <2>1. task.status \notin Final /\ task.status # "queued" /\ ~evidence[b].finalised
    BY <1>2 DEF Recorded, Final
  <2> QED BY <1>1, <1>2, <2>1 DEF Recorded, RowAgreesWithSeal
<1>3. CASE b # task.run
  <2>1. evidence'[task.run] = evidence[task.run]
    BY <1>0, <1>3
  <2> QED BY <1>1, <2>1 DEF Recorded, RowAgreesWithSeal
<1> QED
  BY <1>2, <1>3

LEMMA RecordedStill ==
    ASSUME misread \subseteq misread',
           Recorded, UNCHANGED <<task, evidence>>
    PROVE  Recorded'
  BY DEF Recorded, RowAgreesWithSeal

-----------------------------------------------------------------------------
(* Steps of one worker that change neither the row nor any record.         *)

\* Worker w moves; only these fields of it matter here.
Shift(w, pc, expected, attempt, target) ==
    /\ \A v \in Workers : v # w => worker'[v] = worker[v]
    /\ worker'[w].pc = pc /\ worker'[w].expected = expected
    /\ worker'[w].attempt = attempt /\ worker'[w].target = target

LEMMA GotoShifts ==
    ASSUME TypeOK, NEW w \in Workers, NEW pc, Goto(w, pc)
    PROVE  Shift(w, pc, worker[w].expected, worker[w].attempt, worker[w].target)
  BY DEF Goto, TypeOK, WorkerType, Shift

LEMMA IdleShifts ==
    ASSUME TypeOK, NEW w \in Workers, worker' = [worker EXCEPT ![w] = Idle]
    PROVE  Shift(w, "idle", 0, 0, 0)
  BY DEF Idle, TypeOK, Shift

LEMMA BeginShifts ==
    ASSUME TypeOK, NEW w \in Workers, NEW a, NEW pc,
           worker' = [worker EXCEPT ![w].pc = pc, ![w].attempt = a]
    PROVE  Shift(w, pc, worker[w].expected, a, worker[w].target)
  BY DEF TypeOK, WorkerType, Shift

LEMMA VerdictShifts ==
    ASSUME TypeOK, NEW w \in Workers, NEW v, NEW pc,
           worker' = [worker EXCEPT ![w].pc = pc, ![w].verdict = v]
    PROVE  Shift(w, pc, worker[w].expected, worker[w].attempt, worker[w].target)
  BY DEF TypeOK, WorkerType, Shift

LEMMA UnwoundShifts ==
    ASSUME TypeOK, NEW w \in Workers, NEW pc, NEW a,
           worker' = [worker EXCEPT ![w] = Unwound(w, pc, a)]
    PROVE  Shift(w, pc, worker[w].expected, a, 0)
<1>1. /\ Unwound(w, pc, a).pc = pc /\ Unwound(w, pc, a).attempt = a
      /\ Unwound(w, pc, a).expected = worker[w].expected
      /\ Unwound(w, pc, a).target = 0
  BY DEF Unwound, Idle
<1> QED
  BY <1>1 DEF TypeOK, Shift

Quiet(w) ==
    /\ UNCHANGED <<task, evidence, recovery>>
    /\ \A v \in Workers : v # w => worker'[v] = worker[v]
    /\ worker'[w].pc \notin {"marking", "stopping"}
    /\ worker'[w].pc \in Pursued =>
          Pursues(w)' /\ worker[w].pc \in Pursued /\ worker'[w].expected = worker[w].expected

LEMMA QuietKeeps ==
    ASSUME misread \subseteq misread',
           TypeOK, SealInv, NEW w \in Workers, Quiet(w)
    PROVE  SealInv'
<1>1. Pursuit' /\ Apart'
  <2>1. \A v \in Workers : Spares(worker[v].expected)
    BY SparesStill DEF Quiet
  <2>2. task' \in TaskType
    BY DEF Quiet, TypeOK
  <2> QED BY <2>1, <2>2, PursuitMoves DEF Quiet, SealInv
<1>2. Calm'
  BY DEF Quiet, Calm, SealInv
<1>3. Recorded' /\ Picked'
  BY RecordedStill DEF Quiet, Picked, SealInv
<1> QED
  BY <1>1, <1>2, <1>3 DEF SealInv

\* Before the claim, and when it lets go, a worker pursues nothing.
LEMMA QuietOutside ==
    ASSUME TypeOK, SealInv, NEW w \in Workers,
           \/ \E a \in Attempts : Receive(w, a)
           \/ GiveUp(w) \/ DropMessage(w) \/ TryAcquire(w) \/ LicenceBusy(w) \/ Leave(w)
           \/ ReleaseFails(w) \/ HandlerFails(w)
           \/ Breaks(w) /\ worker[w].pc = "licensed"
    PROVE  Quiet(w)
<1>0. Calm
  BY DEF SealInv
<1>1. ASSUME NEW a \in Attempts, Receive(w, a) PROVE Quiet(w)
  <2>1. CASE worker' = worker
    BY <1>1, <2>1 DEF Receive, Quiet, Pursued
  <2>2. CASE worker' = [worker EXCEPT ![w].pc = "waiting", ![w].expected = a]
    <3>1. worker'[w].pc = "waiting" /\ \A v \in Workers : v # w => worker'[v] = worker[v]
      BY <2>2 DEF TypeOK, WorkerType
    <3> QED BY <1>1, <3>1 DEF Receive, Quiet, Pursued
  <2> QED BY <1>1, <2>1, <2>2 DEF Receive
<1>2. ASSUME GiveUp(w) PROVE Quiet(w)
  <2>1. Shift(w, "idle", 0, 0, 0)
    BY <1>0, <1>2, IdleShifts DEF GiveUp, Calm
  <2> QED BY <1>2, <2>1 DEF GiveUp, Quiet, Shift, Pursued
<1>3. ASSUME DropMessage(w) \/ LicenceBusy(w) \/ Leave(w) \/ ReleaseFails(w) PROVE Quiet(w)
  <2>1. Shift(w, "idle", 0, 0, 0)
    BY <1>3, IdleShifts DEF DropMessage, LicenceBusy, Leave, ReleaseFails
  <2> QED
    BY <1>3, <2>1 DEF DropMessage, LicenceBusy, Leave, ReleaseFails, Quiet, Shift, Pursued
<1>4. ASSUME TryAcquire(w) PROVE Quiet(w)
  <2>1. Shift(w, "licensed", worker[w].expected, worker[w].attempt, worker[w].target)
    BY <1>4, GotoShifts DEF TryAcquire
  <2> QED BY <1>4, <2>1 DEF TryAcquire, Quiet, Shift, Pursued
<1>5. ASSUME HandlerFails(w) \/ (Breaks(w) /\ worker[w].pc = "licensed") PROVE Quiet(w)
  <2>1. Shift(w, "leaving", worker[w].expected, worker[w].attempt, worker[w].target)
    BY <1>5, GotoShifts DEF HandlerFails, Breaks
  <2> QED BY <1>5, <2>1 DEF HandlerFails, Breaks, Quiet, Shift, Pursued
<1> QED
  BY <1>1, <1>2, <1>3, <1>4, <1>5

\* A place that fits a worker that pursues its attempt.
Fits(w, pc, attempt, target) ==
    LET a == worker[w].expected
    IN
    /\ pc = "claimed" => evidence[a] = Pinned
    /\ pc \notin {"finalising", "erring", "untrusted"} => ~evidence[a].digest
    /\ pc = "untrusted" => ~evidence[a].digest \/ a \in misread'
    /\ pc = "finalising" => evidence[a].digest
    /\ pc \notin {"claimed", "erring", "overwriting"} => attempt = a
    /\ pc \in {"claimed", "starting", "running", "sealing"} => target = 0
    /\ pc = "committing" => target = a

LEMMA QuietPursuit ==
    ASSUME misread \subseteq misread',
           TypeOK, SealInv, NEW w \in Workers,
           UNCHANGED <<task, evidence, recovery>>, worker[w].pc \in Pursued,
           NEW pc, NEW attempt, NEW target,
           Shift(w, pc, worker[w].expected, attempt, target),
           pc \notin {"marking", "stopping"},
           pc \in Pursued => Fits(w, pc, attempt, target)
    PROVE  Quiet(w)
<1>1. Pursues(w)
  BY DEF SealInv, Pursuit
<1>2. pc \in Pursued => Pursues(w)'
  BY <1>1 DEF Pursues, Shift, Fits
<1> QED
  BY <1>2 DEF Quiet, Shift

LEMMA QuietInside ==
    ASSUME misread \subseteq misread',
           TypeOK, SealInv, NEW w \in Workers,
           \/ Reject(w) \/ StartBackend(w) \/ FileFails(w) \/ HandleError(w)
           \/ Breaks(w) /\ worker[w].pc # "licensed"
           \/ \E v \in Final : RunEnds(w, v)
    PROVE  Quiet(w)
<1>0. Calm /\ Recorded /\ (worker[w].pc \in Pursued => Pursues(w))
  BY DEF SealInv, Pursuit
<1>1. CASE Reject(w)
  <2>1. worker[w].pc = "claimed" /\ worker[w].pc \in Pursued /\ Pursues(w)
    BY <1>0, <1>1 DEF Reject, Pursued
  <2>2. Shift(w, "untrusted", worker[w].expected, task.run, worker[w].target)
    BY <1>1, BeginShifts DEF Reject
  <2>3. task.run = worker[w].expected /\ ~evidence[worker[w].expected].digest
    BY <2>1 DEF Pursues, Pinned
  <2>5. Fits(w, "untrusted", task.run, worker[w].target)
    BY <2>1, <2>2, <2>3 DEF Fits
  <2> QED BY <1>1, <2>1, <2>2, <2>3, <2>5, QuietPursuit DEF Reject
<1>2. CASE StartBackend(w)
  <2>1. worker[w].pc = "starting" /\ worker[w].pc \in Pursued /\ Pursues(w)
    BY <1>0, <1>2 DEF StartBackend, Pursued
  <2>2. worker' = [worker EXCEPT ![w].pc = "running", ![w].dir = task.run]
    BY <1>0, <1>2 DEF StartBackend, Calm
  <2>3. Shift(w, "running", worker[w].expected, worker[w].attempt, worker[w].target)
    BY <2>2 DEF TypeOK, WorkerType, Shift
  <2>4. /\ worker[w].attempt = worker[w].expected /\ worker[w].target = 0
        /\ ~evidence[worker[w].expected].digest
    BY <2>1 DEF Pursues
  <2>5. Fits(w, "running", worker[w].attempt, worker[w].target)
    BY <2>1, <2>3, <2>4 DEF Fits
  <2> QED BY <1>2, <2>1, <2>3, <2>4, <2>5, QuietPursuit DEF StartBackend
<1>3. CASE Breaks(w) /\ worker[w].pc # "licensed"
  <2>1. /\ worker[w].pc \in Pursued
        /\ worker' = [worker EXCEPT ![w] = Unwound(w, "erring", 0)]
    BY <1>0, <1>3 DEF Breaks, Calm, Pursued
  <2>2. Shift(w, "erring", worker[w].expected, 0, 0)
    BY <2>1, UnwoundShifts
  <2>3. Fits(w, "erring", 0, 0)
    BY DEF Fits
  <2> QED BY <1>3, <2>1, <2>2, <2>3, QuietPursuit DEF Breaks
<1>6. CASE FileFails(w)
  <2> DEFINE a == IF worker[w].pc = "claimed" THEN task.run ELSE worker[w].attempt
  <2>1. /\ worker[w].pc \in Pursued \ {"erring", "untrusted", "overwriting"}
        /\ worker' = [worker EXCEPT ![w] = Unwound(w, "untrusted", a)]
        /\ misread' = IF evidence[a].digest THEN misread \cup {a} ELSE misread
    BY <1>0, <1>6 DEF FileFails, Calm, Pursued
  <2>2. a = worker[w].expected
    BY <1>0, <2>1 DEF Pursues, Pinned
  <2> HIDE DEF a
  <2>3. Shift(w, "untrusted", worker[w].expected, a, 0)
    BY <2>1, UnwoundShifts
  <2>4. Fits(w, "untrusted", a, 0)
    BY <2>1, <2>2 DEF Fits
  <2> QED BY <1>6, <2>1, <2>3, <2>4, QuietPursuit DEF FileFails
<1>4. CASE HandleError(w)
  <2> DEFINE a == worker[w].expected
  <2>1. worker[w].pc \in Pursued /\ Pursues(w)
    BY <1>0, <1>4 DEF HandleError, Pursued
  <2>2. CASE Goto(w, "overwriting") /\ task.run = a /\ task.status \notin Final /\ ~HasPendingOutcome(a)
    <3>1. ~evidence[a].digest
      BY <1>0, <2>2 DEF HasPendingOutcome, Recorded
    <3>2. Shift(w, "overwriting", worker[w].expected, worker[w].attempt, worker[w].target)
      BY <2>2, GotoShifts
    <3>3. Fits(w, "overwriting", worker[w].attempt, worker[w].target)
      BY <3>1 DEF Fits
    <3> QED BY <1>4, <2>1, <3>2, <3>3, QuietPursuit DEF HandleError
  <2>3. CASE Goto(w, "leaving")
    <3>1. Shift(w, "leaving", worker[w].expected, worker[w].attempt, worker[w].target)
      BY <2>3, GotoShifts
    <3> QED BY <1>4, <3>1 DEF HandleError, Quiet, Shift, Pursued
  <2> QED BY <1>4, <2>2, <2>3 DEF HandleError
<1>5. ASSUME NEW v \in Final, RunEnds(w, v) PROVE Quiet(w)
  <2>1. worker[w].pc = "running" /\ worker[w].pc \in Pursued /\ Pursues(w)
    BY <1>0, <1>5 DEF RunEnds, Calm, Pursued
  <2>2. Shift(w, "sealing", worker[w].expected, worker[w].attempt, worker[w].target)
    BY <1>5, VerdictShifts DEF RunEnds
  <2>3. /\ worker[w].attempt = worker[w].expected /\ worker[w].target = 0
        /\ ~evidence[worker[w].expected].digest
    BY <2>1 DEF Pursues
  <2>5. Fits(w, "sealing", worker[w].attempt, worker[w].target)
    BY <2>1, <2>2, <2>3 DEF Fits
  <2> QED BY <1>5, <2>1, <2>2, <2>3, <2>5, QuietPursuit DEF RunEnds
<1> QED
  BY <1>1, <1>2, <1>3, <1>4, <1>5, <1>6

-----------------------------------------------------------------------------
(* Steps that write a record or the row.                                   *)

\* A step of w keeps the invariant if it keeps each part.
LEMMA WriterKeeps ==
    ASSUME misread \subseteq misread',
           TypeOK, SealInv, task' \in TaskType, NEW w \in Workers,
           NEW pc, NEW attempt, NEW target,
           Shift(w, pc, worker[w].expected, attempt, target),
           UNCHANGED recovery, ~task'.cancel, ~task'.deleted,
           pc \notin {"marking", "stopping"}, recovery.mode = "up",
           \A v \in Workers : v # w /\ worker[v].pc \in Pursued => Spares(worker[v].expected),
           pc \in Pursued =>
               /\ Pursues(w)'
               /\ \/ worker[w].pc \in Pursued
                  \/ \A v \in Workers : v # w /\ worker[v].pc \in Pursued =>
                         worker[v].expected # worker[w].expected,
           Recorded'
    PROVE  SealInv'
<1>1. Pursuit' /\ Apart'
  BY PursuitMoves DEF Shift, SealInv
<1>2. Calm'
  BY DEF Calm, Shift, SealInv
<1>3. Picked'
  BY DEF Picked
<1> QED
  BY <1>1, <1>2, <1>3 DEF SealInv

\* What a worker that pursues knows of itself and the others.
LEMMA PursuerKnows ==
    ASSUME TypeOK, SealInv, NEW w \in Workers, worker[w].pc \in Pursued
    PROVE  /\ Pursues(w) /\ worker[w].expected \in Attempts
           /\ worker[w].expected <= task.run
           /\ \A v \in Workers : v # w /\ worker[v].pc \in Pursued =>
                 /\ worker[v].expected \in Attempts
                 /\ worker[v].expected # worker[w].expected
<1>1. task.run \in Attempts
  BY RunType
<1>2. \A v \in Workers : worker[v].pc \in Pursued => worker[v].expected \in 1 .. task.run
  BY DEF SealInv, Pursuit, Pursues
<1> QED
  BY <1>1, <1>2, BoundsAssumption DEF SealInv, Pursuit, Apart, Attempts

\* The claim: nobody pursues an attempt that is queued.
LEMMA ClaimKeeps ==
    ASSUME misread \subseteq misread',
           TypeInv, SealInv, Licensed, NEW w \in Workers, Claim(w)
    PROVE  SealInv'
<1>0. TypeOK /\ Placed(w) /\ Calm /\ Recorded
  BY DEF TypeInv, SealInv
<1>1. CASE ShouldCancel(w)
  <2>1. Shift(w, "leaving", worker[w].expected, worker[w].attempt, worker[w].target)
    BY <1>0, <1>1, GotoShifts DEF Claim
  <2>2. Quiet(w)
    BY <1>1, <2>1 DEF Claim, Quiet, Shift, Pursued
  <2> QED BY <1>0, <2>2, QuietKeeps
<1>2. CASE ~ShouldCancel(w)
  <2>1. /\ task.status = "queued" /\ task.run = worker[w].expected
        /\ task' = [task EXCEPT !.status = "running"]
        /\ UNCHANGED <<evidence, recovery>>
    BY <1>2 DEF Claim, ShouldCancel
  <2>2. Shift(w, "claimed", worker[w].expected, worker[w].attempt, worker[w].target)
    BY <1>0, <1>2, GotoShifts DEF Claim
  <2>3. /\ task' \in TaskType /\ task'.status = "running" /\ task'.run = task.run
        /\ ~task'.cancel /\ ~task'.deleted /\ task.run \in Attempts /\ task.run \in Int
    BY <1>0, <2>1, RunType DEF TypeOK, TaskType, Calm, Attempts
  <2>4. recovery.mode = "up" /\ worker[w].target = 0
    BY <1>0 DEF Claim, Licensed, Placed
  <2>5. evidence[task.run] = Pinned
    BY <1>0, <2>1 DEF Recorded
  <2>6. \A v \in Workers : worker[v].pc \in Pursued => worker[v].expected # task.run
    BY <2>1 DEF SealInv, Pursuit, Pursues
  <2>7. \A v \in Workers : worker[v].pc \in Pursued => Spares(worker[v].expected)
    BY <2>1, <2>3, <2>6 DEF Spares
  <2>8. Pursues(w)'
    BY <2>1, <2>2, <2>3, <2>4, <2>5 DEF Pursues, Shift, Pinned, Attempts
  <2>9. Recorded'
    BY <1>0, <2>1, <2>3, <2>5 DEF Recorded, RowAgreesWithSeal, Pinned, Final
  <2>10. recovery' = recovery /\ "claimed" \notin {"marking", "stopping"}
    BY <2>1
  <2>11. \A v \in Workers : v # w /\ worker[v].pc \in Pursued =>
            Spares(worker[v].expected) /\ worker[v].expected # worker[w].expected
    BY <2>1, <2>6, <2>7
  <2> QED BY <1>0, <2>2, <2>3, <2>4, <2>8, <2>9, <2>10, <2>11, WriterKeeps
<1> QED
  BY <1>1, <1>2

LEMMA BeginKeeps ==
    ASSUME misread \subseteq misread',
           TypeInv, SealInv, Licensed, NEW w \in Workers, Begin(w)
    PROVE  SealInv'
<1> DEFINE a == worker[w].expected
<1>0. TypeOK /\ Placed(w) /\ Calm /\ Recorded
  BY DEF TypeInv, SealInv
<1>1. worker[w].pc = "claimed" /\ worker[w].pc \in Pursued /\ recovery.mode = "up"
  BY DEF Begin, Pursued, Licensed
<1>2. /\ Pursues(w) /\ a \in Attempts /\ a <= task.run
      /\ \A v \in Workers : v # w /\ worker[v].pc \in Pursued =>
            worker[v].expected \in Attempts /\ worker[v].expected # a
  BY <1>0, <1>1, PursuerKnows
<1>3. evidence[a] = Pinned /\ task.run = a /\ task.status = "running" /\ worker[w].target = 0
  BY <1>1, <1>2 DEF Pursues, Pinned
<1>4. evidence[a].sealed = None /\ ~evidence[a].claimed /\ ~evidence[a].digest
  BY <1>3 DEF Pinned
<1>5. /\ evidence' = [evidence EXCEPT ![a].claimed = TRUE]
      /\ worker' = [worker EXCEPT ![w].pc = "starting", ![w].attempt = a]
  BY <1>0, <1>3, <1>4 DEF Begin, Sealed, ExecutionClaimed, Calm
<1>6. UNCHANGED <<task, recovery>>
  BY DEF Begin
<1>7. Shift(w, "starting", a, a, worker[w].target)
  BY <1>0, <1>5, BeginShifts
<1>8. /\ \A c \in Attempts : c # a => evidence'[c] = evidence[c]
      /\ ~evidence'[a].digest /\ evidence'[a].finalised = evidence[a].finalised
  BY <1>0, <1>2, <1>4, <1>5 DEF TypeOK, EvidenceType
<1>9. \A v \in Workers : v # w /\ worker[v].pc \in Pursued => Spares(worker[v].expected)
  BY <1>0, <1>2, <1>6, <1>8, SparesOther
<1>10. Pursues(w)'
  BY <1>2, <1>3, <1>6, <1>7, <1>8 DEF Pursues, Shift
<1>11. Recorded'
  BY <1>0, <1>2, <1>3, <1>6, <1>8, RecordedUnder
<1>12. task' \in TaskType /\ ~task'.cancel /\ ~task'.deleted
  BY <1>0, <1>6 DEF TypeOK, Calm
<1>13. recovery' = recovery /\ "starting" \notin {"marking", "stopping"}
  BY <1>6
<1> QED
  BY <1>0, <1>1, <1>7, <1>9, <1>10, <1>11, <1>12, <1>13, WriterKeeps

LEMMA SealKeeps ==
    ASSUME misread \subseteq misread',
           TypeInv, SealInv, Licensed, NEW w \in Workers, Seal(w)
    PROVE  SealInv'
<1> DEFINE a == worker[w].expected
           outcome == [verdict |-> worker[w].verdict, ran |-> worker[w].dir]
<1>0. TypeOK /\ Placed(w) /\ Calm /\ Recorded
  BY DEF TypeInv, SealInv
<1>1. worker[w].pc = "sealing" /\ worker[w].pc \in Pursued /\ recovery.mode = "up"
  BY DEF Seal, Pursued, Licensed
<1>2. /\ Pursues(w) /\ a \in Attempts /\ a <= task.run
      /\ \A v \in Workers : v # w /\ worker[v].pc \in Pursued =>
            worker[v].expected \in Attempts /\ worker[v].expected # a
  BY <1>0, <1>1, PursuerKnows
<1>3. /\ ~evidence[a].digest /\ task.run = a /\ task.status = "running"
      /\ worker[w].attempt = a /\ worker[w].target = 0
  BY <1>1, <1>2 DEF Pursues
<1>4. Row(w).run = a
  BY <1>3 DEF Row
<1>5. UNCHANGED <<task, recovery>>
  BY DEF Seal
<1>6. CASE Goto(w, "untrusted") /\ UNCHANGED evidence
  <2>1. Shift(w, "untrusted", a, worker[w].attempt, worker[w].target)
    BY <1>0, <1>6, GotoShifts
  <2>2. Fits(w, "untrusted", worker[w].attempt, worker[w].target)
    BY <1>3 DEF Fits
  <2>3. Quiet(w)
    BY <1>0, <1>1, <1>5, <1>6, <2>1, <2>2, QuietPursuit
  <2> QED BY <1>0, <2>3, QuietKeeps
<1>7. CASE /\ evidence' = [evidence EXCEPT ![a].sealed = outcome]
           /\ worker' = [worker EXCEPT ![w].pc = "committing", ![w].target = a]
  <2>1. Shift(w, "committing", a, a, a)
    BY <1>0, <1>3, <1>7 DEF TypeOK, WorkerType, Shift
  <2>2. /\ \A c \in Attempts : c # a => evidence'[c] = evidence[c]
        /\ ~evidence'[a].digest /\ evidence'[a].finalised = evidence[a].finalised
    BY <1>0, <1>2, <1>3, <1>7 DEF TypeOK, EvidenceType
  <2>3. \A v \in Workers : v # w /\ worker[v].pc \in Pursued => Spares(worker[v].expected)
    BY <1>0, <1>2, <1>5, <2>2, SparesOther
  <2>4. Pursues(w)'
    BY <1>2, <1>3, <1>5, <2>1, <2>2 DEF Pursues, Shift
  <2>5. Recorded'
    BY <1>0, <1>2, <1>3, <1>5, <2>2, RecordedUnder
  <2>6. task' \in TaskType /\ ~task'.cancel /\ ~task'.deleted
    BY <1>0, <1>5 DEF TypeOK, Calm
  <2>7. recovery' = recovery /\ "committing" \notin {"marking", "stopping"}
    BY <1>5
  <2> QED
    BY <1>0, <1>1, <2>1, <2>3, <2>4, <2>5, <2>6, <2>7, WriterKeeps
<1> QED
  BY <1>3, <1>4, <1>6, <1>7 DEF Seal

LEMMA CommitKeeps ==
    ASSUME misread \subseteq misread',
           TypeInv, SealInv, Licensed, NEW w \in Workers, CommitSeal(w)
    PROVE  SealInv'
<1> DEFINE a == worker[w].expected
<1>0. TypeOK /\ Calm /\ Recorded
  BY DEF TypeInv, SealInv
<1>1. worker[w].pc = "committing" /\ worker[w].pc \in Pursued /\ recovery.mode = "up"
  BY DEF CommitSeal, Pursued, Licensed
<1>2. /\ Pursues(w) /\ a \in Attempts /\ a <= task.run
      /\ \A v \in Workers : v # w /\ worker[v].pc \in Pursued =>
            worker[v].expected \in Attempts /\ worker[v].expected # a
  BY <1>0, <1>1, PursuerKnows
<1>3. /\ ~evidence[a].digest /\ task.run = a /\ task.status = "running"
      /\ worker[w].attempt = a /\ worker[w].target = a
  BY <1>1, <1>2 DEF Pursues
<1>4. /\ evidence' = [evidence EXCEPT ![a].digest = TRUE]
      /\ Goto(w, "finalising")
  BY <1>3 DEF CommitSeal
<1>5. UNCHANGED <<task, recovery>>
  BY DEF CommitSeal
<1>6. Shift(w, "finalising", a, a, a)
  BY <1>0, <1>3, <1>4, GotoShifts
<1>7. /\ \A c \in Attempts : c # a => evidence'[c] = evidence[c]
      /\ evidence'[a].digest /\ evidence'[a].finalised = evidence[a].finalised
  BY <1>0, <1>2, <1>4 DEF TypeOK, EvidenceType
<1>8. \A v \in Workers : v # w /\ worker[v].pc \in Pursued => Spares(worker[v].expected)
  BY <1>0, <1>2, <1>5, <1>7, SparesOther
<1>9. Pursues(w)'
  BY <1>2, <1>3, <1>5, <1>6, <1>7 DEF Pursues, Shift
<1>10. Recorded'
  BY <1>0, <1>2, <1>3, <1>5, <1>7, RecordedUnder
<1>11. task' \in TaskType /\ ~task'.cancel /\ ~task'.deleted
  BY <1>0, <1>5 DEF TypeOK, Calm
<1>12. recovery' = recovery /\ "finalising" \notin {"marking", "stopping"}
  BY <1>5
<1> QED
  BY <1>0, <1>1, <1>6, <1>8, <1>9, <1>10, <1>11, <1>12, WriterKeeps

\* finalise_attempt with the right verdict: the sealed one, if an outcome is
\* bound and was not misread, and otherwise only of an attempt that still runs.
LEMMA FinaliseRight ==
    ASSUME misread \subseteq misread',
           TypeOK, Calm, Recorded, NEW a \in Attempts, NEW verdict,
           FinaliseAttempt(a, verdict),
           ~Fenced(a) => /\ verdict \in Final
                         /\ IF evidence[a].digest
                            THEN verdict = evidence[a].sealed.verdict \/ a \in misread
                            ELSE task.status = "running"
    PROVE  /\ Recorded' /\ task' \in TaskType /\ task'.run = task.run
           /\ ~task'.cancel /\ ~task'.deleted
           /\ task.status \in Final => task'.status = task.status
           /\ \A b \in Attempts : b # a \/ evidence[b].digest => Spares(b)
<1>1. CASE Fenced(a)
  <2>1. UNCHANGED <<task, evidence>>
    BY <1>1 DEF FinaliseAttempt
  <2>2. \A b \in Attempts : Spares(b)
    BY <2>1, SparesStill
  <2>3. Recorded'
    BY <2>1, RecordedStill
  <2> QED BY <2>1, <2>2, <2>3 DEF TypeOK, Calm
<1>2. CASE ~Fenced(a)
  <2>1. /\ task' = [task EXCEPT !.status = verdict]
        /\ evidence' = [evidence EXCEPT ![a].finalised = TRUE, ![a].records = @ + 1]
    BY <1>2 DEF FinaliseAttempt
  <2>2. task.run = a /\ ~evidence[a].finalised /\ verdict \in Final
    BY <1>2 DEF Fenced
  <2>3. /\ task' \in TaskType /\ task'.run = task.run /\ task'.status = verdict
        /\ ~task'.cancel /\ ~task'.deleted /\ task.run \in Int
    BY <2>1, <2>2, RunType DEF TypeOK, TaskType, Calm, Attempts
  <2>4. \A b \in Attempts : b # a => evidence'[b] = evidence[b]
    BY <2>1 DEF TypeOK
  <2>5. /\ evidence'[a].finalised /\ evidence'[a].digest = evidence[a].digest
        /\ evidence'[a].sealed = evidence[a].sealed
    BY <2>1 DEF TypeOK, EvidenceType
  <2>6. task.status \in Final => task'.status = task.status
    BY <1>2, <2>2 DEF Recorded, Final
  <2>7. verdict # "queued" /\ verdict # "running"
    BY <2>2 DEF Final
  <2>8. \A b \in Attempts : b # a \/ evidence[b].digest => Spares(b)
    BY <2>2, <2>3, <2>4, <2>5, <2>7 DEF Spares
  <2>9. \A b \in Attempts : b > task.run => b # a
    BY <2>2, <2>3
  <2>10. Recorded'
    BY <1>2, <2>2, <2>3, <2>4, <2>5, <2>7, <2>9 DEF Recorded, RowAgreesWithSeal
  <2> QED BY <2>3, <2>6, <2>8, <2>10
<1> QED
  BY <1>1, <1>2

\* A worker finalises its own attempt.
LEMMA WorkerFinalises ==
    ASSUME misread \subseteq misread',
           TypeInv, SealInv, Licensed, NEW w \in Workers, Finalise(w) \/ FinaliseUntrusted(w)
    PROVE  SealInv' /\ (task.status \in Final => task'.status = task.status)
<1> DEFINE a == worker[w].expected
<1>0. TypeOK /\ Trusted /\ Calm /\ Recorded
  BY DEF TypeInv, SealInv
<1>1. worker[w].pc \in {"finalising", "untrusted"} /\ worker[w].pc \in Pursued /\ recovery.mode = "up"
  BY DEF Finalise, FinaliseUntrusted, Pursued, Licensed
<1>2. /\ Pursues(w) /\ a \in Attempts
      /\ \A v \in Workers : v # w /\ worker[v].pc \in Pursued =>
            worker[v].expected \in Attempts /\ worker[v].expected # a
  BY <1>0, <1>1, PursuerKnows
<1>3. worker[w].attempt = a
  BY <1>1, <1>2 DEF Pursues
<1>4. PICK verdict :
          /\ FinaliseAttempt(a, verdict)
          /\ verdict \in Final
          /\ IF evidence[a].digest
             THEN verdict = evidence[a].sealed.verdict \/ a \in misread
             ELSE task.status = "running"
  <2>1. CASE Finalise(w)
    <3>1. FinaliseAttempt(a, evidence[a].sealed.verdict)
      BY <1>3, <2>1 DEF Finalise, FinaliseAttempt
    <3>2. evidence[a].digest
      BY <1>2, <2>1 DEF Finalise, Pursues
    <3>3. evidence[a].sealed.verdict \in Final
      BY <1>0, <1>2, <3>2 DEF Trusted, Sealed, TypeOK, EvidenceType, Outcome
    <3> QED BY <3>1, <3>2, <3>3
  <2>2. CASE FinaliseUntrusted(w)
    <3>1. FinaliseAttempt(a, "failed") /\ "failed" \in Final
      BY <1>3, <2>2 DEF FinaliseUntrusted, Final
    <3>2. IF evidence[a].digest THEN a \in misread ELSE task.status = "running"
      BY <1>2, <2>2 DEF FinaliseUntrusted, Pursues
    <3> QED BY <3>1, <3>2
  <2> QED BY <2>1, <2>2
<1>5. /\ Recorded' /\ task' \in TaskType /\ ~task'.cancel /\ ~task'.deleted
      /\ task.status \in Final => task'.status = task.status
      /\ \A b \in Attempts : b # a => Spares(b)
  BY <1>0, <1>2, <1>4, FinaliseRight
<1>6. Shift(w, "leaving", a, worker[w].attempt, worker[w].target)
  BY <1>0, GotoShifts DEF Finalise, FinaliseUntrusted
<1>7. recovery' = recovery
  BY DEF Finalise, FinaliseUntrusted
<1>8. "leaving" \notin Pursued /\ "leaving" \notin {"marking", "stopping"}
  BY DEF Pursued
<1>9. SealInv'
  BY <1>0, <1>1, <1>2, <1>5, <1>6, <1>7, <1>8, WriterKeeps
<1> QED
  BY <1>5, <1>9

\* The handler's failure: no outcome is bound, so the attempt still runs.
LEMMA MarkFailedKeeps ==
    ASSUME misread \subseteq misread',
           TypeInv, SealInv, Licensed, NEW w \in Workers, MarkFailed(w)
    PROVE  SealInv' /\ task.status = "running"
<1> DEFINE a == worker[w].expected
<1>0. TypeOK /\ Calm /\ Recorded
  BY DEF TypeInv, SealInv
<1>1. worker[w].pc = "overwriting" /\ worker[w].pc \in Pursued /\ recovery.mode = "up"
  BY DEF MarkFailed, Pursued, Licensed
<1>2. /\ Pursues(w) /\ a \in Attempts
      /\ \A v \in Workers : v # w /\ worker[v].pc \in Pursued =>
            worker[v].expected \in Attempts /\ worker[v].expected # a
  BY <1>0, <1>1, PursuerKnows
<1>3. ~evidence[a].digest /\ task.run = a /\ task.status = "running"
  BY <1>1, <1>2 DEF Pursues
<1>4. /\ task' = [task EXCEPT !.status = "failed"]
      /\ recovery' = recovery /\ evidence' = evidence
  BY DEF MarkFailed
<1>5. /\ task' \in TaskType /\ task'.run = task.run /\ task'.status = "failed"
      /\ ~task'.cancel /\ ~task'.deleted /\ task.run \in Int
  BY <1>0, <1>4, RunType DEF TypeOK, TaskType, Calm, Final, Attempts
<1>6. Shift(w, "leaving", a, worker[w].attempt, worker[w].target)
  BY <1>0, GotoShifts DEF MarkFailed
<1>7. \A v \in Workers : v # w /\ worker[v].pc \in Pursued => Spares(worker[v].expected)
  BY <1>2, <1>3, <1>4, <1>5 DEF Spares
<1>8. Recorded'
  BY <1>0, <1>3, <1>4, <1>5 DEF Recorded, RowAgreesWithSeal, Final
<1>9. "leaving" \notin Pursued /\ "leaving" \notin {"marking", "stopping"}
  BY DEF Pursued
<1>10. SealInv'
  BY <1>0, <1>1, <1>4, <1>5, <1>6, <1>7, <1>8, <1>9, WriterKeeps
<1> QED
  BY <1>3, <1>10

-----------------------------------------------------------------------------
(* Steps of the web process and of recovery: no worker moves.              *)

LEMMA RowKeeps ==
    ASSUME misread \subseteq misread',
           TypeOK, SealInv, UNCHANGED worker, task' \in TaskType,
           ~task'.cancel, ~task'.deleted, Recorded', Picked',
           \A w \in Workers : worker[w].pc \in Pursued => Spares(worker[w].expected)
    PROVE  SealInv'
<1>1. Pursuit'
  BY PursuesStays DEF Pursuit, SealInv
<1>2. Apart' /\ Calm'
  BY DEF Apart, Calm, SealInv
<1> QED
  BY <1>1, <1>2 DEF SealInv

LEMMA RowStill ==
    ASSUME misread \subseteq misread',
           TypeOK, SealInv, UNCHANGED <<task, evidence, worker>>, Picked'
    PROVE  SealInv'
<1>1. \A b : Spares(b)
  BY SparesStill
<1>2. Recorded' /\ task' \in TaskType /\ ~task'.cancel /\ ~task'.deleted
  BY RecordedStill DEF SealInv, Calm, TypeOK
<1> QED
  BY <1>1, <1>2, RowKeeps

LEMMA PursuedAttempts ==
    ASSUME TypeOK, SealInv, NEW w \in Workers, worker[w].pc \in Pursued
    PROVE  worker[w].expected \in Attempts /\ worker[w].expected <= task.run
  BY PursuerKnows

LEMMA EnqueueFailsKeeps ==
    ASSUME misread \subseteq misread',
           TypeOK, SealInv, NEW a \in Attempts, EnqueueFails(a)
    PROVE  SealInv' /\ (task.status \in Final => task' = task)
<1>0. Calm /\ Recorded /\ Picked
  BY DEF SealInv
<1>1. CASE UNCHANGED task
  BY <1>0, <1>1, RowStill DEF EnqueueFails, Fails, Picked
<1>2. CASE task.status = "queued" /\ task' = [task EXCEPT !.status = "failed"]
  <2>1. /\ task' \in TaskType /\ task'.run = task.run /\ task'.status = "failed"
        /\ ~task'.cancel /\ ~task'.deleted /\ task.run \in Int
    BY <1>0, <1>2, RunType DEF TypeOK, TaskType, Calm, Final, Attempts
  <2>2. UNCHANGED <<evidence, worker, recovery>>
    BY DEF EnqueueFails
  <2>3. \A b : Spares(b)
    BY <1>2, <2>1, <2>2 DEF Spares
  <2>4. Recorded'
    <3>1. ~Pinned.digest /\ ~Pinned.finalised /\ "failed" \in Final
      BY DEF Pinned, Final
    <3>2. evidence[task.run] = Pinned
      BY <1>0, <1>2 DEF Recorded
    <3> QED BY <1>0, <2>1, <2>2, <3>1, <3>2 DEF Recorded, RowAgreesWithSeal
  <2>5. Picked'
    BY <1>0, <1>2, <2>2 DEF Picked
  <2>6. task.status \notin Final
    BY <1>2 DEF Final
  <2> QED BY <2>1, <2>2, <2>3, <2>4, <2>5, <2>6, RowKeeps
<1> QED
  BY <1>1, <1>2 DEF EnqueueFails, FailSubmission

LEMMA RetestKeeps ==
    ASSUME misread \subseteq misread',
           TypeOK, SealInv, Retest
    PROVE  SealInv' /\ task'.run # task.run
<1>0. Calm /\ Recorded /\ Picked
  BY DEF SealInv
<1>1. /\ task.status \in Final /\ task.run < MaxRuns
      /\ task'.status = "queued" /\ task'.run = task.run + 1
      /\ ~task'.cancel /\ ~task'.deleted
      /\ UNCHANGED <<evidence, worker, recovery>>
  BY DEF Retest
<1>2. task.run \in Attempts /\ task.run + 1 \in Attempts
  BY <1>1, RunType, BoundsAssumption DEF Attempts
<1>3. task' \in TaskType
  BY <1>2 DEF Retest, TaskType
<1>4. task.status # "running" /\ task.status # "queued"
  BY <1>1 DEF Final
<1>5. evidence[task.run + 1] = Pinned
  BY <1>0, <1>2 DEF Recorded, Attempts
<1>6. \A w \in Workers : worker[w].pc \in Pursued => Spares(worker[w].expected)
  BY <1>1, <1>2, <1>4, PursuedAttempts DEF Spares, Attempts
<1>7. Recorded'
  <2>1. \A b \in Attempts : b > task'.run => b > task.run
    BY <1>1, <1>2 DEF Attempts
  <2>2. task'.status \notin Final
    BY <1>1 DEF Final
  <2>3. ~Pinned.finalised
    BY DEF Pinned
  <2> QED BY <1>0, <1>1, <1>5, <2>1, <2>2, <2>3 DEF Recorded, RowAgreesWithSeal
<1>8. Picked'
  BY <1>0, <1>1, <1>4 DEF Picked
<1> QED
  BY <1>1, <1>2, <1>3, <1>6, <1>7, <1>8, RowKeeps DEF Attempts

LEMMA StartupFinaliseKeeps ==
    ASSUME misread \subseteq misread',
           TypeInv, SealInv, Licensed, StartupFinalise
    PROVE  SealInv' /\ (task.status \in Final => task'.status = task.status)
<1> DEFINE a == recovery.pick
           verdict == IF evidence[a].digest THEN evidence[a].sealed.verdict ELSE "failed"
<1>0. TypeOK /\ Trusted /\ Calm /\ Recorded /\ Picked
  BY DEF TypeInv, SealInv
<1>1. /\ recovery.mode = "starting" /\ a # None /\ a \in Attempts
      /\ FinaliseAttempt(a, verdict) /\ UNCHANGED worker
      /\ recovery' = [mode |-> "up", pick |-> None]
  BY <1>0 DEF StartupFinalise, TypeOK
<1>2. task.run = a /\ task.status = "running"
  BY <1>0, <1>1 DEF Picked
<1>3. verdict \in Final
  BY <1>0, <1>1 DEF Trusted, Sealed, TypeOK, EvidenceType, Outcome, Final
<1>4. IF evidence[a].digest THEN verdict = evidence[a].sealed.verdict ELSE task.status = "running"
  BY <1>2
<1> HIDE DEF verdict
<1>5. /\ Recorded' /\ task' \in TaskType /\ ~task'.cancel /\ ~task'.deleted
      /\ task.status \in Final => task'.status = task.status
  BY <1>0, <1>1, <1>3, <1>4, FinaliseRight
<1>6. \A w \in Workers : worker[w].pc \notin Pursued
  BY <1>1 DEF Licensed, Pursued
<1>7. Picked'
  BY <1>1 DEF Picked
<1> QED
  BY <1>0, <1>1, <1>5, <1>6, <1>7, RowKeeps

LEMMA PeriodicFinaliseKeeps ==
    ASSUME misread \subseteq misread',
           TypeInv, SealInv, PeriodicFinalise
    PROVE  SealInv' /\ (task.status \in Final => task'.status = task.status)
<1> DEFINE a == recovery.pick
           verdict == evidence[a].sealed.verdict
<1>0. TypeOK /\ Trusted /\ Calm /\ Recorded
  BY DEF TypeInv, SealInv
<1>1. /\ recovery.mode = "up" /\ a # None /\ a \in Attempts
      /\ FinaliseAttempt(a, verdict) /\ UNCHANGED worker
      /\ recovery' = [recovery EXCEPT !.pick = None]
  BY <1>0 DEF PeriodicFinalise, TypeOK
<1>2. evidence[a].digest
  BY <1>0, <1>1 DEF Trusted
<1>3. verdict \in Final
  BY <1>0, <1>1, <1>2 DEF Trusted, Sealed, TypeOK, EvidenceType, Outcome
<1>4. /\ Recorded' /\ task' \in TaskType /\ ~task'.cancel /\ ~task'.deleted
      /\ task.status \in Final => task'.status = task.status
      /\ \A b \in Attempts : b # a \/ evidence[b].digest => Spares(b)
  BY <1>0, <1>1, <1>2, <1>3, FinaliseRight
<1>5. \A w \in Workers : worker[w].pc \in Pursued => Spares(worker[w].expected)
  BY <1>0, <1>2, <1>4, PursuedAttempts
<1>6. Picked'
  BY <1>0, <1>1 DEF Picked, TypeOK
<1> QED
  BY <1>0, <1>1, <1>4, <1>5, <1>6, RowKeeps

\* Recovery's scans and failures, a restart and a crash.
LEMMA ProcessKeeps ==
    ASSUME misread \subseteq misread', TypeOK, SealInv,
           \/ Restart \/ StartupScan \/ PeriodicScan \/ Crash
           \/ StartupFails \/ PeriodicFails
    PROVE  SealInv' /\ UNCHANGED task
<1>0. Calm /\ Recorded /\ Picked
  BY DEF SealInv
<1>1. CASE Restart
  <2>1. recovery.pick = None /\ recovery'.pick = recovery.pick
    BY <1>0, <1>1 DEF Restart, Picked, TypeOK
  <2>2. Picked'
    BY <2>1 DEF Picked
  <2> QED BY <1>1, <2>2, RowStill DEF Restart
<1>2. CASE StartupScan
  <2>1. \/ recovery'.pick = task.run /\ task.status = "running"
        \/ recovery'.mode = "up"
    BY <1>2 DEF StartupScan, Interrupted, TypeOK
  <2>2. recovery'.mode # "down"
    BY <1>2 DEF StartupScan, TypeOK
  <2>3. Picked'
    BY <1>2, <2>1, <2>2 DEF Picked, StartupScan
  <2> QED BY <1>2, <2>3, RowStill DEF StartupScan
<1>3. CASE PeriodicScan
  <2>1. recovery'.mode = "up"
    BY <1>3 DEF PeriodicScan, TypeOK
  <2>2. Picked'
    BY <2>1 DEF Picked
  <2> QED BY <1>3, <2>2, RowStill DEF PeriodicScan
<1>4. CASE Crash
  <2>1. UNCHANGED <<task, evidence>> /\ \A w \in Workers : worker'[w].pc = "idle"
    BY <1>4 DEF Crash, Idle
  <2>2. Pursuit' /\ Apart' /\ Calm'
    BY <1>0, <2>1 DEF Pursuit, Apart, Calm, Pursued
  <2>3. Recorded'
    BY <1>0, <2>1, RecordedStill
  <2>4. Picked'
    BY <1>4 DEF Crash, Picked
  <2> QED BY <2>1, <2>2, <2>3, <2>4 DEF SealInv
<1>5. CASE StartupFails \/ PeriodicFails
  <2>1. UNCHANGED <<task, evidence, worker>> /\ recovery'.mode = "up"
    BY <1>5 DEF StartupFails, PeriodicFails, TypeOK
  <2>2. Picked'
    BY <2>1 DEF Picked
  <2> QED BY <2>1, <2>2, RowStill
<1> QED
  BY <1>1, <1>2, <1>3, <1>4, <1>5

-----------------------------------------------------------------------------
LEMMA NextSealInv ==
    ASSUME Requests = {}, TypeInv, Licensed, SealInv, [Next]_vars
    PROVE  SealInv'
<1>0. TypeOK /\ Calm /\ Picked /\ misread \subseteq misread'
  BY MisreadStays DEF TypeInv, SealInv
<1>1. CASE UNCHANGED <<task, evidence, worker, recovery>>
  BY <1>0, <1>1, RowStill DEF Picked
<1>2. ASSUME NEW a \in Attempts, Enqueue(a) \/ EnqueueFails(a) \/ EnqueueLost(a) \/ Republish(a)
      PROVE  SealInv'
  BY <1>0, <1>1, <1>2, EnqueueFailsKeeps DEF Enqueue, EnqueueLost, Republish
<1>3. CASE User
  <2>1. Retest
    BY <1>3 DEF User
  <2> QED BY <1>0, <2>1, RetestKeeps
<1>4. ASSUME NEW w \in Workers, Step(w) PROVE SealInv'
  <2>1. CASE \/ \E a \in Attempts : Receive(w, a)
             \/ GiveUp(w) \/ TryAcquire(w) \/ LicenceBusy(w) \/ Leave(w)
    BY <1>0, <2>1, QuietOutside, QuietKeeps
  <2>2. CASE \/ Reject(w) \/ StartBackend(w) \/ HandleError(w)
             \/ \E v \in Final : RunEnds(w, v)
    BY <1>0, <2>2, QuietInside, QuietKeeps
  <2>3. CASE Claim(w) \/ Begin(w) \/ Seal(w) \/ CommitSeal(w)
    BY <1>0, <2>3, ClaimKeeps, BeginKeeps, SealKeeps, CommitKeeps
  <2>4. CASE Finalise(w) \/ FinaliseUntrusted(w) \/ MarkFailed(w)
    BY <1>0, <2>4, WorkerFinalises, MarkFailedKeeps
  <2>5. CASE MarkCancelled(w) \/ MonitorTrips(w)
    BY <1>0, <2>5 DEF MarkCancelled, MonitorTrips, Calm
  <2> QED BY <1>4, <2>1, <2>2, <2>3, <2>4, <2>5 DEF Step
<1>5. ASSUME NEW w \in Workers,
             DropMessage(w) \/ FileFails(w) \/ Breaks(w) \/ HandlerFails(w) \/ ReleaseFails(w)
      PROVE  SealInv'
  BY <1>0, <1>5, QuietOutside, QuietInside, QuietKeeps
<1>6. CASE Startup
  BY <1>0, <1>6, ProcessKeeps, StartupFinaliseKeeps DEF Startup
<1>7. CASE Periodic
  BY <1>0, <1>2, <1>7, ProcessKeeps, PeriodicFinaliseKeeps DEF Periodic
<1>8. CASE Trouble
  BY <1>0, <1>2, <1>5, <1>8, ProcessKeeps DEF Trouble
<1>9. CASE UNCHANGED vars
  BY <1>1, <1>9 DEF vars
<1> QED
  BY <1>2, <1>3, <1>4, <1>6, <1>7, <1>8, <1>9 DEF Next

LEMMA LicensedHolds == Spec => []Licensed
<1>1. Init => Licensed
  <2> SUFFICES ASSUME Init PROVE Licensed
    OBVIOUS
  <2>1. \A w \in Workers : worker[w].pc = "idle"
    BY DEF Init, Idle
  <2> QED BY <2>1, NoHolders DEF Init, Licensed, LicencesAccounted
<1> QED
  BY <1>1, TypeCorrect, NextLicensed, PTL DEF Spec

LEMMA SealInvHolds == ASSUME Requests = {} PROVE Spec => []SealInv
  BY InitSealInv, TypeInvHolds, LicensedHolds, NextSealInv, PTL DEF Spec

\* When nobody cancels or deletes, a final row shows what the committed outcome
\* of its attempt says, whatever is lost, delivered twice, broken or killed, and
\* though repairs fail too; only a file error after the seal is excepted:
\* the error handler leaves a bound outcome alone (_has_pending_outcome) and
\* every finalisation takes the sealed verdict (finalise_attempt).
THEOREM RowAgreesHolds == ASSUME Requests = {} PROVE Spec => []RowAgreesWithSeal
<1>1. SealInv => RowAgreesWithSeal
  BY DEF SealInv, Recorded
<1> QED
  BY <1>1, SealInvHolds, PTL

LEMMA FinalStays ==
    ASSUME Requests = {}, TypeInv, Licensed, SealInv, [Next]_vars,
           task.status \in Final, task'.run = task.run
    PROVE  task'.status = task.status
<1>0. /\ TypeOK /\ Calm /\ task.status # "queued" /\ task.status # "running"
      /\ misread \subseteq misread'
  BY MisreadStays DEF TypeInv, SealInv, Final
<1>1. CASE UNCHANGED task
  BY <1>1
<1>2. CASE Retest
  BY <1>0, <1>2, RetestKeeps
<1>3. CASE Finalises
  BY <1>0, <1>3, WorkerFinalises, StartupFinaliseKeeps, PeriodicFinaliseKeeps DEF Finalises
<1>4. ASSUME NEW a \in Attempts, EnqueueFails(a) PROVE task'.status = task.status
  BY <1>0, <1>4, EnqueueFailsKeeps
<1>5. ASSUME NEW w \in Workers, MarkCancelled(w) \/ Claim(w) \/ MarkFailed(w)
      PROVE  task'.status = task.status
  <2>1. CASE MarkCancelled(w)
    BY <1>0, <2>1 DEF MarkCancelled, Calm
  <2>2. CASE Claim(w)
    BY <1>0, <2>2 DEF Claim, ShouldCancel
  <2>3. CASE MarkFailed(w)
    BY <1>0, <2>3, MarkFailedKeeps
  <2> QED BY <1>5, <2>1, <2>2, <2>3
<1> QED
  BY <1>1, <1>2, <1>3, <1>4, <1>5, TaskWriters

\* When nobody cancels or deletes, a final status stands until the task is
\* queued again: no late publication, second delivery, error handler or
\* recovery pass changes the verdict of an attempt that is over.
THEOREM FinalStandsHolds == ASSUME Requests = {} PROVE Spec => FinalStands
<1>1. TypeInv /\ Licensed /\ SealInv /\ [Next]_vars =>
          [task.status \in Final /\ task'.run = task.run => task'.status = task.status]_vars
  BY FinalStays
<1> QED
  BY <1>1, TypeInvHolds, LicensedHolds, SealInvHolds, PTL DEF Spec, FinalStands

=============================================================================
