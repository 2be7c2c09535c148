----------------------------- MODULE SilverPool -----------------------------
(***************************************************************************)
(* The pre-warmed pool of Silver instances of the worker process:          *)
(* app/runners/silver_pool.py, driven by the Huey worker threads           *)
(* (app/jobqueue/tasks.py, app/runners/test_runner.py), the reconcile      *)
(* thread and the exit handler (run_worker.py).                            *)
(*                                                                         *)
(* Every critical section of the pool's condition variable is one action,  *)
(* and so is every call made outside it (driver.create, driver.dispose,    *)
(* the slot allocator), so that threads interleave exactly where the code  *)
(* lets them.  Condition waits time out and re-check, so a wait is simply  *)
(* a thread whose guard does not hold yet.                                 *)
(***************************************************************************)
EXTENDS Integers, FiniteSets

CONSTANTS
    Workers,      \* Huey worker threads: they borrow, run and give back
    Reconcilers,  \* threads in _reconcile_loop: they resize and pre-warm
    Closer,       \* the main thread, whose exit handler shuts the pool down
    Instances,    \* identities of PooledInstance objects and their processes
    None,         \* no instance
    Targets,      \* the values set_target is called with
    MaxStray      \* bound of the checking: processes whose disposal failed

Threads == Workers \cup Reconcilers \cup {Closer}

ASSUME ThreadsAssumption ==
    /\ Workers \cap Reconcilers = {}
    /\ Closer \notin Workers \cup Reconcilers
    /\ IsFiniteSet(Workers) /\ IsFiniteSet(Reconcilers)

ASSUME InstancesAssumption == IsFiniteSet(Instances) /\ None \notin Instances

\* set_target clamps its argument to max(0, n), so negative values are gone.
ASSUME TargetsAssumption == Targets \subseteq Nat /\ 0 \in Targets

VARIABLES
    idle,       \* _idle: instances waiting to be borrowed
    live,       \* _live: created and not yet disposed
    size,       \* _size: idle + busy + reserved
    inUse,      \* _in_use: currently borrowed
    target,     \* _target: the licensed concurrency limit, or 0
    closed,     \* _closed
    free, high, \* the pool's SlotAllocator
    running,    \* instances whose Silver process exists (it holds a licence)
    uid,        \* uid of each instance: its label inst_<uid>
    poisoned,   \* instances marked poisoned
    aimed,      \* instances a monitor thread is about to force-stop
    stray,      \* processes whose disposal failed: nobody need try again
    cut,        \* processes in the hands of a thread that died with the exit
    pc,         \* where each thread is
    stage,      \* where a thread is inside _dispose
    inst,       \* the instance in each thread's hands
    slot,       \* the label a thread has reserved, 0 if none
    doomed,     \* the instances a thread has still to dispose
    tripped     \* the cancel_event of each worker's run is set

counters  == <<size, inUse, target, closed>>
slots     == <<free, high>>
processes == <<running, uid, poisoned, aimed, stray, cut>>
threads   == <<pc, stage, inst, slot, doomed, tripped>>
vars      == <<idle, live, counters, slots, processes, threads>>

Slots == INSTANCE SlotAllocator

\* Program counters.  A worker: out -> (resizing) -> wait -> [create ->
\* register -> handover] -> running -> finishing -> releasing -> (dropping)
\* -> out.  A reconciler: out -> (resizing) -> warm -> [create ->
\* register -> handover] -> warm ... -> out.  The closer: out -> closing -> done,
\* where every thread is after the exit.
Creating  == {"create", "register"}
Unwinding == {"discard", "unwind", "deferred"}
Borrowed  == {"running", "finishing", "releasing"}
Disposing == {"resizing", "dropping", "closing"}
PCs == {"out", "wait", "warm", "handover", "done"}
           \cup Creating \cup Unwinding \cup Borrowed \cup Disposing

Init ==
    /\ idle = {} /\ live = {}
    /\ size = 0 /\ inUse = 0 /\ target = 0 /\ closed = FALSE
    /\ Slots!Init
    /\ running = {} /\ poisoned = {} /\ aimed = {} /\ stray = {} /\ cut = {}
    /\ uid = [i \in Instances |-> 0]
    /\ pc = [t \in Threads |-> "out"]
    /\ stage = [t \in Threads |-> "pick"]
    /\ inst = [t \in Threads |-> None]
    /\ slot = [t \in Threads |-> 0]
    /\ doomed = [t \in Threads |-> {}]
    /\ tripped = [w \in Workers |-> FALSE]

Goto(t, label) == pc' = [pc EXCEPT ![t] = label]

\* Mutant: an error path that forgets to give its reservation back.
DecForgotten(n) == n

\* Mutant: a decrement without max(0, ...).
DecUnclamped(n) == n - 1

Dec(n) == IF n > 0 THEN n - 1 ELSE 0     \* max(0, n - 1)

-----------------------------------------------------------------------------
(* Sizing: set_target, called by the reconcile loop and, through get_pool, *)
(* at the start of every pooled run.  The argument was read from the       *)
(* database before the lock was taken, so it may be any earlier limit.     *)

\* Where a thread goes once set_target returned: a worker to acquire, a
\* reconciler to prewarm, or round its loop when pre-warming is off.
Resized(t) == IF t \in Workers THEN {"wait"} ELSE {"warm", "out"}

\* The idle instances the loop "while _size > _target and _idle" takes.
Surplus(n) ==
    {S \in SUBSET idle :
        Cardinality(S) = IF size <= n THEN 0
                         ELSE IF size - n < Cardinality(idle) THEN size - n
                         ELSE Cardinality(idle)}

SetTarget(t) ==
    /\ t \in Workers \cup Reconcilers
    /\ pc[t] = "out"
    /\ \E n \in Targets : \E S \in Surplus(n) :
        /\ target' = n
        /\ idle' = idle \ S
        /\ size' = size - Cardinality(S)
        /\ doomed' = [doomed EXCEPT ![t] = S]
        /\ IF S = {} THEN \E next \in Resized(t) : Goto(t, next)
                     ELSE Goto(t, "resizing")
    /\ UNCHANGED <<live, inUse, closed, slots, processes, stage, inst, slot, tripped>>

-----------------------------------------------------------------------------
(* _dispose, outside the lock: leave _live, end the process, recycle the   *)
(* label.  The caller's own counters were adjusted before it was called.   *)

\* What follows the loop of _dispose calls.
Continue(t) ==
    IF pc[t] = "resizing" THEN Resized(t)
    ELSE {IF pc[t] = "dropping" THEN "out" ELSE "done"}

DisposeDiscard(t) ==
    /\ pc[t] \in Disposing /\ stage[t] = "pick"
    /\ \E i \in doomed[t] :
        /\ inst' = [inst EXCEPT ![t] = i]
        /\ live' = live \ {i}
    /\ stage' = [stage EXCEPT ![t] = "exit"]
    /\ UNCHANGED <<idle, counters, slots, processes, pc, slot, doomed, tripped>>

\* Ending a process may fail: the driver and the pool log the exception and
\* go on as if the process were gone.
End(i) ==
    \/ running' = running \ {i} /\ stray' = stray \ {i}
    \/ /\ i \in running /\ Cardinality(stray \cup {i}) <= MaxStray
       /\ stray' = stray \cup {i}
       /\ UNCHANGED running

DisposeExit(t) ==
    /\ pc[t] \in Disposing /\ stage[t] = "exit"
    /\ End(inst[t])
    /\ stage' = [stage EXCEPT ![t] = "recycle"]
    /\ UNCHANGED <<idle, live, counters, slots, uid, poisoned, aimed, cut,
                   pc, inst, slot, doomed, tripped>>

DisposeRecycle(t) ==
    /\ pc[t] \in Disposing /\ stage[t] = "recycle"
    /\ Slots!Give(uid[inst[t]])
    /\ stage' = [stage EXCEPT ![t] = "pick"]
    /\ inst' = [inst EXCEPT ![t] = None]
    /\ doomed' = [doomed EXCEPT ![t] = @ \ {inst[t]}]
    /\ IF doomed[t] = {inst[t]} THEN \E next \in Continue(t) : Goto(t, next)
                                ELSE UNCHANGED pc
    /\ UNCHANGED <<idle, live, counters, processes, slot, tripped>>

-----------------------------------------------------------------------------
(* Creating an instance: reserve under the lock, create outside it,        *)
(* register it under the lock, and come back under the lock to use it.     *)

\* No object or pending call refers to i any more: a new instance may be i.
Fresh(i) ==
    /\ i \notin idle \cup live \cup running \cup aimed
    /\ \A t \in Threads : inst[t] # i /\ i \notin doomed[t]

\* Mutant: one reservation too many.
HasRoomOffByOne == size <= target

HasRoom == size < target

\* The reservation of a slot and of a label, in one critical section.
Reserve(t) ==
    /\ ~closed
    /\ HasRoom
    /\ size' = size + 1
    /\ \E n \in 1 .. high + 1 : Slots!Grab(n) /\ slot' = [slot EXCEPT ![t] = n]
    /\ Goto(t, "create")
    /\ UNCHANGED <<idle, live, inUse, target, closed, processes, stage,
                   inst, doomed, tripped>>

PrewarmReserve(t) ==
    /\ t \in Reconcilers /\ pc[t] = "warm"
    /\ Reserve(t)

PrewarmStop(t) ==
    /\ t \in Reconcilers /\ pc[t] = "warm"
    /\ closed \/ ~HasRoom
    /\ Goto(t, "out")
    /\ UNCHANGED <<idle, live, counters, slots, processes, stage, inst, slot,
                   doomed, tripped>>

\* default_sil_getter returned None: the label is released, then the counter
\* is decremented, here without the max(0, ...) of the other error paths.
PrewarmNoModel(t) ==
    /\ t \in Reconcilers /\ pc[t] = "create"
    /\ Slots!Give(slot[t])
    /\ slot' = [slot EXCEPT ![t] = 0]
    /\ Goto(t, "deferred")
    /\ UNCHANGED <<idle, live, counters, processes, stage, inst, doomed, tripped>>

PrewarmDefer(t) ==
    /\ pc[t] = "deferred"
    /\ size' = size - 1
    /\ Goto(t, "out")
    /\ UNCHANGED <<idle, live, inUse, target, closed, slots, processes, stage,
                   inst, slot, doomed, tripped>>

\* driver.create: a new process under the reserved label.
Create(t) ==
    /\ pc[t] = "create"
    /\ \E i \in Instances :
        /\ Fresh(i)
        /\ running' = running \cup {i}
        /\ uid' = [uid EXCEPT ![i] = slot[t]]
        /\ poisoned' = poisoned \ {i}
        /\ inst' = [inst EXCEPT ![t] = i]
    /\ Goto(t, "register")
    /\ UNCHANGED <<idle, live, counters, slots, aimed, stray, cut, stage, slot,
                   doomed, tripped>>

\* driver.create raised: the label is released, then (Unwind) the reservation.
CreateFails(t) ==
    /\ pc[t] = "create"
    /\ Slots!Give(slot[t])
    /\ slot' = [slot EXCEPT ![t] = 0]
    /\ Goto(t, "unwind")
    /\ UNCHANGED <<idle, live, counters, processes, stage, inst, doomed, tripped>>

\* Mutant: the pool is not asked again whether it closed during the creation.
StillOpenUnchecked == TRUE

StillOpen == ~closed

\* The end of _make_instance: into _live, unless the pool closed meanwhile.
Register(t) ==
    /\ pc[t] = "register"
    /\ IF StillOpen
         THEN /\ live' = live \cup {inst[t]}
              /\ slot' = [slot EXCEPT ![t] = 0]
              /\ Goto(t, "handover")
         ELSE /\ Goto(t, "discard")
              /\ UNCHANGED <<live, slot>>
    /\ UNCHANGED <<idle, counters, slots, processes, stage, inst, doomed, tripped>>

\* The handle shutdown() never saw is disposed by its creator (_PoolClosed),
\* which then releases the label.
DiscardOrphan(t) ==
    /\ pc[t] = "discard"
    /\ End(inst[t])
    /\ inst' = [inst EXCEPT ![t] = None]
    /\ Slots!Give(slot[t])
    /\ slot' = [slot EXCEPT ![t] = 0]
    /\ Goto(t, "unwind")
    /\ UNCHANGED <<idle, live, counters, uid, poisoned, aimed, cut, stage, doomed,
                   tripped>>

\* The reservation of a creation that failed or was discarded.
Unwind(t) ==
    /\ pc[t] = "unwind"
    /\ size' = Dec(size)
    /\ Goto(t, "out")
    /\ UNCHANGED <<idle, live, inUse, target, closed, slots, processes, stage,
                   inst, slot, doomed, tripped>>

\* Back under the lock: a closed pool's instance was disposed by shutdown;
\* otherwise a worker keeps it and a reconciler puts it among the idle ones.
Handover(t) ==
    /\ pc[t] = "handover"
    /\ IF ~StillOpen
         THEN /\ inst' = [inst EXCEPT ![t] = None]
              /\ Goto(t, "out")
              /\ UNCHANGED <<idle, inUse>>
         ELSE IF t \in Workers
         THEN /\ inUse' = inUse + 1
              /\ Goto(t, "running")
              /\ UNCHANGED <<idle, inst>>
         ELSE /\ idle' = idle \cup {inst[t]}
              /\ inst' = [inst EXCEPT ![t] = None]
              /\ Goto(t, "warm")
              /\ UNCHANGED inUse
    /\ UNCHANGED <<live, size, target, closed, slots, processes, stage, slot,
                   doomed, tripped>>

-----------------------------------------------------------------------------
(* Borrowing and giving back. *)

\* acquire gives up: the pool closed, or should_cancel() holds.
AcquireNone(t) ==
    /\ t \in Workers /\ pc[t] = "wait"
    /\ Goto(t, "out")
    /\ UNCHANGED <<idle, live, counters, slots, processes, stage, inst, slot,
                   doomed, tripped>>

AcquireIdle(t) ==
    /\ t \in Workers /\ pc[t] = "wait"
    /\ ~closed
    /\ \E i \in idle :
        /\ idle' = idle \ {i}
        /\ inst' = [inst EXCEPT ![t] = i]
    /\ inUse' = inUse + 1
    /\ Goto(t, "running")
    /\ UNCHANGED <<live, size, target, closed, slots, processes, stage, slot,
                   doomed, tripped>>

AcquireReserve(t) ==
    /\ t \in Workers /\ pc[t] = "wait"
    /\ idle = {}
    /\ Reserve(t)

\* release: back among the idle ones, or disposed when it is poisoned, when
\* a shrink made it surplus, or when the pool closed.
MustDispose(i) == i \in poisoned \/ size > target \/ closed

Release(t) ==
    /\ pc[t] = "releasing"
    /\ inUse' = Dec(inUse)
    /\ inst' = [inst EXCEPT ![t] = None]
    /\ IF MustDispose(inst[t])
         THEN /\ size' = Dec(size)
              /\ doomed' = [doomed EXCEPT ![t] = {inst[t]}]
              /\ Goto(t, "dropping")
              /\ UNCHANGED idle
         ELSE /\ idle' = idle \cup {inst[t]}
              /\ Goto(t, "out")
              /\ UNCHANGED <<size, doomed>>
    /\ UNCHANGED <<live, target, closed, slots, processes, stage, slot, tripped>>

-----------------------------------------------------------------------------
(* The run on a borrowed instance, as far as it touches the instance: the  *)
(* job, and the monitor thread that force-stops it on cancellation.        *)

\* Before the run starts, the licence gate or the claim of the task may refuse
\* it: the instance goes straight back, with no monitor started.
RunRefused(t) ==
    /\ pc[t] = "running"
    /\ ~tripped[t]
    /\ Goto(t, "releasing")
    /\ UNCHANGED <<idle, live, counters, slots, processes, stage, inst, slot,
                   doomed, tripped>>

\* The monitor saw cancel_requested: it sets the event and is about to call
\* force_stop on the instance.  It does so once, until it is told to stop.
MonitorTrip(t) ==
    /\ pc[t] \in {"running", "finishing"}
    /\ ~tripped[t]
    /\ tripped' = [tripped EXCEPT ![t] = TRUE]
    /\ aimed' = aimed \cup {inst[t]}
    /\ UNCHANGED <<idle, live, counters, slots, running, uid, poisoned, stray, cut,
                   pc, stage, inst, slot, doomed>>

\* driver.force_stop: the process is gone, unless that failed; the pool still
\* has the instance, and will dispose of it, in both cases.
MonitorKill(i) ==
    /\ i \in aimed
    /\ aimed' = aimed \ {i}
    /\ \/ running' = running \ {i} /\ stray' = stray \ {i}
       \/ UNCHANGED <<running, stray>>
    /\ UNCHANGED <<idle, live, counters, slots, uid, poisoned, cut, threads>>

\* configure_and_run returned: the process was there to the end, and the
\* event was not set at its last check.
RunOk(t) ==
    /\ pc[t] = "running"
    /\ inst[t] \in running
    /\ ~tripped[t]
    /\ Goto(t, "finishing")
    /\ UNCHANGED <<idle, live, counters, slots, processes, stage, inst, slot,
                   doomed, tripped>>

\* RunnerCancelled, RunnerError or another exception: the instance is poisoned.
RunFails(t) ==
    /\ pc[t] = "running"
    /\ poisoned' = poisoned \cup {inst[t]}
    /\ Goto(t, "finishing")
    /\ UNCHANGED <<idle, live, counters, slots, running, uid, aimed, stray, cut,
                   stage, inst, slot, doomed, tripped>>

\* finish_logs tells the monitor to stop and joins it for two seconds at
\* most: a monitor that has already decided to kill may still be about to.
FinishLogs(t) ==
    /\ pc[t] = "finishing"
    /\ tripped' = [tripped EXCEPT ![t] = FALSE]     \* the event is gone with the run
    /\ Goto(t, "releasing")
    /\ UNCHANGED <<idle, live, counters, slots, processes, stage, inst, slot, doomed>>

-----------------------------------------------------------------------------
(* shutdown, from the exit handler: every live instance, borrowed or not.  *)

\* Mutant: only the idle instances are disposed.
SnapshotIdle == idle

Snapshot == live

Shutdown ==
    /\ pc[Closer] = "out"
    /\ closed' = TRUE
    /\ target' = 0
    /\ doomed' = [doomed EXCEPT ![Closer] = Snapshot]
    /\ idle' = {} /\ live' = {}
    /\ size' = 0 /\ inUse' = 0
    /\ Goto(Closer, IF Snapshot = {} THEN "done" ELSE "closing")
    /\ UNCHANGED <<slots, processes, stage, inst, slot, tripped>>

\* The processes that a thread, and perhaps nobody else, is about to end.
InHand(t) ==
    IF pc[t] \in {"register", "discard"} THEN {inst[t]}
    ELSE IF stage[t] = "recycle" THEN doomed[t] \ {inst[t]}
    ELSE doomed[t]

\* The Huey, reconcile and monitor threads are daemons: once the exit handler
\* returned they die with the interpreter, wherever they are.
Exit ==
    /\ closed /\ pc[Closer] = "done" /\ \E t \in Threads : pc[t] # "done"
    /\ cut' = cut \cup (running \cap UNION {InHand(t) : t \in Threads})
    /\ aimed' = {}
    /\ pc' = [t \in Threads |-> "done"]
    /\ stage' = [t \in Threads |-> "pick"]
    /\ inst' = [t \in Threads |-> None]
    /\ slot' = [t \in Threads |-> 0]
    /\ doomed' = [t \in Threads |-> {}]
    /\ UNCHANGED <<idle, live, counters, slots, running, uid, poisoned, stray, tripped>>

-----------------------------------------------------------------------------
Step(t) ==
    \/ DisposeDiscard(t) \/ DisposeExit(t) \/ DisposeRecycle(t)
    \/ PrewarmReserve(t) \/ PrewarmStop(t) \/ PrewarmNoModel(t) \/ PrewarmDefer(t)
    \/ Create(t) \/ CreateFails(t) \/ Register(t) \/ Handover(t)
    \/ DiscardOrphan(t) \/ Unwind(t)
    \/ AcquireIdle(t) \/ AcquireReserve(t)
    \/ RunRefused(t) \/ RunOk(t) \/ RunFails(t) \/ FinishLogs(t) \/ Release(t)

Next ==
    \/ \E t \in Threads : Step(t) \/ SetTarget(t)
    \/ \E t \in Workers : AcquireNone(t) \/ MonitorTrip(t)
    \/ \E i \in Instances : MonitorKill(i)
    \/ Shutdown \/ Exit

Spec == Init /\ [][Next]_vars

\* What the threads owe once they are inside the code, as long as they live:
\* they are scheduled, a run ends (run_until has a timeout), a monitor's call
\* is made.
\* Freed capacity is announced with notify_all while the reconciler sleeps for
\* half a second or more between two passes, so capacity that is free again and
\* again goes to some waiting worker (to which one, nothing says).
\* Nothing obliges anyone to resize, to start a job, to cancel or to exit.
Fairness ==
    /\ \A t \in Threads : WF_vars(Step(t))
    /\ \A i \in Instances : WF_vars(MonitorKill(i))
    /\ SF_vars(\E w \in Workers : AcquireIdle(w) \/ AcquireReserve(w))

FairSpec == Spec /\ Fairness

-----------------------------------------------------------------------------
Lent    == {w \in Workers : pc[w] \in Borrowed}
Pending == {t \in Threads : pc[t] \in Creating \cup Unwinding \cup {"handover"}}

TypeOK ==
    /\ idle \subseteq Instances /\ live \subseteq Instances
    /\ size \in Int /\ inUse \in Nat /\ target \in Targets /\ closed \in BOOLEAN
    /\ free \subseteq Nat \ {0} /\ high \in Nat
    /\ running \subseteq Instances /\ poisoned \subseteq Instances
    /\ aimed \subseteq Instances /\ stray \subseteq running /\ cut \subseteq Instances
    /\ uid \in [Instances -> Nat]
    /\ pc \in [Threads -> PCs]
    /\ stage \in [Threads -> {"pick", "exit", "recycle"}]
    /\ inst \in [Threads -> Instances \cup {None}]
    /\ slot \in [Threads -> Nat]
    /\ doomed \in [Threads -> SUBSET Instances]
    /\ tripped \in [Workers -> BOOLEAN]

\* _size is what its comment says, idle + busy + reserved, in every state of
\* an open pool, with resizes, failed creations and pre-warming under way: a
\* reservation that leaked would lower the licensed concurrency for good.
Accounting ==
    ~closed => /\ size = Cardinality(idle) + Cardinality(Pending) + Cardinality(Lent)
               /\ inUse = Cardinality(Lent)

\* The instances that jobs use or may use never outnumber every limit that
\* was ever configured, however resizes, creations and returns interleave.
WithinLicence ==
    ~closed => \E n \in Targets : Cardinality(idle) + Cardinality(Lent) <= n

\* Two Silver processes never share a label: they would write to the same
\* inst_<uid>/Console.log.  The label is recycled outside the pool's lock, by
\* five different code paths.  (Not so for a process whose disposal failed: its
\* label is given out again although it still runs.)
UniqueLabels ==
    \A i, j \in running \ stray : i # j => uid[i] # uid[j]

\* Once shutdown began, a Silver process exists only while a thread still has
\* it in hand and is about to end it, or because ending it failed, or because
\* its thread died with the interpreter: no other is orphaned.
NoOrphan ==
    closed => running \subseteq stray \cup cut \cup UNION {InHand(t) : t \in Threads}

\* The pool implements InstanceLending: an instance is in stock from its
\* registration until a thread decides, under the lock, to dispose of it.
InPlay   == {t \in Threads : pc[t] \in Borrowed \cup {"handover"}}
Lendable == IF closed THEN {} ELSE idle \cup {inst[t] : t \in InPlay}
Holder   == [w \in Workers |-> IF w \in Lent THEN inst[w] ELSE None]

Lending == INSTANCE InstanceLending
               WITH stock <- Lendable, holder <- Holder, shut <- closed

LendingSpec == Lending!Spec

\* After shutdown began every Silver process ends in the end, also one that
\* was being launched or borrowed; what is left behind, with its licence, are
\* processes whose disposal failed or whose thread the exit cut off.
ShutdownEndsProcesses == closed ~> [](running \subseteq stray \cup cut)

-----------------------------------------------------------------------------
(* What a comment of the code says and the code does not do (README, 4).   *)

\* "A poisoned instance (its Silver process was force-killed on cancellation)
\* is disposed" (release): an idle instance then always has its process, and
\* the next job can run on it.
IdleIsAlive == idle \subseteq running
=============================================================================
