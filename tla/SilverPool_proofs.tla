------------------------- MODULE SilverPool_proofs -------------------------
(***************************************************************************)
(* Proofs about SilverPool, for any number of worker threads, reconcilers, *)
(* instances and any set of limits.                                        *)
(***************************************************************************)
EXTENDS SilverPool, FiniteSetTheorems, TLAPS

(* What a thread has in its hands at each point of its program. *)
Shape ==
    \A t \in Threads :
        /\ pc[t] \in {"register", "discard", "handover"} \cup Borrowed
               => inst[t] \in Instances
        /\ stage[t] # "pick" => pc[t] \in Disposing /\ inst[t] \in doomed[t]
        /\ doomed[t] # {} => pc[t] \in Disposing

TypeInv == TypeOK /\ Shape

\* Cardinalities of the idle sets the pool counts with are natural numbers.
LEMMA IdleFinite ==
    ASSUME TypeOK, NEW S \in SUBSET idle
    PROVE  IsFiniteSet(S) /\ Cardinality(S) \in Nat
  BY InstancesAssumption, FS_Subset, FS_CardinalityType DEF TypeOK

\* What the allocator's calls leave behind: the numbers on its heap stay
\* positive, and so does the one it hands out.
LEMMA GiveType ==
    ASSUME TypeOK, NEW n \in Nat, Slots!Give(n)
    PROVE  free' \subseteq Nat \ {0} /\ high' \in Nat
<1>1. \A m \in free' : m \in free \/ (m = n /\ n >= 1)
  BY DEF Slots!Give
<1> QED
  BY <1>1 DEF Slots!Give, TypeOK

LEMMA GrabType ==
    ASSUME TypeOK, NEW n \in 1 .. high + 1, Slots!Grab(n)
    PROVE  free' \subseteq Nat \ {0} /\ high' \in Nat /\ n \in Nat \ {0}
<1>1. high \in Nat /\ n \in Nat \ {0}
  BY DEF TypeOK
<1>2. free' \subseteq free /\ high' \in {high, n}
  BY DEF Slots!Grab
<1> QED
  BY <1>1, <1>2 DEF TypeOK

LEMMA InitTypeInv == Init => TypeInv
<1> SUFFICES ASSUME Init PROVE TypeInv
  OBVIOUS
<1>1. free \subseteq Nat \ {0} /\ high \in Nat
  BY DEF Init, Slots!Init
<1>2. \A t \in Threads : pc[t] = "out" /\ stage[t] = "pick" /\ doomed[t] = {}
  BY DEF Init
<1>3. Shape
  BY <1>2 DEF Shape, Borrowed
<1>4. pc \in [Threads -> PCs]
  BY DEF Init, PCs
<1>5. target \in Targets
  BY TargetsAssumption DEF Init
<1>6. /\ uid \in [Instances -> Nat] /\ slot \in [Threads -> Nat]
      /\ stage \in [Threads -> {"pick", "exit", "recycle"}]
      /\ inst \in [Threads -> Instances \cup {None}]
      /\ doomed \in [Threads -> SUBSET Instances]
      /\ tripped \in [Workers -> BOOLEAN]
  BY DEF Init
<1>7. /\ idle \subseteq Instances /\ live \subseteq Instances
      /\ running \subseteq Instances /\ poisoned \subseteq Instances
      /\ aimed \subseteq Instances /\ stray \subseteq running /\ cut \subseteq Instances
      /\ closed \in BOOLEAN
  BY Zenon DEF Init
<1>8. size \in Int /\ inUse \in Nat
  BY DEF Init
<1>9. TypeOK
  BY <1>1, <1>4, <1>5, <1>6, <1>7, <1>8 DEF TypeOK
<1> QED
  BY <1>3, <1>9 DEF TypeInv

LEMMA NextTypeInv == TypeInv /\ [Next]_vars => TypeInv'
<1> SUFFICES ASSUME TypeInv, [Next]_vars PROVE TypeInv'
  OBVIOUS
<1> USE DEF TypeInv, TypeOK, Shape, PCs, Creating, Unwinding, Borrowed, Disposing,
            Goto, counters, slots, processes, threads
<1>1. ASSUME NEW t \in Threads, DisposeDiscard(t) PROVE TypeInv'
  BY <1>1 DEF DisposeDiscard
<1>2. ASSUME NEW t \in Threads, DisposeExit(t) PROVE TypeInv'
  BY <1>2 DEF DisposeExit, End
<1>3. ASSUME NEW t \in Threads, DisposeRecycle(t) PROVE TypeInv'
  <2>1. inst[t] \in doomed[t] /\ uid[inst[t]] \in Nat
    BY <1>3 DEF DisposeRecycle
  <2>2. free' \subseteq Nat \ {0} /\ high' \in Nat
    BY <1>3, <2>1, GiveType DEF DisposeRecycle
  <2>3. TypeOK'
    BY <1>3, <2>1, <2>2 DEF DisposeRecycle, Continue, Resized
  <2>4. Shape'
    BY <1>3, <2>1 DEF DisposeRecycle, Continue, Resized
  <2> QED BY <2>3, <2>4
<1>4. ASSUME NEW t \in Threads, Reserve(t), pc[t] \in {"wait", "warm"} PROVE TypeInv'
  <2>1. PICK n \in 1 .. high + 1 : Slots!Grab(n) /\ slot' = [slot EXCEPT ![t] = n]
    BY <1>4 DEF Reserve
  <2>2. free' \subseteq Nat \ {0} /\ high' \in Nat /\ slot' \in [Threads -> Nat]
    BY <2>1, GrabType
  <2> QED BY <1>4, <2>2 DEF Reserve
<1>5. ASSUME NEW t \in Threads, PrewarmStop(t) PROVE TypeInv'
  BY <1>5 DEF PrewarmStop
<1>6. ASSUME NEW t \in Threads, PrewarmNoModel(t) PROVE TypeInv'
  <2>1. free' \subseteq Nat \ {0} /\ high' \in Nat
    BY <1>6, GiveType DEF PrewarmNoModel
  <2> QED BY <1>6, <2>1 DEF PrewarmNoModel
<1>7. ASSUME NEW t \in Threads, PrewarmDefer(t) PROVE TypeInv'
  BY <1>7 DEF PrewarmDefer
<1>8. ASSUME NEW t \in Threads, Create(t) PROVE TypeInv'
  BY <1>8 DEF Create, Fresh
<1>9. ASSUME NEW t \in Threads, CreateFails(t) PROVE TypeInv'
  <2>1. free' \subseteq Nat \ {0} /\ high' \in Nat
    BY <1>9, GiveType DEF CreateFails
  <2> QED BY <1>9, <2>1 DEF CreateFails
<1>10. ASSUME NEW t \in Threads, Register(t) PROVE TypeInv'
  BY <1>10 DEF Register
<1>11. ASSUME NEW t \in Threads, Handover(t) PROVE TypeInv'
  BY <1>11 DEF Handover
<1>12. ASSUME NEW t \in Threads, DiscardOrphan(t) PROVE TypeInv'
  <2>1. free' \subseteq Nat \ {0} /\ high' \in Nat
    BY <1>12, GiveType DEF DiscardOrphan
  <2> QED BY <1>12, <2>1 DEF DiscardOrphan, End
<1>13. ASSUME NEW t \in Threads, Unwind(t) PROVE TypeInv'
  BY <1>13 DEF Unwind, Dec
<1>14. ASSUME NEW t \in Threads, AcquireIdle(t) PROVE TypeInv'
  BY <1>14 DEF AcquireIdle
<1>15. ASSUME NEW t \in Threads, RunRefused(t) PROVE TypeInv'
  BY <1>15 DEF RunRefused
<1>16. ASSUME NEW t \in Threads, RunOk(t) PROVE TypeInv'
  BY <1>16 DEF RunOk
<1>17. ASSUME NEW t \in Threads, RunFails(t) PROVE TypeInv'
  BY <1>17 DEF RunFails
<1>18. ASSUME NEW t \in Threads, FinishLogs(t) PROVE TypeInv'
  BY <1>18 DEF FinishLogs
<1>19. ASSUME NEW t \in Threads, Release(t) PROVE TypeInv'
  BY <1>19 DEF Release, Dec
<1>20. ASSUME NEW t \in Threads, SetTarget(t) PROVE TypeInv'
  <2>1. PICK n \in Targets : \E S \in Surplus(n) :
            /\ target' = n
            /\ idle' = idle \ S
            /\ size' = size - Cardinality(S)
            /\ doomed' = [doomed EXCEPT ![t] = S]
            /\ IF S = {} THEN \E next \in Resized(t) : Goto(t, next)
                         ELSE Goto(t, "resizing")
    BY <1>20 DEF SetTarget
  <2>2. PICK S \in Surplus(n) :
            /\ target' = n
            /\ idle' = idle \ S
            /\ size' = size - Cardinality(S)
            /\ doomed' = [doomed EXCEPT ![t] = S]
            /\ IF S = {} THEN \E next \in Resized(t) : Goto(t, next)
                         ELSE Goto(t, "resizing")
    BY <2>1
  <2>3. S \in SUBSET idle /\ Cardinality(S) \in Nat
    BY IdleFinite DEF Surplus
  <2> QED BY <1>20, <2>2, <2>3 DEF SetTarget, Resized
<1>21. ASSUME NEW t \in Workers, AcquireNone(t) PROVE TypeInv'
  BY <1>21 DEF AcquireNone
<1>22. ASSUME NEW t \in Workers, MonitorTrip(t) PROVE TypeInv'
  BY <1>22 DEF MonitorTrip, Threads
<1>23. ASSUME NEW i \in Instances, MonitorKill(i) PROVE TypeInv'
  BY <1>23 DEF MonitorKill
<1>24. ASSUME Shutdown PROVE TypeInv'
  BY <1>24, TargetsAssumption DEF Shutdown, Snapshot, Threads
<1>26. ASSUME Exit PROVE TypeInv'
  BY <1>26 DEF Exit, InHand
<1>25. CASE UNCHANGED vars
  BY <1>25 DEF vars
<1> QED
  BY <1>1, <1>2, <1>3, <1>4, <1>5, <1>6, <1>7, <1>8, <1>9, <1>10, <1>11, <1>12,
     <1>13, <1>14, <1>15, <1>16, <1>17, <1>18, <1>19, <1>20, <1>21, <1>22, <1>23,
     <1>24, <1>25, <1>26
  DEF Next, Step, PrewarmReserve, AcquireReserve

\* The pool's bookkeeping has its types in every reachable state.
THEOREM TypeCorrect == Spec => []TypeOK
<1>1. TypeInv => TypeOK
  BY DEF TypeInv
<1> QED
  BY <1>1, InitTypeInv, NextTypeInv, PTL DEF Spec

-----------------------------------------------------------------------------
(* No orphan.  While the pool is open a process may also be that of a      *)
(* registered instance; closing moves those into the closer's hands.       *)

Watched ==
    /\ closed => live = {}
    /\ \A i \in running \ (stray \cup cut) :
          i \in live \/ \E t \in Threads : i \in InHand(t)

\* A step that leaves the hands of the other threads alone, and neither ends
\* nor unregisters a process, keeps every process watched.
LEMMA NextWatched == TypeInv /\ Watched /\ [Next]_vars => Watched'
<1> SUFFICES ASSUME TypeInv, Watched, [Next]_vars PROVE Watched'
  OBVIOUS
<1> USE DEF TypeInv, TypeOK, Shape, PCs, Creating, Unwinding, Borrowed, Disposing,
            Goto, counters, slots, processes, threads, Watched, InHand
<1>1. ASSUME NEW t \in Threads, DisposeDiscard(t) PROVE Watched'
  BY <1>1 DEF DisposeDiscard
<1>2. ASSUME NEW t \in Threads, DisposeExit(t) PROVE Watched'
  BY <1>2 DEF DisposeExit, End
<1>3. ASSUME NEW t \in Threads, DisposeRecycle(t) PROVE Watched'
  BY <1>3 DEF DisposeRecycle, Continue, Resized
<1>4. ASSUME NEW t \in Threads, Reserve(t), pc[t] \in {"wait", "warm"} PROVE Watched'
  BY <1>4 DEF Reserve
<1>5. ASSUME NEW t \in Threads, PrewarmStop(t) PROVE Watched'
  BY <1>5 DEF PrewarmStop
<1>6. ASSUME NEW t \in Threads, PrewarmNoModel(t) PROVE Watched'
  BY <1>6 DEF PrewarmNoModel
<1>7. ASSUME NEW t \in Threads, PrewarmDefer(t) PROVE Watched'
  BY <1>7 DEF PrewarmDefer
<1>8. ASSUME NEW t \in Threads, Create(t) PROVE Watched'
  BY <1>8 DEF Create
<1>9. ASSUME NEW t \in Threads, CreateFails(t) PROVE Watched'
  BY <1>9 DEF CreateFails
<1>10. ASSUME NEW t \in Threads, Register(t) PROVE Watched'
  BY <1>10 DEF Register, StillOpen
<1>11. ASSUME NEW t \in Threads, Handover(t) PROVE Watched'
  BY <1>11 DEF Handover
<1>12. ASSUME NEW t \in Threads, DiscardOrphan(t) PROVE Watched'
  BY <1>12 DEF DiscardOrphan, End
<1>13. ASSUME NEW t \in Threads, Unwind(t) PROVE Watched'
  BY <1>13 DEF Unwind
<1>14. ASSUME NEW t \in Threads, AcquireIdle(t) PROVE Watched'
  BY <1>14 DEF AcquireIdle
<1>15. ASSUME NEW t \in Threads, RunRefused(t) PROVE Watched'
  BY <1>15 DEF RunRefused
<1>16. ASSUME NEW t \in Threads, RunOk(t) PROVE Watched'
  BY <1>16 DEF RunOk
<1>17. ASSUME NEW t \in Threads, RunFails(t) PROVE Watched'
  BY <1>17 DEF RunFails
<1>18. ASSUME NEW t \in Threads, FinishLogs(t) PROVE Watched'
  BY <1>18 DEF FinishLogs
<1>19. ASSUME NEW t \in Threads, Release(t) PROVE Watched'
  BY <1>19 DEF Release
<1>20. ASSUME NEW t \in Threads, SetTarget(t) PROVE Watched'
  BY <1>20 DEF SetTarget, Resized
<1>21. ASSUME NEW t \in Workers, AcquireNone(t) PROVE Watched'
  BY <1>21 DEF AcquireNone
<1>22. ASSUME NEW t \in Workers, MonitorTrip(t) PROVE Watched'
  BY <1>22 DEF MonitorTrip
<1>23. ASSUME NEW i \in Instances, MonitorKill(i) PROVE Watched'
  BY <1>23 DEF MonitorKill
<1>24. ASSUME Shutdown PROVE Watched'
  BY <1>24 DEF Shutdown, Snapshot, Threads
<1>26. ASSUME Exit PROVE Watched'
  BY <1>26 DEF Exit
<1>25. CASE UNCHANGED vars
  BY <1>25 DEF vars
<1> QED
  BY <1>1, <1>2, <1>3, <1>4, <1>5, <1>6, <1>7, <1>8, <1>9, <1>10, <1>11, <1>12,
     <1>13, <1>14, <1>15, <1>16, <1>17, <1>18, <1>19, <1>20, <1>21, <1>22, <1>23,
     <1>24, <1>25, <1>26
  DEF Next, Step, PrewarmReserve, AcquireReserve

\* Once the pool was closed, a Silver process exists only while a thread still
\* has it in hand and is about to end it, or because ending it failed, or
\* because its thread was cut off by the end of the interpreter.
THEOREM NoOrphanHolds == Spec => []NoOrphan
<1>1. Init => Watched
  BY DEF Init, Watched
<1>2. Watched => NoOrphan
  BY DEF Watched, NoOrphan
<1> QED
  BY <1>1, <1>2, InitTypeInv, NextTypeInv, NextWatched, PTL DEF Spec

-----------------------------------------------------------------------------
(* Accounting.  The counters move with the threads: each label of a        *)
(* program either holds a reservation, or a lent instance, or neither.     *)

Reserving == Creating \cup Unwinding \cup {"handover"}

\* Who may be where, while the pool is open: only a worker waits or borrows,
\* an instance is in the hands of one thread, and then it is not idle.
Holding == {"register", "handover"} \cup Borrowed

Apart ==
    /\ \A t \in Threads : pc[t] \in {"wait"} \cup Borrowed => t \in Workers
    /\ ~closed =>
         \A t \in Threads : pc[t] \in Holding =>
            /\ inst[t] \notin idle
            /\ \A u \in Threads \ {t} : pc[u] \in Holding => inst[u] # inst[t]

LEMMA ThreadsFinite ==
    /\ IsFiniteSet(Pending) /\ Cardinality(Pending) \in Nat
    /\ IsFiniteSet(Lent) /\ Cardinality(Lent) \in Nat
<1>1. IsFiniteSet(Threads)
  BY ThreadsAssumption, FS_Union, FS_AddElement, FS_EmptySet, Zenon DEF Threads
<1>2. Pending \in SUBSET Threads /\ Lent \in SUBSET Workers
  BY DEF Pending, Lent
<1> QED
  BY <1>1, <1>2, ThreadsAssumption, FS_Subset, FS_CardinalityType

\* What one thread's move does to the number of reservations.
LEMMA PendingMoves ==
    ASSUME TypeOK, NEW t \in Threads, NEW label, Goto(t, label)
    PROVE  Cardinality(Pending') =
             IF pc[t] \in Reserving
               THEN IF label \in Reserving THEN Cardinality(Pending)
                                           ELSE Cardinality(Pending) - 1
               ELSE IF label \in Reserving THEN Cardinality(Pending) + 1
                                           ELSE Cardinality(Pending)
<1>1. t \in Pending <=> pc[t] \in Reserving
  BY DEF Pending, Reserving
<1>2. Pending' = IF label \in Reserving THEN Pending \cup {t} ELSE Pending \ {t}
  BY DEF Pending, Reserving, Goto, TypeOK
<1>3. /\ t \in Pending => Pending \cup {t} = Pending
      /\ t \notin Pending => Pending \ {t} = Pending
  OBVIOUS
<1> QED
  BY <1>1, <1>2, <1>3, ThreadsFinite, FS_AddElement, FS_RemoveElement

\* And to the number of lent instances.
LEMMA LentMoves ==
    ASSUME TypeOK, NEW t \in Threads, NEW label, Goto(t, label),
           pc[t] \in Borrowed \/ label \in Borrowed => t \in Workers
    PROVE  Cardinality(Lent') =
             IF pc[t] \in Borrowed
               THEN IF label \in Borrowed THEN Cardinality(Lent)
                                          ELSE Cardinality(Lent) - 1
               ELSE IF label \in Borrowed THEN Cardinality(Lent) + 1
                                          ELSE Cardinality(Lent)
<1>1. t \in Lent <=> pc[t] \in Borrowed
  BY DEF Lent
<1>2. Lent' = IF label \in Borrowed THEN Lent \cup {t} ELSE Lent \ {t}
  BY DEF Lent, Goto, TypeOK, Threads
<1>3. /\ t \in Lent => Lent \cup {t} = Lent
      /\ t \notin Lent => Lent \ {t} = Lent
  OBVIOUS
<1> QED
  BY <1>1, <1>2, <1>3, ThreadsFinite, FS_AddElement, FS_RemoveElement

\* A step that moves no thread changes neither number.
LEMMA NobodyMoves ==
    ASSUME pc' = pc
    PROVE  Pending' = Pending /\ Lent' = Lent
  BY DEF Pending, Lent

LEMMA NextApart == TypeInv /\ Apart /\ [Next]_vars => Apart'
<1> SUFFICES ASSUME TypeInv, Apart, [Next]_vars PROVE Apart'
  OBVIOUS
<1> USE DEF TypeInv, TypeOK, Shape, PCs, Creating, Unwinding, Borrowed, Disposing,
            Goto, counters, slots, processes, threads, Apart, Holding
<1>1. ASSUME NEW t \in Threads, DisposeDiscard(t) PROVE Apart'
  BY <1>1 DEF DisposeDiscard
<1>2. ASSUME NEW t \in Threads, DisposeExit(t) PROVE Apart'
  BY <1>2 DEF DisposeExit, End
<1>3. ASSUME NEW t \in Threads, DisposeRecycle(t) PROVE Apart'
  BY <1>3 DEF DisposeRecycle, Continue, Resized
<1>4. ASSUME NEW t \in Threads, Reserve(t), pc[t] \in {"wait", "warm"} PROVE Apart'
  BY <1>4 DEF Reserve
<1>5. ASSUME NEW t \in Threads, PrewarmStop(t) PROVE Apart'
  BY <1>5 DEF PrewarmStop
<1>6. ASSUME NEW t \in Threads, PrewarmNoModel(t) PROVE Apart'
  BY <1>6 DEF PrewarmNoModel
<1>7. ASSUME NEW t \in Threads, PrewarmDefer(t) PROVE Apart'
  BY <1>7 DEF PrewarmDefer
<1>8. ASSUME NEW t \in Threads, Create(t) PROVE Apart'
  BY <1>8 DEF Create, Fresh
<1>9. ASSUME NEW t \in Threads, CreateFails(t) PROVE Apart'
  BY <1>9 DEF CreateFails
<1>10. ASSUME NEW t \in Threads, Register(t) PROVE Apart'
  BY <1>10 DEF Register, StillOpen
<1>11. ASSUME NEW t \in Threads, Handover(t) PROVE Apart'
  BY <1>11 DEF Handover, StillOpen
<1>12. ASSUME NEW t \in Threads, DiscardOrphan(t) PROVE Apart'
  BY <1>12 DEF DiscardOrphan, End
<1>13. ASSUME NEW t \in Threads, Unwind(t) PROVE Apart'
  BY <1>13 DEF Unwind
<1>14. ASSUME NEW t \in Threads, AcquireIdle(t) PROVE Apart'
  BY <1>14 DEF AcquireIdle
<1>15. ASSUME NEW t \in Threads, RunRefused(t) PROVE Apart'
  BY <1>15 DEF RunRefused
<1>16. ASSUME NEW t \in Threads, RunOk(t) PROVE Apart'
  BY <1>16 DEF RunOk
<1>17. ASSUME NEW t \in Threads, RunFails(t) PROVE Apart'
  BY <1>17 DEF RunFails
<1>18. ASSUME NEW t \in Threads, FinishLogs(t) PROVE Apart'
  BY <1>18 DEF FinishLogs
<1>19. ASSUME NEW t \in Threads, Release(t) PROVE Apart'
  BY <1>19 DEF Release
<1>20. ASSUME NEW t \in Threads, SetTarget(t) PROVE Apart'
  BY <1>20 DEF SetTarget, Resized, Surplus
<1>21. ASSUME NEW t \in Workers, AcquireNone(t) PROVE Apart'
  BY <1>21 DEF AcquireNone
<1>22. ASSUME NEW t \in Workers, MonitorTrip(t) PROVE Apart'
  BY <1>22 DEF MonitorTrip
<1>23. ASSUME NEW i \in Instances, MonitorKill(i) PROVE Apart'
  BY <1>23 DEF MonitorKill
<1>24. ASSUME Shutdown PROVE Apart'
  BY <1>24 DEF Shutdown
<1>26. ASSUME Exit PROVE Apart'
  BY <1>26 DEF Exit
<1>25. CASE UNCHANGED vars
  BY <1>25 DEF vars
<1> QED
  BY <1>1, <1>2, <1>3, <1>4, <1>5, <1>6, <1>7, <1>8, <1>9, <1>10, <1>11, <1>12,
     <1>13, <1>14, <1>15, <1>16, <1>17, <1>18, <1>19, <1>20, <1>21, <1>22, <1>23,
     <1>24, <1>25, <1>26
  DEF Next, Step, PrewarmReserve, AcquireReserve

\* A step between two labels that hold the same thing, with the counters and
\* the idle set untouched, keeps the accounts.
LEMMA QuietMove ==
    ASSUME TypeOK, Apart, Accounting, NEW t \in Threads, NEW label, Goto(t, label),
           pc[t] \in Reserving <=> label \in Reserving,
           pc[t] \in Borrowed <=> label \in Borrowed,
           UNCHANGED <<idle, size, inUse, closed>>
    PROVE  Accounting'
<1>1. Cardinality(Pending') = Cardinality(Pending)
  BY PendingMoves
<1>2. Cardinality(Lent') = Cardinality(Lent)
  BY LentMoves DEF Apart
<1> QED
  BY <1>1, <1>2 DEF Accounting

LEMMA NextAccounting == TypeInv /\ Apart /\ Accounting /\ [Next]_vars => Accounting'
<1> SUFFICES ASSUME TypeInv, Apart, Accounting, [Next]_vars PROVE Accounting'
  OBVIOUS
<1> USE DEF counters, slots, processes, threads
<1> DEFINE Labels == {"create", "register", "discard", "unwind", "deferred",
                      "handover"}
<1>a. TypeOK /\ Shape
  BY DEF TypeInv
<1>b. Reserving = Labels /\ Borrowed = {"running", "finishing", "releasing"}
  BY DEF Reserving, Creating, Unwinding, Borrowed
<1>c. Cardinality(idle) \in Nat /\ IsFiniteSet(idle)
  BY <1>a, IdleFinite
<1>d. \A t \in Threads : pc[t] \in {"wait"} \cup Borrowed => t \in Workers
  BY DEF Apart
<1>e. Cardinality(Pending) \in Nat /\ Cardinality(Lent) \in Nat
  BY ThreadsFinite
<1>1. ASSUME NEW t \in Threads, DisposeDiscard(t) PROVE Accounting'
  BY <1>1, NobodyMoves DEF DisposeDiscard, Accounting
<1>2. ASSUME NEW t \in Threads, DisposeExit(t) PROVE Accounting'
  BY <1>2, NobodyMoves DEF DisposeExit, Accounting
<1>3. ASSUME NEW t \in Threads, DisposeRecycle(t) PROVE Accounting'
  <2>1. CASE UNCHANGED pc
    BY <1>3, <2>1, NobodyMoves DEF DisposeRecycle, Accounting
  <2>2. CASE \E next \in Continue(t) : Goto(t, next)
    <3>1. PICK next \in Continue(t) : Goto(t, next)
      BY <2>2
    <3>2. pc[t] \notin Labels \cup Borrowed /\ next \notin Labels \cup Borrowed
      BY <1>3, <1>b DEF DisposeRecycle, Disposing, Continue, Resized
    <3> QED
      BY <1>3, <1>a, <1>b, <3>1, <3>2, QuietMove DEF DisposeRecycle
  <2> QED
    BY <1>3, <2>1, <2>2 DEF DisposeRecycle
<1>4. ASSUME NEW t \in Threads, Reserve(t), pc[t] \in {"wait", "warm"}
      PROVE Accounting'
  <2>1. Cardinality(Pending') = Cardinality(Pending) + 1
    BY <1>4, <1>a, <1>b, PendingMoves DEF Reserve
  <2>2. Cardinality(Lent') = Cardinality(Lent)
    BY <1>4, <1>a, <1>b, <1>d, LentMoves DEF Reserve
  <2> QED
    BY <1>4, <1>a, <1>c, <1>e, <2>1, <2>2 DEF Reserve, Accounting, TypeOK
<1>5. ASSUME NEW t \in Threads, PrewarmStop(t) PROVE Accounting'
  BY <1>5, <1>a, <1>b, QuietMove DEF PrewarmStop
<1>6. ASSUME NEW t \in Threads, PrewarmNoModel(t) PROVE Accounting'
  BY <1>6, <1>a, <1>b, QuietMove DEF PrewarmNoModel
<1>7. ASSUME NEW t \in Threads, PrewarmDefer(t) \/ Unwind(t) PROVE Accounting'
  <2>1. Cardinality(Pending') = Cardinality(Pending) - 1
    BY <1>7, <1>a, <1>b, PendingMoves DEF PrewarmDefer, Unwind
  <2>2. Cardinality(Lent') = Cardinality(Lent)
    BY <1>7, <1>a, <1>b, <1>d, LentMoves DEF PrewarmDefer, Unwind
  <2>3. Cardinality(Pending) > 0
    <3>1. t \in Pending
      BY <1>7 DEF Pending, Unwinding, PrewarmDefer, Unwind
    <3> QED
      BY <3>1, <1>e, ThreadsFinite, FS_EmptySet
  <2> QED
    BY <1>7, <1>a, <1>c, <1>e, <2>1, <2>2, <2>3
    DEF PrewarmDefer, Unwind, Dec, Accounting, TypeOK
<1>8. ASSUME NEW t \in Threads, Create(t) PROVE Accounting'
  BY <1>8, <1>a, <1>b, QuietMove DEF Create
<1>9. ASSUME NEW t \in Threads, CreateFails(t) PROVE Accounting'
  BY <1>9, <1>a, <1>b, QuietMove DEF CreateFails
<1>10. ASSUME NEW t \in Threads, Register(t) PROVE Accounting'
  BY <1>10, <1>a, <1>b, QuietMove DEF Register
<1>11. ASSUME NEW t \in Threads, Handover(t) PROVE Accounting'
  <2>1. CASE closed
    BY <1>11, <2>1 DEF Handover, Accounting
  <2>2. CASE ~closed /\ t \in Workers
    <3>1. Cardinality(Pending') = Cardinality(Pending) - 1
      BY <1>11, <1>a, <1>b, <2>2, PendingMoves DEF Handover, StillOpen
    <3>2. Cardinality(Lent') = Cardinality(Lent) + 1
      BY <1>11, <1>a, <1>b, <2>2, LentMoves DEF Handover, StillOpen
    <3> QED
      BY <1>11, <1>a, <1>c, <1>e, <2>2, <3>1, <3>2
      DEF Handover, StillOpen, Accounting, TypeOK
  <2>3. CASE ~closed /\ t \notin Workers
    <3>1. Cardinality(Pending') = Cardinality(Pending) - 1
      BY <1>11, <1>a, <1>b, <2>3, PendingMoves DEF Handover, StillOpen
    <3>2. Cardinality(Lent') = Cardinality(Lent)
      BY <1>11, <1>a, <1>b, <2>3, LentMoves DEF Handover, StillOpen
    <3>3. inst[t] \notin idle /\ idle' = idle \cup {inst[t]}
      BY <1>11, <2>3 DEF Handover, StillOpen, Apart, Holding
    <3>4. Cardinality(idle') = Cardinality(idle) + 1
      BY <1>c, <3>3, FS_AddElement
    <3> QED
      BY <1>11, <1>a, <1>c, <1>e, <2>3, <3>1, <3>2, <3>4
      DEF Handover, StillOpen, Accounting, TypeOK
  <2> QED
    BY <2>1, <2>2, <2>3
<1>12. ASSUME NEW t \in Threads, DiscardOrphan(t) PROVE Accounting'
  BY <1>12, <1>a, <1>b, QuietMove DEF DiscardOrphan
<1>13. ASSUME NEW t \in Threads, AcquireIdle(t) PROVE Accounting'
  <2>1. Cardinality(Pending') = Cardinality(Pending)
    BY <1>13, <1>a, <1>b, PendingMoves DEF AcquireIdle
  <2>2. Cardinality(Lent') = Cardinality(Lent) + 1
    BY <1>13, <1>a, <1>b, LentMoves DEF AcquireIdle
  <2>3. Cardinality(idle') = Cardinality(idle) - 1
    BY <1>13, <1>c, FS_RemoveElement DEF AcquireIdle
  <2> QED
    BY <1>13, <1>a, <1>c, <1>e, <2>1, <2>2, <2>3 DEF AcquireIdle, Accounting, TypeOK
<1>14. ASSUME NEW t \in Threads, RunRefused(t) PROVE Accounting'
  BY <1>14, <1>a, <1>b, QuietMove DEF RunRefused
<1>15. ASSUME NEW t \in Threads, RunOk(t) PROVE Accounting'
  BY <1>15, <1>a, <1>b, QuietMove DEF RunOk
<1>16. ASSUME NEW t \in Threads, RunFails(t) PROVE Accounting'
  BY <1>16, <1>a, <1>b, QuietMove DEF RunFails
<1>17. ASSUME NEW t \in Threads, FinishLogs(t) PROVE Accounting'
  BY <1>17, <1>a, <1>b, QuietMove DEF FinishLogs
<1>18. ASSUME NEW t \in Threads, Release(t) PROVE Accounting'
  <2>1. t \in Workers /\ pc[t] \in Borrowed
    BY <1>18, <1>b, <1>d DEF Release
  <2>2. Cardinality(Pending') = Cardinality(Pending)
    BY <1>18, <1>a, <1>b, PendingMoves DEF Release
  <2>3. Cardinality(Lent') = Cardinality(Lent) - 1
    BY <1>18, <1>a, <1>b, <2>1, LentMoves DEF Release
  <2>4. Cardinality(Lent) > 0
    <3>1. t \in Lent
      BY <2>1 DEF Lent
    <3> QED
      BY <3>1, <1>e, ThreadsFinite, FS_EmptySet
  <2>5. CASE closed
    BY <1>18, <2>5 DEF Release, Accounting
  <2>6. CASE ~closed /\ MustDispose(inst[t])
    BY <1>18, <1>a, <1>c, <1>e, <2>2, <2>3, <2>4, <2>6
    DEF Release, Dec, Accounting, TypeOK
  <2>7. CASE ~closed /\ ~MustDispose(inst[t])
    <3>1. inst[t] \notin idle /\ idle' = idle \cup {inst[t]}
      BY <1>18, <2>1, <2>7 DEF Release, Apart, Holding
    <3>2. Cardinality(idle') = Cardinality(idle) + 1
      BY <1>c, <3>1, FS_AddElement
    <3> QED
      BY <1>18, <1>a, <1>c, <1>e, <2>2, <2>3, <2>4, <2>7, <3>2
      DEF Release, Dec, Accounting, TypeOK
  <2> QED
    BY <2>5, <2>6, <2>7
<1>19. ASSUME NEW t \in Threads, SetTarget(t) PROVE Accounting'
  <2>1. PICK n \in Targets : \E S \in Surplus(n) :
            /\ idle' = idle \ S
            /\ size' = size - Cardinality(S)
            /\ IF S = {} THEN \E next \in Resized(t) : Goto(t, next)
                         ELSE Goto(t, "resizing")
    BY <1>19 DEF SetTarget
  <2>2. PICK S \in Surplus(n) :
            /\ idle' = idle \ S
            /\ size' = size - Cardinality(S)
            /\ IF S = {} THEN \E next \in Resized(t) : Goto(t, next)
                         ELSE Goto(t, "resizing")
    BY <2>1
  <2>3. PICK label \in {"resizing", "wait", "warm", "out"} : Goto(t, label)
    BY <2>2 DEF Resized
  <2>4. pc[t] = "out" /\ UNCHANGED <<inUse, closed>>
    BY <1>19 DEF SetTarget
  <2>5. Cardinality(Pending') = Cardinality(Pending)
    BY <1>a, <1>b, <2>3, <2>4, PendingMoves
  <2>6. Cardinality(Lent') = Cardinality(Lent)
    BY <1>a, <1>b, <2>3, <2>4, LentMoves
  <2>7. S \subseteq idle /\ Cardinality(S) \in Nat
    BY <1>a, IdleFinite DEF Surplus
  <2>8. Cardinality(idle') = Cardinality(idle) - Cardinality(S)
    <3>1. idle \cap S = S
      BY <2>7
    <3> QED
      BY <1>c, <2>2, <3>1, FS_Difference
  <2> QED
    BY <1>a, <1>c, <1>e, <2>2, <2>4, <2>5, <2>6, <2>7, <2>8 DEF Accounting, TypeOK
<1>20. ASSUME NEW t \in Workers, AcquireNone(t) PROVE Accounting'
  BY <1>20, <1>a, <1>b, QuietMove DEF AcquireNone, Threads
<1>21. ASSUME NEW t \in Workers, MonitorTrip(t) PROVE Accounting'
  BY <1>21, NobodyMoves DEF MonitorTrip, Accounting
<1>22. ASSUME NEW i \in Instances, MonitorKill(i) PROVE Accounting'
  BY <1>22, NobodyMoves DEF MonitorKill, Accounting
<1>23. ASSUME Shutdown \/ Exit PROVE Accounting'
  BY <1>23 DEF Shutdown, Exit, Accounting
<1>24. CASE UNCHANGED vars
  BY <1>24, NobodyMoves DEF vars, Accounting
<1> QED
  BY <1>1, <1>2, <1>3, <1>4, <1>5, <1>6, <1>7, <1>8, <1>9, <1>10, <1>11, <1>12,
     <1>13, <1>14, <1>15, <1>16, <1>17, <1>18, <1>19, <1>20, <1>21, <1>22, <1>23,
     <1>24
  DEF Next, Step, PrewarmReserve, AcquireReserve

LEMMA InitAccounting == Init => Apart /\ Accounting
<1> SUFFICES ASSUME Init PROVE Apart /\ Accounting
  OBVIOUS
<1>1. \A t \in Threads : pc[t] = "out"
  BY DEF Init
<1>2. Pending = {} /\ Lent = {}
  BY <1>1 DEF Pending, Lent, Creating, Unwinding, Borrowed, Threads
<1>3. Accounting
  BY <1>2, FS_EmptySet DEF Init, Accounting
<1>4. Apart
  BY <1>1 DEF Apart, Borrowed, Holding
<1> QED
  BY <1>3, <1>4

\* While the pool is open its two counters are exactly what their comments
\* say, in every interleaving of resizes, creations, failures and returns.
THEOREM AccountingHolds == Spec => []Accounting
  BY InitTypeInv, NextTypeInv, InitAccounting, NextApart, NextAccounting, PTL
  DEF Spec

-----------------------------------------------------------------------------
(* The licence.  _size never exceeds every limit of the past, because it   *)
(* only grows, by one, while it is below the current one.                  *)

Bounded == \E n \in Targets : size <= n

LEMMA SizeStep == TypeInv /\ [Next]_vars => size' <= size \/ size' <= target
<1> SUFFICES ASSUME TypeInv, [Next]_vars PROVE size' <= size \/ size' <= target
  OBVIOUS
<1> USE DEF TypeInv, TypeOK, counters, slots, processes, threads
<1>1. target \in Nat
  BY TargetsAssumption
<1>2. ASSUME NEW t \in Threads, Reserve(t) PROVE size' <= target
  BY <1>1, <1>2 DEF Reserve, HasRoom
<1>3. ASSUME NEW t \in Threads, PrewarmDefer(t) \/ Unwind(t)
      PROVE size' <= size \/ size' <= target
  BY <1>1, <1>3 DEF PrewarmDefer, Unwind, Dec
<1>4. ASSUME NEW t \in Threads, Release(t) PROVE size' <= size \/ size' <= target
  BY <1>1, <1>4 DEF Release, Dec
<1>5. ASSUME NEW t \in Threads, SetTarget(t) PROVE size' <= size
  <2>1. PICK n \in Targets : \E S \in Surplus(n) : size' = size - Cardinality(S)
    BY <1>5 DEF SetTarget
  <2>2. PICK S \in Surplus(n) : size' = size - Cardinality(S)
    BY <2>1
  <2>3. Cardinality(S) \in Nat
    BY IdleFinite DEF Surplus
  <2> QED
    BY <2>2, <2>3
<1>6. ASSUME Shutdown \/ Exit PROVE size' <= target \/ size' = size
  BY <1>1, <1>6 DEF Shutdown, Exit
<1>7. ASSUME NEW t \in Threads,
             \/ DisposeDiscard(t) \/ DisposeExit(t) \/ DisposeRecycle(t)
             \/ PrewarmStop(t) \/ PrewarmNoModel(t)
             \/ Create(t) \/ CreateFails(t) \/ Register(t) \/ DiscardOrphan(t)
      PROVE size' = size
  BY <1>7 DEF DisposeDiscard, DisposeExit, DisposeRecycle, PrewarmStop,
              PrewarmNoModel, Create, CreateFails, Register, DiscardOrphan
<1>8. ASSUME NEW t \in Threads,
             \/ Handover(t) \/ AcquireIdle(t) \/ AcquireNone(t) \/ MonitorTrip(t)
             \/ RunRefused(t) \/ RunOk(t) \/ RunFails(t) \/ FinishLogs(t)
      PROVE size' = size
  BY <1>8 DEF Handover, AcquireIdle, AcquireNone, MonitorTrip, RunRefused, RunOk,
              RunFails, FinishLogs
<1>9. ASSUME NEW i \in Instances, MonitorKill(i) PROVE size' = size
  BY <1>9 DEF MonitorKill
<1>10. CASE UNCHANGED vars
  BY <1>10 DEF vars
<1> QED
  BY <1>2, <1>3, <1>4, <1>5, <1>6, <1>7, <1>8, <1>9, <1>10
  DEF Next, Step, PrewarmReserve, AcquireReserve, Threads

LEMMA NextBounded == TypeInv /\ Bounded /\ [Next]_vars => Bounded'
<1> SUFFICES ASSUME TypeInv, Bounded, [Next]_vars PROVE Bounded'
  OBVIOUS
<1>1. size \in Int /\ size' \in Int /\ target \in Targets
  BY NextTypeInv DEF TypeInv, TypeOK
<1>2. size' <= size \/ size' <= target
  BY SizeStep
<1>3. PICK n \in Targets : size <= n
  BY DEF Bounded
<1>4. n \in Nat /\ target \in Nat
  BY <1>1, TargetsAssumption
<1> QED
  BY <1>1, <1>2, <1>3, <1>4 DEF Bounded

\* The instances jobs use or may use never outnumber every configured limit.
THEOREM WithinLicenceHolds == Spec => []WithinLicence
<1>1. Init => Bounded
  BY TargetsAssumption DEF Init, Bounded
<1>2. TypeInv /\ Accounting /\ Bounded => WithinLicence
  <2> SUFFICES ASSUME TypeInv, Accounting, Bounded, ~closed PROVE WithinLicence
    BY DEF WithinLicence
  <2>1. PICK n \in Targets : size <= n
    BY DEF Bounded
  <2>2. Cardinality(idle) \in Nat /\ Cardinality(Lent) \in Nat
        /\ Cardinality(Pending) \in Nat /\ n \in Nat
    BY IdleFinite, ThreadsFinite, TargetsAssumption DEF TypeInv
  <2>3. Cardinality(idle) + Cardinality(Lent) <= n
    BY <2>1, <2>2 DEF Accounting
  <2> QED
    BY <2>3 DEF WithinLicence
<1> QED
  BY <1>1, <1>2, InitTypeInv, NextTypeInv, InitAccounting, NextApart,
     NextAccounting, NextBounded, PTL DEF Spec

-----------------------------------------------------------------------------
(* Labels.  An instance keeps its label for as long as the pool or a       *)
(* thread has the instance, which is longer than its process lives.        *)

Owns(t) == IF pc[t] \in Holding \cup {"discard"} THEN {inst[t]} ELSE doomed[t]
Owned   == idle \cup {i \in Instances : \E t \in Threads : i \in Owns(t)}

\* While the pool is open every instance has one owner, and every label is
\* released, reserved by one thread, or carried by one owned instance.
Tracked ==
    ~closed =>
       /\ \A t \in Threads : \A i \in Owns(t) :
             i \notin idle /\ \A u \in Threads \ {t} : i \notin Owns(u)
       /\ running \ stray \subseteq Owned
       /\ \A n \in free : n <= high
       /\ \A i \in Owned : uid[i] \notin free /\ uid[i] <= high
       /\ \A i, j \in Owned : i # j => uid[i] # uid[j]
       /\ \A t \in Threads : pc[t] = "create" =>
             /\ slot[t] \notin free /\ slot[t] <= high
             /\ \A i \in Owned : uid[i] # slot[t]

\* After the pool closed labels are given back twice, by the closer and by
\* the borrower, but nothing is reserved any more.
Named ==
    /\ UniqueLabels
    /\ \A t \in Threads : pc[t] = "create" =>
          /\ \A i \in running \ stray : uid[i] # slot[t]
          /\ \A u \in Threads \ {t} : pc[u] = "create" => slot[u] # slot[t]
    /\ \A t \in Threads : stage[t] = "recycle" => inst[t] \notin running \ stray
    /\ \A t \in Threads : pc[t] = "discard" => closed

\* The allocator hands out a number that is neither released nor in use.
LEMMA GrabFresh ==
    ASSUME TypeOK, \A m \in free : m <= high, NEW n \in 1 .. high + 1, Slots!Grab(n)
    PROVE  /\ n \notin free' /\ n <= high' /\ \A m \in free' : m <= high'
           /\ \A k \in Nat : k \notin free /\ k <= high
                 => k # n /\ k \notin free' /\ k <= high'
<1>1. high \in Nat /\ n \in Nat
  BY DEF TypeOK
<1>2. CASE n \in free /\ free' = free \ {n} /\ high' = high
  BY <1>1, <1>2
<1>3. CASE free = {} /\ n = high + 1 /\ high' = n /\ free' = free
  BY <1>1, <1>3
<1> QED
  BY <1>2, <1>3 DEF Slots!Grab

\* An instance that passes from its owner to the idle set still has one owner.
LEMMA OwnerToIdle ==
    ASSUME NEW t \in Threads, NEW i, idle' = idle \cup {i},
           Owns(t) = {i}, Owns(t)' = {},
           \A u \in Threads \ {t} : Owns(u)' = Owns(u),
           \A u \in Threads : \A j \in Owns(u) :
              j \notin idle /\ \A v \in Threads \ {u} : j \notin Owns(v)
    PROVE  \A u \in Threads : \A j \in Owns(u)' :
              j \notin idle' /\ \A v \in Threads \ {u} : j \notin Owns(v)'
  OBVIOUS

LEMMA NextNamed ==
    TypeInv /\ Tracked /\ Named /\ [Next]_vars => Tracked' /\ Named'
<1> SUFFICES ASSUME TypeInv, Tracked, Named, [Next]_vars PROVE Tracked' /\ Named'
  OBVIOUS
<1> USE DEF TypeInv, TypeOK, Shape, Creating, Unwinding, Borrowed, Disposing, Holding,
            Goto, counters, slots, processes, threads, Tracked, Named, Owns, Owned,
            UniqueLabels
<1>1. ASSUME NEW t \in Threads, DisposeDiscard(t) PROVE Tracked' /\ Named'
  <2>1. Tracked'
    BY <1>1 DEF DisposeDiscard
  <2>2. Named'
    BY <1>1 DEF DisposeDiscard
  <2> QED BY <2>1, <2>2
<1>2. ASSUME NEW t \in Threads, DisposeExit(t) PROVE Tracked' /\ Named'
  <2>1. Tracked'
    BY <1>2 DEF DisposeExit, End
  <2>2. Named'
    BY <1>2 DEF DisposeExit, End
  <2> QED BY <2>1, <2>2
<1>3. ASSUME NEW t \in Threads, DisposeRecycle(t) PROVE Tracked' /\ Named'
  <2>1. Tracked'
    BY <1>3 DEF DisposeRecycle, Continue, Resized, Slots!Give
  <2>2. Named'
    BY <1>3 DEF DisposeRecycle, Continue, Resized, Slots!Give
  <2> QED BY <2>1, <2>2
<1>4. ASSUME NEW t \in Threads, Reserve(t), pc[t] \in {"wait", "warm"} PROVE Tracked' /\ Named'
  <2>a. (\A u \in Threads \ {t} : Owns(u)' = Owns(u)) /\ Owns(t)' = {} /\ Owns(t) = {}
    BY <1>4 DEF Reserve, Slots!Grab
  <2>b. Owned' = Owned
    BY <1>4, <2>a DEF Reserve, Slots!Grab
  <2>c. PICK n \in 1 .. high + 1 : Slots!Grab(n) /\ slot' = [slot EXCEPT ![t] = n]
    BY <1>4 DEF Reserve
  <2>d. \A i \in Owned : uid[i] \in Nat /\ uid[i] \notin free /\ uid[i] <= high
    BY <1>4 DEF Reserve
  <2>e. /\ n \notin free' /\ n <= high' /\ \A m \in free' : m <= high'
        /\ \A k \in Nat : k \notin free /\ k <= high
                 => k # n /\ k \notin free' /\ k <= high'
    BY <1>4, <2>c, GrabFresh DEF Reserve
  <2>f. \A i \in Owned : uid[i] \notin free' /\ uid[i] <= high' /\ uid[i] # n
    BY <2>d, <2>e
  <2>g. \A u \in Threads : pc[u] = "create" => slot[u] \notin free' /\ slot[u] <= high'
    BY <1>4, <2>e DEF Reserve
  <2>1. Tracked'
    BY <1>4, <2>a, <2>b, <2>c, <2>e, <2>f, <2>g DEF Reserve
  <2>2. Named'
    BY <1>4 DEF Reserve, Slots!Grab
  <2> QED BY <2>1, <2>2
<1>5. ASSUME NEW t \in Threads, PrewarmStop(t) PROVE Tracked' /\ Named'
  <2>1. Tracked'
    BY <1>5 DEF PrewarmStop
  <2>2. Named'
    BY <1>5 DEF PrewarmStop
  <2> QED BY <2>1, <2>2
<1>6. ASSUME NEW t \in Threads, PrewarmNoModel(t) PROVE Tracked' /\ Named'
  <2>a. (\A u \in Threads \ {t} : Owns(u)' = Owns(u)) /\ Owns(t)' = {} /\ Owns(t) = {}
    BY <1>6 DEF PrewarmNoModel, Slots!Give
  <2>b. Owned' = Owned
    BY <1>6, <2>a DEF PrewarmNoModel, Slots!Give
  <2>1. Tracked'
    BY <1>6, <2>a, <2>b DEF PrewarmNoModel, Slots!Give
  <2>2. Named'
    BY <1>6 DEF PrewarmNoModel, Slots!Give
  <2> QED BY <2>1, <2>2
<1>7. ASSUME NEW t \in Threads, PrewarmDefer(t) PROVE Tracked' /\ Named'
  <2>1. Tracked'
    BY <1>7 DEF PrewarmDefer
  <2>2. Named'
    BY <1>7 DEF PrewarmDefer
  <2> QED BY <2>1, <2>2
<1>8. ASSUME NEW t \in Threads, Create(t) PROVE Tracked' /\ Named'
  <2>a. PICK i \in Instances : /\ Fresh(i)
                              /\ running' = running \cup {i}
                              /\ uid' = [uid EXCEPT ![i] = slot[t]]
                              /\ inst' = [inst EXCEPT ![t] = i]
    BY <1>8 DEF Create
  <2>b. /\ \A u \in Threads \ {t} : Owns(u)' = Owns(u)
        /\ Owns(t) = {} /\ Owns(t)' = {i}
        /\ i \notin Owned
    BY <1>8, <2>a DEF Create, Fresh
  <2>c. Owned' = Owned \cup {i}
    BY <1>8, <2>b DEF Create
  <2>1. Tracked'
    BY <1>8, <2>a, <2>b, <2>c DEF Create
  <2>2. Named'
    BY <1>8 DEF Create, Fresh
  <2> QED BY <2>1, <2>2
<1>9. ASSUME NEW t \in Threads, CreateFails(t) PROVE Tracked' /\ Named'
  <2>1. Tracked'
    BY <1>9 DEF CreateFails, Slots!Give
  <2>2. Named'
    BY <1>9 DEF CreateFails, Slots!Give
  <2> QED BY <2>1, <2>2
<1>10. ASSUME NEW t \in Threads, Register(t) PROVE Tracked' /\ Named'
  <2>1. Tracked'
    <3>1. CASE closed
      BY <1>10, <3>1 DEF Register, StillOpen
    <3>2. CASE ~closed
      <4>1. \A u \in Threads : Owns(u)' = Owns(u)
        BY <1>10, <3>2 DEF Register, StillOpen
      <4>2. Owned' = Owned
        BY <1>10, <4>1 DEF Register
      <4> QED
        BY <1>10, <3>2, <4>1, <4>2 DEF Register, StillOpen
    <3> QED
      BY <3>1, <3>2
  <2>2. Named'
    BY <1>10 DEF Register, StillOpen
  <2> QED BY <2>1, <2>2
<1>11. ASSUME NEW t \in Threads, Handover(t) PROVE Tracked' /\ Named'
  <2>a. (\A u \in Threads \ {t} : Owns(u)' = Owns(u)) /\ Owns(t) = {inst[t]}
    <3>1. \A u \in Threads \ {t} :
              inst'[u] = inst[u] /\ pc'[u] = pc[u] /\ doomed'[u] = doomed[u]
      BY <1>11 DEF Handover
    <3>2. pc[t] = "handover"
      BY <1>11 DEF Handover
    <3> QED
      BY <3>1, <3>2
  <2>1. Tracked'
    <3>0. closed' = closed
      BY <1>11 DEF Handover
    <3> SUFFICES ASSUME ~closed PROVE Tracked'
      BY <3>0
    <3>1. CASE t \in Workers
      <4>1. Owns(t)' = Owns(t) /\ idle' = idle
        BY <1>11, <3>1 DEF Handover, StillOpen
      <4>2. Owned' = Owned
        BY <1>11, <2>a, <4>1 DEF Handover
      <4> QED
        BY <1>11, <2>a, <4>1, <4>2 DEF Handover
    <3>2. CASE t \notin Workers
      <4>1. Owns(t)' = {} /\ idle' = idle \cup {inst[t]}
        BY <1>11, <3>2 DEF Handover, StillOpen
      <4>2. Owned' = Owned
        BY <1>11, <2>a, <4>1 DEF Handover
      <4>3. \A u \in Threads : \A i \in Owns(u)' :
                i \notin idle' /\ \A v \in Threads \ {u} : i \notin Owns(v)'
        BY <2>a, <4>1, OwnerToIdle
      <4>4. \A u \in Threads : pc'[u] = "create"
                => pc[u] = "create" /\ slot'[u] = slot[u]
        BY <1>11 DEF Handover
      <4>5. UNCHANGED <<free, high, uid, running, stray>>
        BY <1>11 DEF Handover
      <4> QED
        BY <4>2, <4>3, <4>4, <4>5
    <3> QED
      BY <3>1, <3>2
  <2>2. Named'
    BY <1>11 DEF Handover, StillOpen
  <2> QED BY <2>1, <2>2
<1>12. ASSUME NEW t \in Threads, DiscardOrphan(t) PROVE Tracked' /\ Named'
  <2>1. Tracked'
    BY <1>12 DEF DiscardOrphan, End, Slots!Give
  <2>2. Named'
    BY <1>12 DEF DiscardOrphan, End, Slots!Give
  <2> QED BY <2>1, <2>2
<1>13. ASSUME NEW t \in Threads, Unwind(t) PROVE Tracked' /\ Named'
  <2>1. Tracked'
    BY <1>13 DEF Unwind
  <2>2. Named'
    BY <1>13 DEF Unwind
  <2> QED BY <2>1, <2>2
<1>14. ASSUME NEW t \in Threads, AcquireIdle(t) PROVE Tracked' /\ Named'
  <2>a. (\A u \in Threads \ {t} : Owns(u)' = Owns(u)) /\ Owns(t)' = {inst'[t]} /\ Owns(t) = {}
    BY <1>14 DEF AcquireIdle
  <2>b. Owned' = Owned
    BY <1>14, <2>a DEF AcquireIdle
  <2>1. Tracked'
    BY <1>14, <2>a, <2>b DEF AcquireIdle
  <2>2. Named'
    BY <1>14 DEF AcquireIdle
  <2> QED BY <2>1, <2>2
<1>15. ASSUME NEW t \in Threads, RunRefused(t) PROVE Tracked' /\ Named'
  <2>1. Tracked'
    BY <1>15 DEF RunRefused
  <2>2. Named'
    BY <1>15 DEF RunRefused
  <2> QED BY <2>1, <2>2
<1>16. ASSUME NEW t \in Threads, RunOk(t) PROVE Tracked' /\ Named'
  <2>a. (\A u \in Threads \ {t} : Owns(u)' = Owns(u)) /\ Owns(t)' = Owns(t)
    BY <1>16 DEF RunOk
  <2>b. Owned' = Owned
    BY <1>16, <2>a DEF RunOk
  <2>1. Tracked'
    BY <1>16, <2>a, <2>b DEF RunOk
  <2>2. Named'
    BY <1>16 DEF RunOk
  <2> QED BY <2>1, <2>2
<1>17. ASSUME NEW t \in Threads, RunFails(t) PROVE Tracked' /\ Named'
  <2>1. Tracked'
    BY <1>17 DEF RunFails
  <2>2. Named'
    BY <1>17 DEF RunFails
  <2> QED BY <2>1, <2>2
<1>18. ASSUME NEW t \in Threads, FinishLogs(t) PROVE Tracked' /\ Named'
  <2>1. Tracked'
    BY <1>18 DEF FinishLogs
  <2>2. Named'
    BY <1>18 DEF FinishLogs
  <2> QED BY <2>1, <2>2
<1>19. ASSUME NEW t \in Threads, Release(t) PROVE Tracked' /\ Named'
  <2>1. Tracked'
    BY <1>19 DEF Release
  <2>2. Named'
    BY <1>19 DEF Release
  <2> QED BY <2>1, <2>2
<1>20. ASSUME NEW t \in Threads, SetTarget(t) PROVE Tracked' /\ Named'
  <2>1. Tracked'
    BY <1>20 DEF SetTarget, Resized, Surplus
  <2>2. Named'
    BY <1>20 DEF SetTarget, Resized, Surplus
  <2> QED BY <2>1, <2>2
<1>21. ASSUME NEW t \in Workers, AcquireNone(t) PROVE Tracked' /\ Named'
  <2>1. Tracked'
    BY <1>21 DEF AcquireNone
  <2>2. Named'
    BY <1>21 DEF AcquireNone
  <2> QED BY <2>1, <2>2
<1>22. ASSUME NEW t \in Workers, MonitorTrip(t) PROVE Tracked' /\ Named'
  <2>1. Tracked'
    BY <1>22 DEF MonitorTrip
  <2>2. Named'
    BY <1>22 DEF MonitorTrip
  <2> QED BY <2>1, <2>2
<1>23. ASSUME NEW i \in Instances, MonitorKill(i) PROVE Tracked' /\ Named'
  <2>1. Tracked'
    BY <1>23 DEF MonitorKill
  <2>2. Named'
    BY <1>23 DEF MonitorKill
  <2> QED BY <2>1, <2>2
<1>24. ASSUME Shutdown PROVE Tracked' /\ Named'
  BY <1>24 DEF Shutdown, Threads
<1>26. ASSUME Exit PROVE Tracked' /\ Named'
  BY <1>26 DEF Exit
<1>25. CASE UNCHANGED vars
  BY <1>25 DEF vars
<1> QED
  BY <1>1, <1>2, <1>3, <1>4, <1>5, <1>6, <1>7, <1>8, <1>9, <1>10, <1>11, <1>12,
     <1>13, <1>14, <1>15, <1>16, <1>17, <1>18, <1>19, <1>20, <1>21, <1>22, <1>23,
     <1>24, <1>25, <1>26
  DEF Next, Step, PrewarmReserve, AcquireReserve

\* Two Silver processes never share a label, hence never a Console.log, but
\* for processes whose disposal failed.
THEOREM UniqueLabelsHolds == Spec => []UniqueLabels
<1>1. Init => Tracked /\ Named
  <2> SUFFICES ASSUME Init PROVE Tracked /\ Named
    OBVIOUS
  <2>1. /\ \A t \in Threads : pc[t] = "out" /\ stage[t] = "pick" /\ Owns(t) = {}
        /\ running = {} /\ idle = {} /\ free = {}
    BY DEF Init, Slots!Init, Owns, Holding, Borrowed
  <2>2. Owned = {}
    BY <2>1 DEF Owned
  <2> QED
    BY <2>1, <2>2 DEF Tracked, Named, UniqueLabels
<1>2. Named => UniqueLabels
  BY DEF Named
<1> QED
  BY <1>1, <1>2, InitTypeInv, NextTypeInv, NextNamed, PTL DEF Spec
=============================================================================
