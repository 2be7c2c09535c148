---------------------- MODULE SilverPoolLending_proofs ----------------------
(***************************************************************************)
(* SilverPool implements InstanceLending, and so lends no instance to two  *)
(* workers at a time.                                                      *)
(***************************************************************************)
EXTENDS SilverPool_proofs

\* The main thread leaves "out" by shutting the pool down, and only so.
ClosedOnce ==
    /\ pc[Closer] \in {"out", "closing", "done"}
    /\ closed <=> pc[Closer] # "out"

LEMMA NextClosedOnce == TypeInv /\ Apart /\ ClosedOnce /\ [Next]_vars => ClosedOnce'
<1> SUFFICES ASSUME TypeInv, Apart, ClosedOnce, [Next]_vars PROVE ClosedOnce'
  OBVIOUS
<1> USE ThreadsAssumption DEF TypeInv, TypeOK, Apart, ClosedOnce, Goto, Borrowed,
        counters, slots, processes, threads, Threads
<1>1. ASSUME NEW t \in Threads, Step(t) PROVE ClosedOnce'
  <2>1. closed' = closed
    BY <1>1 DEF Step, DisposeDiscard, DisposeExit, DisposeRecycle, PrewarmReserve,
      PrewarmStop, PrewarmNoModel, PrewarmDefer, Create, CreateFails, Register,
      Handover, DiscardOrphan, Unwind, AcquireIdle, AcquireReserve, Reserve,
      RunRefused, RunOk, RunFails, FinishLogs, Release
  <2>2. CASE t # Closer
    <3>1. pc'[Closer] = pc[Closer]
      BY <1>1, <2>2 DEF Step, DisposeDiscard, DisposeExit, DisposeRecycle,
        PrewarmReserve, PrewarmStop, PrewarmNoModel, PrewarmDefer, Create,
        CreateFails, Register, Handover, DiscardOrphan, Unwind, AcquireIdle,
        AcquireReserve, Reserve, RunRefused, RunOk, RunFails, FinishLogs, Release
    <3> QED
      BY <2>1, <3>1
  <2>3. CASE t = Closer
    <3>1. DisposeDiscard(t) \/ DisposeExit(t) \/ DisposeRecycle(t)
      BY <1>1, <2>3 DEF Step, PrewarmReserve,
        PrewarmStop, PrewarmNoModel, PrewarmDefer, Create, CreateFails, Register,
        Handover, DiscardOrphan, Unwind, AcquireIdle, AcquireReserve, Reserve,
        RunRefused, RunOk, RunFails, FinishLogs, Release
    <3>2. pc[t] = "closing" /\ pc'[t] \in {"closing", "done"}
      BY <2>3, <3>1 DEF DisposeDiscard, DisposeExit, DisposeRecycle, Disposing, Continue
    <3> QED
      BY <2>1, <2>3, <3>2
  <2> QED
    BY <2>2, <2>3
<1>2. ASSUME NEW t \in Threads, SetTarget(t) PROVE ClosedOnce'
  <2>1. t # Closer /\ closed' = closed
    BY <1>2 DEF SetTarget
  <2>2. PICK label : Goto(t, label)
    BY <1>2 DEF SetTarget
  <2> QED
    BY <2>1, <2>2
<1>3. ASSUME NEW t \in Workers, AcquireNone(t) \/ MonitorTrip(t) PROVE ClosedOnce'
  BY <1>3 DEF AcquireNone, MonitorTrip
<1>4. ASSUME NEW i \in Instances, MonitorKill(i) PROVE ClosedOnce'
  BY <1>4 DEF MonitorKill
<1>5. ASSUME Shutdown \/ Exit PROVE ClosedOnce'
  BY <1>5 DEF Shutdown, Exit
<1>6. CASE UNCHANGED vars
  BY <1>6 DEF vars
<1> QED
  BY <1>1, <1>2, <1>3, <1>4, <1>5, <1>6 DEF Next

-----------------------------------------------------------------------------
(* The steps, seen through the refinement mapping. *)

\* A step that changes neither the idle set, nor who holds what, is a stutter.
LEMMA Stutters ==
    ASSUME UNCHANGED <<idle, closed>>, InPlay' = InPlay, Lent' = Lent,
           \A t \in InPlay \cup Lent : inst'[t] = inst[t]
    PROVE  UNCHANGED <<Lendable, Holder, closed>>
<1>1. {inst'[t] : t \in InPlay'} = {inst[t] : t \in InPlay}
  OBVIOUS
<1>2. Holder' = Holder
  BY DEF Holder
<1> QED
  BY <1>1, <1>2 DEF Lendable

\* The same for a thread that stays within, or stays outside, the program
\* points that matter to the mapping.
LEMMA MoveStutters ==
    ASSUME TypeOK, UNCHANGED <<idle, closed>>, NEW t \in Threads, NEW label,
           Goto(t, label), NEW i, inst' = [inst EXCEPT ![t] = i],
           \/ /\ pc[t] \in Borrowed /\ label \in Borrowed /\ i = inst[t]
           \/ /\ pc[t] \notin Borrowed \cup {"handover"}
              /\ label \notin Borrowed \cup {"handover"}
    PROVE  UNCHANGED <<Lendable, Holder, closed>>
<1>1. InPlay' = InPlay
  BY DEF InPlay, Goto, TypeOK
<1>2. Lent' = Lent
  BY DEF Lent, Goto, TypeOK, Threads
<1>3. \A u \in InPlay \cup Lent : inst'[u] = inst[u]
  BY DEF InPlay, Lent, TypeOK, Threads
<1> QED
  BY <1>1, <1>2, <1>3, Stutters

LEMMA HeldIs == TypeInv => Lending!Held = {inst[w] : w \in Lent}
<1> SUFFICES ASSUME TypeInv PROVE Lending!Held = {inst[w] : w \in Lent}
  OBVIOUS
<1>1. \A w \in Lent : w \in Workers /\ inst[w] \in Instances /\ inst[w] # None
  BY InstancesAssumption DEF Lent, TypeInv, TypeOK, Shape, Threads
<1>2. \A w \in Workers : Holder[w] = IF w \in Lent THEN inst[w] ELSE None
  BY DEF Holder
<1> QED
  BY <1>1, <1>2 DEF Lending!Held

LEMMA NextLending ==
    TypeInv /\ Apart /\ ClosedOnce /\ [Next]_vars
        => [Lending!Next]_(Lending!vars)
<1> SUFFICES ASSUME TypeInv, Apart, ClosedOnce, [Next]_vars
             PROVE  Lending!Next \/ UNCHANGED <<Lendable, Holder, closed>>
  BY DEF Lending!vars
<1> DEFINE Stutter == UNCHANGED <<Lendable, Holder, closed>>
<1> USE DEF counters, slots, processes, threads
<1>a. TypeOK /\ Shape
  BY DEF TypeInv
<1>b. Borrowed = {"running", "finishing", "releasing"}
  BY DEF Borrowed
<1>c. \A t \in Threads : inst' = inst => inst' = [inst EXCEPT ![t] = inst[t]]
  BY <1>a DEF TypeOK
<1>d. Lending!Held = {inst[w] : w \in Lent}
  BY HeldIs
<1>1. ASSUME NEW t \in Threads,
             \/ PrewarmStop(t) \/ PrewarmNoModel(t) \/ PrewarmDefer(t)
             \/ CreateFails(t) \/ Unwind(t)
             \/ RunRefused(t) \/ RunOk(t) \/ RunFails(t) \/ FinishLogs(t)
      PROVE Stutter
  <2>1. PICK label : Goto(t, label) /\ UNCHANGED <<idle, closed, inst>>
            /\ \/ pc[t] \in Borrowed /\ label \in Borrowed
               \/ /\ pc[t] \notin Borrowed \cup {"handover"}
                  /\ label \notin Borrowed \cup {"handover"}
    BY <1>1, <1>b DEF PrewarmStop, PrewarmNoModel, PrewarmDefer, CreateFails, Unwind,
                      RunRefused, RunOk, RunFails, FinishLogs
  <2> QED
    BY <1>a, <1>c, <2>1, MoveStutters
<1>2. ASSUME NEW t \in Threads, Create(t) \/ DiscardOrphan(t) PROVE Stutter
  <2>1. PICK i : inst' = [inst EXCEPT ![t] = i]
    BY <1>2 DEF Create, DiscardOrphan
  <2>2. PICK label : Goto(t, label) /\ UNCHANGED <<idle, closed>>
               /\ pc[t] \notin Borrowed \cup {"handover"}
               /\ label \notin Borrowed \cup {"handover"}
    BY <1>2, <1>b DEF Create, DiscardOrphan
  <2> QED
    BY <1>a, <2>1, <2>2, MoveStutters
<1>3. ASSUME NEW t \in Threads,
             DisposeDiscard(t) \/ DisposeExit(t) \/ DisposeRecycle(t)
      PROVE Stutter
  <2>1. PICK i : inst' = [inst EXCEPT ![t] = i]
    BY <1>3, <1>c DEF DisposeDiscard, DisposeExit, DisposeRecycle
  <2>2. pc' = pc => Goto(t, pc[t])
    BY <1>a DEF Goto, TypeOK
  <2>3. PICK label : Goto(t, label) /\ UNCHANGED <<idle, closed>>
               /\ pc[t] \notin Borrowed \cup {"handover"}
               /\ label \notin Borrowed \cup {"handover"}
    BY <1>3, <1>b, <2>2 DEF DisposeDiscard, DisposeExit, DisposeRecycle, Disposing,
                            Continue, Resized
  <2> QED
    BY <1>a, <2>1, <2>3, MoveStutters
<1>4. ASSUME NEW t \in Threads, Reserve(t), pc[t] \in {"wait", "warm"} PROVE Stutter
  <2>1. Goto(t, "create") /\ UNCHANGED <<idle, closed, inst>>
    BY <1>4 DEF Reserve
  <2> QED
    BY <1>4, <1>a, <1>b, <1>c, <2>1, MoveStutters
<1>5. ASSUME NEW t \in Workers, AcquireNone(t) PROVE Stutter
  <2>1. Goto(t, "out") /\ pc[t] = "wait" /\ UNCHANGED <<idle, closed, inst>>
    BY <1>5 DEF AcquireNone
  <2> QED
    BY <1>a, <1>b, <1>c, <2>1, MoveStutters DEF Threads
<1>6. ASSUME \/ \E t \in Workers : MonitorTrip(t)
             \/ \E i \in Instances : MonitorKill(i)
             \/ UNCHANGED vars
      PROVE Stutter
  <2>1. UNCHANGED <<idle, closed, pc, inst>>
    BY <1>6 DEF MonitorTrip, MonitorKill, vars
  <2> QED
    BY <2>1, Stutters DEF InPlay, Lent
<1>7. ASSUME NEW t \in Threads, Register(t) PROVE Lending!Next \/ Stutter
  <2>1. CASE closed
    <3>1. Goto(t, "discard") /\ pc[t] = "register" /\ UNCHANGED <<idle, closed, inst>>
      BY <1>7, <2>1 DEF Register, StillOpen
    <3> QED
      BY <1>a, <1>b, <1>c, <3>1, MoveStutters
  <2>2. CASE ~closed
    <3>1. Goto(t, "handover") /\ pc[t] = "register" /\ UNCHANGED <<idle, closed, inst>>
      BY <1>7, <2>2 DEF Register, StillOpen
    <3>2. inst[t] \in Instances
      BY <1>a, <3>1 DEF Shape
    <3>3. InPlay' = InPlay \cup {t} /\ Lent' = Lent
      BY <1>a, <1>b, <3>1 DEF InPlay, Lent, Goto, TypeOK, Threads
    <3>4. Holder' = Holder
      BY <3>1, <3>3 DEF Holder
    <3>5. Lendable' = Lendable \cup {inst[t]}
      BY <2>2, <3>1, <3>3 DEF Lendable
    <3>6. inst[t] \notin Lendable \cup Lending!Held
      BY <1>b, <1>d, <2>2, <3>1 DEF Apart, Holding, Lendable, InPlay, Lent, Threads
    <3>7. Lending!Stock(inst[t])
      BY <2>2, <3>1, <3>4, <3>5, <3>6 DEF Lending!Stock
    <3> QED
      BY <3>2, <3>7 DEF Lending!Next
  <2> QED
    BY <2>1, <2>2
<1>8. ASSUME NEW t \in Threads, Handover(t) PROVE Lending!Next \/ Stutter
  <2>0. pc[t] = "handover" /\ inst[t] \in Instances /\ closed' = closed /\ t \notin Lent
    BY <1>8, <1>a, <1>b DEF Handover, Shape, Lent
  <2>1. CASE closed
    <3>1. /\ \A u \in Workers : u \in Lent' <=> u \in Lent
          /\ \A u \in Lent : inst'[u] = inst[u]
      BY <1>8, <1>a, <1>b, <2>0, <2>1
      DEF Handover, StillOpen, Goto, TypeOK, Lent, Threads
    <3>2. Holder' = Holder
      BY <3>1 DEF Holder
    <3> QED
      BY <2>0, <2>1, <3>2 DEF Lendable
  <2>2. CASE ~closed /\ t \in Workers
    <3>1. Goto(t, "running") /\ UNCHANGED <<idle, inst>>
      BY <1>8, <2>2 DEF Handover, StillOpen
    <3>2. InPlay' = InPlay /\ Lent' = Lent \cup {t}
      BY <1>a, <1>b, <2>0, <2>2, <3>1 DEF InPlay, Lent, Goto, TypeOK, Threads
    <3>3. Lendable' = Lendable
      BY <2>0, <3>1, <3>2 DEF Lendable
    <3>4. Holder' = [Holder EXCEPT ![t] = inst[t]] /\ Holder[t] = None
      BY <2>0, <2>2, <3>1, <3>2 DEF Holder
    <3>5. inst[t] \in Lendable \ Lending!Held
      BY <1>b, <1>d, <2>0, <2>2 DEF Apart, Holding, Lendable, InPlay, Lent, Threads
    <3>6. Lending!Borrow(t, inst[t])
      BY <2>0, <2>2, <3>3, <3>4, <3>5 DEF Lending!Borrow
    <3> QED
      BY <2>0, <2>2, <3>6 DEF Lending!Next
  <2>3. CASE ~closed /\ t \notin Workers
    <3>1. /\ Goto(t, "warm") /\ idle' = idle \cup {inst[t]}
          /\ inst' = [inst EXCEPT ![t] = None]
      BY <1>8, <2>3 DEF Handover, StillOpen
    <3>2. InPlay' = InPlay \ {t} /\ Lent' = Lent
      BY <1>a, <1>b, <2>0, <2>3, <3>1 DEF InPlay, Lent, Goto, TypeOK, Threads
    <3>3. \A u \in Threads \ {t} : inst'[u] = inst[u]
      BY <1>a, <3>1 DEF TypeOK
    <3>4. Holder' = Holder
      BY <2>3, <3>2, <3>3 DEF Holder, Lent, Threads
    <3>5. {inst[u] : u \in InPlay} = {inst[u] : u \in InPlay \ {t}} \cup {inst[t]}
      BY <2>0 DEF InPlay
    <3>6. {inst'[u] : u \in InPlay'} = {inst[u] : u \in InPlay \ {t}}
      BY <3>2, <3>3 DEF InPlay
    <3>7. Lendable' = Lendable
      BY <2>0, <2>3, <3>1, <3>5, <3>6 DEF Lendable
    <3> QED
      BY <2>0, <3>4, <3>7
  <2> QED
    BY <2>1, <2>2, <2>3
<1>9. ASSUME NEW t \in Workers, AcquireIdle(t) PROVE Lending!Next
  <2>1. PICK i \in idle : idle' = idle \ {i} /\ inst' = [inst EXCEPT ![t] = i]
    BY <1>9 DEF AcquireIdle
  <2>2. pc[t] = "wait" /\ ~closed /\ closed' = closed /\ Goto(t, "running")
    BY <1>9 DEF AcquireIdle
  <2>3. InPlay' = InPlay \cup {t} /\ Lent' = Lent \cup {t}
        /\ t \notin InPlay /\ t \notin Lent
    BY <1>a, <1>b, <2>2 DEF InPlay, Lent, Goto, TypeOK, Threads
  <2>4. inst'[t] = i /\ \A u \in Threads \ {t} : inst'[u] = inst[u]
    BY <1>a, <2>1 DEF TypeOK, Threads
  <2>5. Holder' = [Holder EXCEPT ![t] = i] /\ Holder[t] = None
    BY <2>3, <2>4 DEF Holder, Lent, Threads
  <2>6. {inst'[u] : u \in InPlay'} = {inst[u] : u \in InPlay} \cup {i}
    BY <2>3, <2>4 DEF InPlay
  <2>7. Lendable' = Lendable
    BY <2>1, <2>2, <2>6 DEF Lendable
  <2>8. i \in Lendable \ Lending!Held /\ i \in Instances
    BY <1>a, <1>b, <1>d, <2>1, <2>2
    DEF Apart, Holding, Lendable, Lent, Threads, TypeOK
  <2>9. Lending!Borrow(t, i)
    BY <2>2, <2>5, <2>7, <2>8 DEF Lending!Borrow
  <2> QED
    BY <2>8, <2>9 DEF Lending!Next
<1>10. ASSUME NEW t \in Threads, Release(t) PROVE Lending!Next
  <2>1. /\ pc[t] = "releasing" /\ closed' = closed
        /\ inst' = [inst EXCEPT ![t] = None]
        /\ \E label \in {"dropping", "out"} : Goto(t, label)
    BY <1>10 DEF Release
  <2>2. t \in Workers /\ t \in Lent /\ t \in InPlay
        /\ inst[t] \in Instances /\ inst[t] # None
    BY <1>a, <1>b, <2>1, InstancesAssumption DEF Apart, Shape, Lent, InPlay
  <2>3. InPlay' = InPlay \ {t} /\ Lent' = Lent \ {t}
    BY <1>a, <1>b, <2>1 DEF InPlay, Lent, Goto, TypeOK, Threads
  <2>4. \A u \in Threads \ {t} : inst'[u] = inst[u]
    BY <1>a, <2>1 DEF TypeOK
  <2>5. Holder' = [Holder EXCEPT ![t] = None] /\ Holder[t] = inst[t]
    BY <2>2, <2>3, <2>4 DEF Holder, Lent, Threads
  <2>6. {inst'[u] : u \in InPlay'} = {inst[u] : u \in InPlay \ {t}}
    BY <2>3, <2>4 DEF InPlay
  <2>7. {inst[u] : u \in InPlay} = {inst[u] : u \in InPlay \ {t}} \cup {inst[t]}
    BY <2>2
  <2>8. Lendable' \in {Lendable, Lendable \ {inst[t]}}
    <3>1. CASE closed
      BY <2>1, <3>1 DEF Lendable
    <3>2. CASE ~closed /\ idle' = idle \cup {inst[t]}
      BY <2>1, <2>6, <2>7, <3>2 DEF Lendable
    <3>3. CASE ~closed /\ idle' = idle
      <4>1. inst[t] \notin idle \cup {inst[u] : u \in InPlay \ {t}}
        BY <1>b, <2>1, <3>3 DEF Apart, Holding, InPlay
      <4> QED
        BY <2>1, <2>6, <2>7, <3>3, <4>1 DEF Lendable
    <3> QED
      BY <1>10, <3>1, <3>2, <3>3 DEF Release
  <2>9. Lending!Return(t)
    BY <2>1, <2>2, <2>5, <2>8 DEF Lending!Return
  <2> QED
    BY <2>2, <2>9 DEF Lending!Next
<1>11. ASSUME NEW t \in Threads, SetTarget(t) PROVE Lending!Next \/ Stutter
  <2>1. PICK n \in Targets : \E S \in Surplus(n) :
            /\ idle' = idle \ S
            /\ IF S = {} THEN \E next \in Resized(t) : Goto(t, next)
                         ELSE Goto(t, "resizing")
    BY <1>11 DEF SetTarget
  <2>2. PICK S \in Surplus(n) :
            /\ idle' = idle \ S
            /\ IF S = {} THEN \E next \in Resized(t) : Goto(t, next)
                         ELSE Goto(t, "resizing")
    BY <2>1
  <2>3. PICK label \in {"resizing", "wait", "warm", "out"} : Goto(t, label)
    BY <2>2 DEF Resized
  <2>4. pc[t] = "out" /\ UNCHANGED <<closed, inst>>
    BY <1>11 DEF SetTarget
  <2>5. InPlay' = InPlay /\ Lent' = Lent
    BY <1>a, <1>b, <2>3, <2>4 DEF InPlay, Lent, Goto, TypeOK, Threads
  <2>6. Holder' = Holder
    BY <2>4, <2>5 DEF Holder
  <2>7. CASE closed
    BY <2>4, <2>6, <2>7 DEF Lendable
  <2>8. CASE ~closed
    <3>1. S \subseteq idle /\ S \subseteq Instances
      BY <1>a DEF Surplus, TypeOK
    <3>2. S \cap {inst[u] : u \in InPlay} = {} /\ S \cap Lending!Held = {}
      BY <1>b, <1>d, <2>8, <3>1 DEF Apart, Holding, InPlay, Lent, Threads
    <3>3. S \subseteq Lendable \ Lending!Held /\ Lendable' = Lendable \ S
      BY <2>2, <2>4, <2>5, <2>8, <3>1, <3>2 DEF Lendable
    <3>4. Lending!Retire(S)
      BY <2>4, <2>6, <3>3 DEF Lending!Retire
    <3> QED
      BY <3>1, <3>4 DEF Lending!Next
  <2> QED
    BY <2>7, <2>8
<1>12. ASSUME Shutdown PROVE Lending!Next
  <2>1. ~closed /\ closed' = TRUE /\ pc[Closer] = "out" /\ inst' = inst
    BY <1>12 DEF Shutdown, ClosedOnce
  <2>2. PICK label \in {"closing", "done"} : Goto(Closer, label)
    BY <1>12 DEF Shutdown
  <2>3. Lent' = Lent
    BY <1>a, <1>b, <2>1, <2>2, ThreadsAssumption DEF Lent, Goto, TypeOK, Threads
  <2>4. Holder' = Holder
    BY <2>1, <2>3 DEF Holder
  <2>5. Lendable' = {}
    BY <2>1 DEF Lendable
  <2>6. Lending!Close
    BY <2>1, <2>4, <2>5 DEF Lending!Close
  <2> QED
    BY <2>6 DEF Lending!Next
<1>13. ASSUME Exit PROVE Lending!Next
  <2>1. closed /\ UNCHANGED <<idle, closed>> /\ \A t \in Threads : pc'[t] = "done"
    BY <1>13 DEF Exit
  <2>2. Lent' = {}
    BY <1>b, <2>1 DEF Lent, Threads
  <2>3. Holder' = [w \in Workers |-> None]
    BY <2>2 DEF Holder
  <2>4. Lendable' = Lendable
    BY <2>1 DEF Lendable
  <2> QED
    BY <2>1, <2>3, <2>4 DEF Lending!Perish, Lending!Next
<1> QED
  BY <1>1, <1>2, <1>3, <1>4, <1>5, <1>6, <1>7, <1>8, <1>9, <1>10, <1>11, <1>12, <1>13
  DEF Next, Step, PrewarmReserve, AcquireReserve, AcquireIdle

LEMMA InitLending == Init => Lending!Init
<1> SUFFICES ASSUME Init PROVE Lending!Init
  OBVIOUS
<1>1. \A t \in Threads : pc[t] = "out"
  BY DEF Init
<1>2. InPlay = {} /\ Lent = {} /\ idle = {} /\ closed = FALSE
  BY <1>1 DEF Init, InPlay, Lent, Borrowed, Threads
<1>3. Lendable = {} /\ Holder = [w \in Workers |-> None]
  BY <1>2 DEF Lendable, Holder
<1> QED
  BY <1>2, <1>3 DEF Lending!Init

LEMMA InitClosedOnce == Init => ClosedOnce
  BY DEF Init, ClosedOnce, Threads

\* The pool implements the abstract lending of instances.
THEOREM LendingHolds == Spec => LendingSpec
<1>1. TypeInv /\ Apart /\ ClosedOnce /\ [Next]_vars
        => [Lending!Next]_(Lending!vars)
  BY NextLending
<1> QED
  BY <1>1, InitTypeInv, NextTypeInv, InitAccounting, NextApart, InitClosedOnce,
     NextClosedOnce, InitLending, PTL DEF Spec, LendingSpec, Lending!Spec

\* What the abstract lending guarantees by itself.
LEMMA NextExclusive ==
    Lending!Exclusive /\ [Lending!Next]_(Lending!vars) => Lending!Exclusive'
<1> SUFFICES ASSUME Lending!Exclusive, [Lending!Next]_(Lending!vars)
             PROVE  Lending!Exclusive'
  OBVIOUS
<1>1. Holder \in [Workers -> {Holder[w] : w \in Workers}]
  BY DEF Holder
<1>2. ASSUME NEW w \in Workers, NEW i \in Instances, Lending!Borrow(w, i)
      PROVE  Lending!Exclusive'
  BY <1>1, <1>2 DEF Lending!Borrow, Lending!Held, Lending!Exclusive
<1>3. ASSUME NEW w \in Workers, Lending!Return(w) PROVE Lending!Exclusive'
  BY <1>1, <1>3 DEF Lending!Return, Lending!Exclusive
<1>5. ASSUME Lending!Perish PROVE Lending!Exclusive'
  BY <1>5 DEF Lending!Perish, Lending!Exclusive
<1>4. CASE Holder' = Holder
  BY <1>4 DEF Lending!Exclusive
<1> QED
  BY <1>2, <1>3, <1>4, <1>5
  DEF Lending!Next, Lending!vars, Lending!Stock, Lending!Retire, Lending!Close

\* No two worker threads ever hold the same instance, closing included: two
\* runs would drive the same Silver process and write the same directory.
THEOREM ExclusiveHolds == Spec => []Lending!Exclusive
<1>1. Lending!Init => Lending!Exclusive
  BY DEF Lending!Init, Lending!Exclusive
<1> QED
  BY <1>1, LendingHolds, NextExclusive, PTL DEF LendingSpec, Lending!Spec
=============================================================================
