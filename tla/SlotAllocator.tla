--------------------------- MODULE SlotAllocator ---------------------------
(***************************************************************************)
(* app/runners/slots.py: the allocator of run-directory labels inst_<n>.   *)
(* Both calls run under the allocator's own lock, so each is one action,   *)
(* and the pool nests Give and Grab inside its own steps.                  *)
(***************************************************************************)
EXTENDS Naturals

VARIABLES
    free,   \* _free, the released numbers (a heap in the code, a set here)
    high    \* _high, the highest number handed out so far

Init ==
    /\ free = {}
    /\ high = 0

\* Mutant: the smallest released number is read but not taken off the heap.
GrabPeeks(n) ==
    \/ n \in free /\ (\A m \in free : n <= m) /\ UNCHANGED <<free, high>>
    \/ free = {} /\ n = high + 1 /\ high' = n /\ UNCHANGED free

\* acquire() returns n: the smallest released number, else a new one.
Grab(n) ==
    \/ /\ n \in free
       /\ \A m \in free : n <= m
       /\ free' = free \ {n}
       /\ UNCHANGED high
    \/ /\ free = {}
       /\ n = high + 1
       /\ high' = n
       /\ UNCHANGED free

\* release(n): numbers below 1 are ignored, and a number that is already
\* free stays in the heap once.
Give(n) ==
    /\ free' = IF n >= 1 THEN free \cup {n} ELSE free
    /\ UNCHANGED high
=============================================================================
