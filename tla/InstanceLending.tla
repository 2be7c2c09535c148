-------------------------- MODULE InstanceLending --------------------------
(***************************************************************************)
(* What the pool of Silver instances promises the worker threads, with the *)
(* lock, the reservations, the labels and the processes left out: an       *)
(* instance in stock is lent to one worker at a time, an instance that     *)
(* left the stock is never lent, and nothing is lent after the pool was    *)
(* closed.  SilverPool implements this specification.                      *)
(***************************************************************************)
CONSTANTS Workers, Instances, None

VARIABLES
    stock,    \* instances that may be lent, or are lent and may come back
    holder,   \* the instance each worker has borrowed, or None
    shut      \* the pool was closed

vars == <<stock, holder, shut>>

Held == {holder[w] : w \in Workers} \ {None}

Init ==
    /\ stock = {}
    /\ holder = [w \in Workers |-> None]
    /\ shut = FALSE

\* A new instance comes into stock.
Stock(i) ==
    /\ ~shut
    /\ i \notin stock \cup Held
    /\ stock' = stock \cup {i}
    /\ UNCHANGED <<holder, shut>>

\* A worker borrows an instance nobody holds.
Borrow(w, i) ==
    /\ ~shut
    /\ holder[w] = None
    /\ i \in stock \ Held
    /\ holder' = [holder EXCEPT ![w] = i]
    /\ UNCHANGED <<stock, shut>>

\* A worker gives its instance back: it stays in stock, or it is retired.
Return(w) ==
    /\ holder[w] # None
    /\ holder' = [holder EXCEPT ![w] = None]
    /\ stock' \in {stock, stock \ {holder[w]}}
    /\ UNCHANGED shut

\* Instances nobody holds leave the stock.
Retire(S) ==
    /\ S \subseteq stock \ Held
    /\ stock' = stock \ S
    /\ UNCHANGED <<holder, shut>>

\* Closing empties the stock, borrowed instances included.
Close ==
    /\ ~shut
    /\ shut' = TRUE
    /\ stock' = {}
    /\ UNCHANGED holder

\* The borrowers end with their program, whatever they held.
Perish ==
    /\ shut
    /\ holder' = [w \in Workers |-> None]
    /\ UNCHANGED <<stock, shut>>

Next ==
    \/ \E i \in Instances : Stock(i)
    \/ \E w \in Workers, i \in Instances : Borrow(w, i)
    \/ \E w \in Workers : Return(w)
    \/ \E S \in SUBSET Instances : Retire(S)
    \/ Close \/ Perish

Spec == Init /\ [][Next]_vars

\* No instance is ever in the hands of two workers: two runs would drive the
\* same Silver process and write the same run directory.
Exclusive ==
    \A v, w \in Workers : v # w /\ holder[v] # None => holder[v] # holder[w]
=============================================================================
