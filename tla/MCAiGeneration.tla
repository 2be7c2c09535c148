--------------------------- MODULE MCAiGeneration ---------------------------
(***************************************************************************)
(* A small instance of AiGeneration for TLC.                               *)
(***************************************************************************)
EXTENDS AiGeneration

CONSTANTS t1, t2, t3

\* retries, faults: those used up, of the one there is of each.
Scope(drafts, handled, threads, retries, faults) ==
    [drafts |-> drafts, handled |-> handled, threads |-> threads,
     retries |-> retries, faults |-> faults]

\* One draft that people handle, a retry, a fault and two consumers; two drafts,
\* twice what a page of the scan holds, a fault and one consumer; one draft and
\* more consumers than slots.
Cases == {Scope({1}, {1}, {t1, t2}, 0, 0), Scope({1, 2}, {}, {t1}, 1, 0),
          Scope({1}, {}, {t1, t2, t3}, 1, 1)}
=============================================================================
