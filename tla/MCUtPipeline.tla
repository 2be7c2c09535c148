---------------------------- MODULE MCUtPipeline ----------------------------
(***************************************************************************)
(* Small instances of UtPipeline for TLC.                                  *)
(***************************************************************************)
EXTENDS UtPipeline

CONSTANTS f, g

Bounds(jobs, plain, versions, acts, stops, faults) ==
    [jobs |-> jobs, plain |-> plain, versions |-> versions,
     acts |-> acts, stops |-> stops, faults |-> faults]

One == {<<1, f>>}
Together == {<<1, f>>, <<1, g>>}
Again == {<<1, f>>, <<2, f>>}
Some == Together \cup Again

\* One job in full, with two of an act, a stop and a fault, or two faults; two
\* plain jobs, of one batch or of one function queued again, and a fault.
OneOfEach ==
    {Bounds(One, {}, 3, 1, 1, 0), Bounds(One, {}, 2, 1, 0, 1),
     Bounds(One, {}, 3, 0, 1, 1), Bounds(One, {}, 3, 0, 0, 2),
     Bounds(Together, Together, 1, 0, 1, 1), Bounds(Again, Again, 1, 0, 0, 1)}

\* One job, revised once.
Revision == {Bounds(One, {}, 3, 1, 0, 0)}
=============================================================================
