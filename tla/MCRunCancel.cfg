\* A user cancels or deletes, or another task's error cascades, while two
\* workers may hold the task; the deleted task may be restored.
CONSTANTS
    Workers = {w1, w2}
    Requests = {r1}
    Kinds = {"cancel", "cascade", "delete"}
    Restores = TRUE
    Limit = 2
    None = None
    MaxRuns = 2
    MaxFaults = 1
SPECIFICATION Spec
SYMMETRY Symmetry
INVARIANTS
    SoleExecutor
    PassedIsSealed
CHECK_DEADLOCK FALSE
