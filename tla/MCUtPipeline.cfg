\* Two functions, queued together or one after the other.
CONSTANTS
    f = f
    g = g
    Batches = {1, 2}
    Targets = {f, g}
    Jobs <- Some
    Threads = {t1, t2}
    Web = {w1}
    MaxRounds = 1
    Budgets <- OneOfEach
    None = None
SPECIFICATION FairSpec
INVARIANTS
    TypeOK
    ReviewedOnEvidence
    SoleDriver
    ClosedBatchGenerated
PROPERTY ActiveEnds
CHECK_DEADLOCK FALSE
