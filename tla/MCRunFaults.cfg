\* Nobody cancels: two workers, two attempts, one licence, two faults.
CONSTANTS
    Workers = {w1, w2}
    Requests = {}
    Kinds = {}
    Restores = FALSE
    Limit = 1
    None = None
    MaxRuns = 2
    MaxFaults = 2
SPECIFICATION FairSpec
INVARIANTS
    TypeOK
    LicencesAccounted
    RowAgreesWithSeal
PROPERTIES
    FinalStands
    RunningEnds
    QueuedIsServed
CHECK_DEADLOCK FALSE
