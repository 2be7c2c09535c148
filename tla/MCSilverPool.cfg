\* One worker, the reconciler with its pre-warming, and the exit handler; a
\* limit of 0 or 1; one disposal may fail for good.  Liveness, so without symmetry.
CONSTANTS
    Workers = {w1}
    Reconcilers = {r1}
    Closer = main
    Instances = {i1, i2}
    None = None
    Targets = {0, 1}
    MaxStray = 1
SPECIFICATION FairSpec
INVARIANTS
    TypeOK
    Accounting
    UniqueLabels
    NoOrphan
    WithinLicence
PROPERTIES
    LendingSpec
    ShutdownEndsProcesses
CHECK_DEADLOCK FALSE
