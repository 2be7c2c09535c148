\* Two slots, pages of one draft; the cases are in the module.
CONSTANTS
    NDrafts = 2
    t1 = t1
    t2 = t2
    t3 = t3
    Threads = {t1, t2, t3}
    Slots = 2
    Page = 1
    Web = {w1}
    MaxFaults = 1
    MaxRetries = 1
    Scopes <- Cases
    None = None
SPECIFICATION FairSpec
INVARIANTS
    TypeOK
    SlotsAccounted
    ClaimFences
    ResultIsCurrent
PROPERTIES
    DecisionStands
    LiveAttemptKept
    GenerationEnds
CHECK_DEADLOCK FALSE
