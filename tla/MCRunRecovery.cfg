\* One worker, one request that cancels or deletes, and one fault.
CONSTANTS
    Workers = {w1}
    Requests = {r1}
    Kinds = {"cancel", "delete"}
    Restores = TRUE
    Limit = 1
    None = None
    MaxRuns = 2
    MaxFaults = 1
SPECIFICATION FairSpec
INVARIANT OneRecord
PROPERTY SealedIsFinalised
CHECK_DEADLOCK FALSE
