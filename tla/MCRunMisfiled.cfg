\* One cancellation and one retest, no faults: whose outcome is sealed?
CONSTANTS
    Workers = {w1, w2}
    Requests = {r1}
    Kinds = {"cancel"}
    Restores = FALSE
    Limit = 2
    None = None
    MaxRuns = 2
    MaxFaults = 0
SPECIFICATION Spec
INVARIANT OwnVerdict
CHECK_DEADLOCK FALSE
