SPECIFICATION Spec
CONSTANTS
    Programs <- TestCases
    Vars = {"in", "out"}
    Values = {0, 1}
    Horizon = 16
    None = None
INVARIANT SuspendedNotPassed
CHECK_DEADLOCK FALSE
