SPECIFICATION Spec
CONSTANTS
    Programs <- TestCases
    Vars = {"in", "out"}
    Values = {0, 1}
    Horizon = 16
    None = None
INVARIANTS
    TypeOK
    VerdictIsEarned
    ParamsScoped
PROPERTY
    TestEnds
CHECK_DEADLOCK FALSE
