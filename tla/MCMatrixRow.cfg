\* Two rows of one case, a second one created, imported or deleted on the way;
\* three requests in all, two of them at a time.  Sessions are alike.
SPECIFICATION Spec
CONSTANTS
    Rows = {1, 2}
    Cases = {c1}
    Sessions = {s1, s2}
    Reviewed = {"Pass", "Untestable"}
    Stamps = {"run"}
    MaxSync = 1
    MaxRequests = 3
    None = None
SYMMETRY SessionsAlike
INVARIANTS
    TypeOK
    SignOffsStand
PROPERTIES
    SeenBeforeWritten
CHECK_DEADLOCK FALSE
