\* One job; people act as soon as they see it at a gate.
CONSTANTS
    f = f
    g = g
    Batches = {1}
    Targets = {f}
    Jobs <- One
    Threads = {t1, t2}
    Web = {w1}
    MaxRounds = 0
    Budgets <- Revision
    None = None
SPECIFICATION Spec
PROPERTY DecisionStands
CHECK_DEADLOCK FALSE
