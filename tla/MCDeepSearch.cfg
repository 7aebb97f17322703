\* One run with a clarification, an edit and a crash.
SPECIFICATION Spec
CONSTANTS
    t1 = t1
    t2 = t2
    n1 = n1
    n2 = n2
    c1 = c1
    noTask = noTask
    noNode = noNode
    Tasks = {t1, t2}
    Commands = {c1}
    Nodes = {n1, n2}
    NoTask = noTask
    NoNode = noNode
    MaxRequirement = 2
    MaxAttempts = 2
    StandardLimit = 4
    ReserveLimit = 3
    MaxCrashes = 1
SYMMETRY Interchangeable
INVARIANTS
    BudgetKept
    ReportEarned
PROPERTY
    EvidenceFrozen
CHECK_DEADLOCK FALSE
