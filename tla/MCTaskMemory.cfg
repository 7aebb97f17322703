\* Commands on two tasks and three memories.
SPECIFICATION Spec
CONSTANTS
    t1 = t1
    t2 = t2
    r1 = r1
    r2 = r2
    q1 = q1
    idle = idle
    noTask = noTask
    Tasks = {t1, t2}
    Runs = {r1, r2}
    Requests = {q1}
    Idle = idle
    NoTask = noTask
    Budgets <- Mixes
    Delivered <- AcceptedDelivery
    MaxMemories = 3
INVARIANTS
    DeliveryReviewed
    GraphAcyclic
    DecisionsOpen
    OneCurrent
    CitationsTrue
CHECK_DEADLOCK FALSE
