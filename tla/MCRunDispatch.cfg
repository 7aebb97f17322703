\* Every ending, wait, hand-off and restart of two runs.
CONSTANTS
    p = p
    i = i
    t1 = t1
    t2 = t2
    none = none
    Runs = {p, i}
    Planned = {p}
    AsksInput = {i}
    Threads = {t1, t2}
    NoThread = none
    RunLimit = 1
    MaxCrashes = 1
SPECIFICATION Spec
INVARIANTS
    ExecutedOnce
    OneActiveRun
    EndingRecoverable
PROPERTIES
    DriverAlone
    KeepsDelivery
    PendingServed
    EndingDelivered
