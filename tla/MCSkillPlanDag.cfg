\* Four nodes, no approvals: scheduling, retries, deadline, cancellation, crash.
SPECIFICATION FairSpec
CONSTANTS
    N = 4
    Deps <- JoinDeps
    AskNodes = {}
    WriteNodes = {}
    MaxCalls = 1
    ReadCalls = {}
    Universal = FALSE
    Owed <- NothingOwed
    Gives <- NothingGiven
    Origin <- NothingGiven
    Executor = executor
    Resumers = {}
    BatchLimit = 2
    RequiredNodes = {1, 3}
    ContractNodes = {3}
    MayFail = TRUE
    MayLoseModel = TRUE
    MayTimeOut = TRUE
    MayCrash = TRUE
    MayQuiesce = TRUE
    MayCancel = TRUE
INVARIANTS
    PlanRunAgree
    DependencyOrder
PROPERTIES
    RunsEnd
