SPECIFICATION Spec
CONSTANTS
    N = 2
    Deps <- ChainDeps
    AskNodes = {1}
    WriteNodes = {1}
    MaxCalls = 2
    ReadCalls = {}
    Universal = FALSE
    Owed <- NothingOwed
    Gives <- NothingGiven
    Origin <- NothingGiven
    Executor = executor
    Resumers = {r1}
    BatchLimit = 2
    RequiredNodes = {2}
    ContractNodes = {2}
    MayFail = TRUE
    MayLoseModel = FALSE
    MayTimeOut = TRUE
    MayCrash = TRUE
    MayQuiesce = TRUE
    MayCancel = TRUE
INVARIANT
    CancelledHasNoOpenApproval
