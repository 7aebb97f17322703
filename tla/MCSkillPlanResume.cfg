\* One request at a time on a universal plan where two nodes may ask at once.
SPECIFICATION FairSpec
CONSTANTS
    N = 3
    Deps <- ForkDeps
    AskNodes = {1, 2}
    WriteNodes = {}
    MaxCalls = 2
    ReadCalls <- Calls
    Universal = TRUE
    Owed <- ForkOwed
    Gives <- ForkGives
    Origin <- ForkOrigin
    Executor = executor
    Resumers = {r1}
    BatchLimit = 2
    RequiredNodes = {2, 3}
    ContractNodes = {2}
    MayFail = TRUE
    MayLoseModel = FALSE
    MayTimeOut = TRUE
    MayCrash = TRUE
    MayQuiesce = TRUE
    MayCancel = TRUE
INVARIANTS
    WaitingAnswerable
    CompletedBacked
    SchedulerNeverStuck
PROPERTIES
    OutcomeEarned
    RunsEnd
