SPECIFICATION PromisedFairSpec
CONSTANTS
    N = 3
    Forms = {"when_all", "when_success", "when_any"}
    Threads = {t1}
    Ctx <- CompoundCtx
    NoCtx = NoCtx
    Returned = {"value"}
INVARIANTS
    TypeOK
    FirstWins
    WhenAllReturns
    NothingLeftRunning
PROPERTIES
    PromiseKept
    DecidesEarly
    ReturnsAtLast
