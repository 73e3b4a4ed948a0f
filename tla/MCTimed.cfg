SPECIFICATION TimedSpec
CONSTANTS
    N = 2
    Forms = {"when_any"}
    Threads = {t1}
    Ctx <- TimedCtx
    NoCtx = NoCtx
    Returned = {"value", "error"}
INVARIANTS
    TimedTypeOK
    OutcomeJustified
    NothingLeftWaiting
PROPERTIES
    TimedReturns
    StoppedInTime
