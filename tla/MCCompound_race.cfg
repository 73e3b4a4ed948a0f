SPECIFICATION Spec
CONSTANTS
    N = 2
    Forms = {"when_any"}
    Threads = {t1, t2}
    Ctx <- CompoundCtx
    NoCtx = NoCtx
    Returned = {"value"}
INVARIANTS
    FirstWins
