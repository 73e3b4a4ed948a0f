SPECIFICATION Spec
CONSTANTS
    N = 2
    Forms = {"when_all", "when_success", "when_any"}
    Threads = {t1, t2}
    Ctx <- CompoundCtx
    NoCtx = NoCtx
    Returned = {"value", "error"}
SYMMETRY Symmetry
INVARIANTS
    CollectsAll
    NothingLeftRunning
