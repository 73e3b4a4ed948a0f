SPECIFICATION Spec
CONSTANTS
    Ctx = {c1, c2, c3}
    NoCtx = NoCtx
    Returned = {"value", "error"}
    Threads = {t1, t2}
    NoThread = NoThread
SYMMETRY Symmetry
INVARIANTS
    TypeOK
    ClimbedStaysOpen
    NoLockLeak
PROPERTIES
    ImplementsOpChain
