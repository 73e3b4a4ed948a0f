SPECIFICATION Spec
CONSTANTS
    Threads = {t1, t2, t3}
    NoThread = NoThread
    Impls = {h1, h2}
    AtOnce = {t1}
    NoImpl = NoImpl
    OwnHandlers = TRUE
    MaxDepth = 3
SYMMETRY Symmetry
INVARIANTS
    TypeOK
    HandlerIsCurrent
    NoRelock
    OwnedInCall
