SPECIFICATION LoopSpec
CONSTANTS
    Origins = {o1, o2}
    Works = {w1}
    Loops = {l1, l2, l3}
    Threads <- AllThreads
    NoThread = NoThread
    Impls = {h1}
    AtOnce = {}
    NoImpl = NoImpl
    NoLoop = NoLoop
    NoFn = NoFn
    Joins = TRUE
    OwnHandlers = TRUE
    MaxDepth = 2
CHECK_DEADLOCK FALSE
INVARIANTS
    LoopTypeOK
    LoopOutlivesPosts
    Confined
    NoMapRace
PROPERTIES
    ResultArrives
    JoinReturns
