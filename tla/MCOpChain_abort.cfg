SPECIFICATION ChainSpec
CONSTANTS
    Ctx = {c1, c2, c3}
    NoCtx = NoCtx
    Returned = {"value"}
SYMMETRY Symmetry
PROPERTIES
    AbortPreventsInvocation
