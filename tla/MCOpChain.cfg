SPECIFICATION ChainSpec
CONSTANTS
    Ctx = {c1, c2, c3, c4}
    NoCtx = NoCtx
    Returned = {"value", "error"}
SYMMETRY Symmetry
INVARIANTS
    ChainTypeOK
    DeliveredOnce
    ResultDelivered
    AbortSilences
    ParentFirst
