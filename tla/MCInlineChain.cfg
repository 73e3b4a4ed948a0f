SPECIFICATION InlineSpec
CONSTANTS
    Ctx = {c1, c2, c3, c4}
    NoCtx = NoCtx
    Returned = {"error"}
    Reentrant = {}
    MaxDepth = 4
SYMMETRY Symmetry
INVARIANTS
    InlineTypeOK
    DeliveredOnce
    DeliversOneAtATime
PROPERTIES
    InlineImplementsOpChain
