SPECIFICATION ChainLiveSpec
CONSTANTS
    Ctx = {1, 2, 3, 4}
    NoCtx = NoCtx
    Returned = {"value"}
PROPERTIES
    EverythingSettles
