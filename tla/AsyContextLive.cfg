SPECIFICATION LiveSpec
CONSTANTS
    Ctx = {1, 2, 3}
    NoCtx = NoCtx
    Returned = {"value"}
    Threads = {t1, t2}
    NoThread = NoThread
PROPERTIES
    EverythingSettles
    CallsReturn
CHECK_DEADLOCK FALSE
