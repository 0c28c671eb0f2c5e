SPECIFICATION Spec
CONSTANTS
    Controller = {ui, dash}
    Saver = {dash}
    Thread = {t1, t2}
    NoThread = NoThread
    NoHandle = NoHandle
    NumFilters = 2
    MaxFilters = 2
    Config = {all, listed}
    Listing = {listed}
    Naming = {}
    List = {{h1}, {h2}}
    OtherList = {}
    InitFails = FALSE
    RecvFails = FALSE
INVARIANTS SavedListInForce
CHECK_DEADLOCK FALSE
