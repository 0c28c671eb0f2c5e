SPECIFICATION PacedSpec
CONSTANTS
    Controller = {ui}
    Saver = {}
    Thread = {t1, t2}
    NoThread = NoThread
    NoHandle = NoHandle
    NumFilters = 2
    MaxFilters = 2
    Config = {all}
    Listing = {}
    Naming = {}
    List = {{h1}, {h2}}
    OtherList = {}
    InitFails = TRUE
    RecvFails = FALSE
INVARIANTS ReleasedAtRest
CHECK_DEADLOCK FALSE
