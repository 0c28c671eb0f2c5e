SPECIFICATION FairPacedSpec
CONSTANTS
    Controller = {ui, dash}
    Saver = {dash}
    Thread = {t1, t2}
    NoThread = NoThread
    NoHandle = NoHandle
    NumFilters = 2
    MaxFilters = 2
    Config = {all, listed, allDefault, listedDefault}
    Listing = {listed, listedDefault}
    Naming = {all, listed}
    List = {{h1}, {h2}}
    OtherList = {h3}
    InitFails = TRUE
    RecvFails = TRUE
INVARIANTS TypeOK NoDoubleClose NoLeak ReleasedAfterRun StatusTruthful SavedTakesEffect StopHeeded
PROPERTIES StopReturns ImplementsSwitch
