SPECIFICATION FairSpec
CONSTANTS
    Instance = {i1, i2}
    Launcher = {k1, k2}
    MaxPosted = 1
    MaxLaunched = 2
    MaxAsked = 2
INVARIANTS TypeOK OneEngineOwner FlagMeant
PROPERTIES RequestShown
