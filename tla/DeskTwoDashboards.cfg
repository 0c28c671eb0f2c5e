SPECIFICATION Spec
CONSTANTS
    Instance = {i1}
    Launcher = {k1, k2}
    MaxPosted = 1
    MaxLaunched = 1
    MaxAsked = 2
INVARIANTS OneDashboard
