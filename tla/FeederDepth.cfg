\* Three rows, one restart of subgen or change of the controls.
SPECIFICATION SettingsSpec
CONSTANTS
    Paths = {p, q, r}
    Priorities = {0}
    OrphanGrace = 4
    Unit = 1
    Rounding = FALSE
    MaxJobs = 3
    PosBound = 4
    InflightGrace = 4
    SurfaceLag = 1
    TickSpan = 1
    MaxTarget = 2
    NoLimit = NoLimit
    Capacity = NoLimit
    MaxArena = 0
    Faults = {"subgen_restart", "control", "remove_held", "remove_submitted"}
    MaxFaults = 1
SYMMETRY PathSymmetry
INVARIANTS
    DepthIsKept
PROPERTIES
    QueueSpec
    PendingNotLost
