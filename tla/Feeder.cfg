\* Two files and two rows, so that one of them may be asked for twice, and one
\* restart of either process, foreign request or change of the controls.
SPECIFICATION FairSpec
CONSTANTS
    Paths = {"p", "q"}
    Priorities = {0}
    OrphanGrace = 3
    Unit = 1
    Rounding = FALSE
    MaxJobs = 2
    PosBound = 4
    InflightGrace = 2
    SurfaceLag = 1
    TickSpan = 1
    MaxTarget = 2
    NoLimit = NoLimit
    Capacity = NoLimit
    MaxArena = 0
    Faults = {"subgen_restart", "subarr_restart", "foreign", "control"}
    MaxFaults = 1
INVARIANTS
    NoDoubleQueue
PROPERTIES
    PendingDrains
    SubmittedResolves
