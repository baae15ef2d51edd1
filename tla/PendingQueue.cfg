\* Three files, two buckets, positions on a grid of halves.
SPECIFICATION QueueSpec
CONSTANTS
    p1 = p1
    p2 = p2
    p3 = p3
    Paths = {p1, p2, p3}
    Priorities = {0, 1}
    OrphanGrace = 1
    Unit = 2
    Rounding = FALSE
    MaxJobs = 3
    PosBound = 4
SYMMETRY PathsAlike
INVARIANTS
    OneActiveRowPerPath
    DistinctPositions
PROPERTIES
    ImplementsOrderedQueue
