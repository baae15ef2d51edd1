\* Two lists of up to two files, so that the second expires the first, an
\* approval beside rejections, and a crash.
SPECIFICATION Spec
CONSTANTS
    Items = {i1, i2}
    Approvers = {a1}
    MaxPerRun = 2
    ExpireAfter = 1
    MaxWalks = 2
    MaxCrashes = 1
SYMMETRY Interchangeable
INVARIANTS
    StatusSettles
PROPERTIES
    ApprovedIsQueued
