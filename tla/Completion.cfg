\* A file and a folder in two ledger rows, the watcher's loop and a tick asked
\* for on demand beside it, a crash or a subgen restart.  A verdict waits longer
\* (3) than a submission takes to be listed (1) plus the time a pass works on
\* one answer (1).
SPECIFICATION Spec
CONSTANTS
    Paths = {f1, d1}
    Folders = {d1}
    Slugged = {f1}
    Kinds = {"unknown"}
    Loop = loop
    RunNow = {now}
    Handlers = {}
    Called = {}
    MinAge = 3
    SurfaceLag = 1
    PassSpan = 1
    Faults = {"crash", "restart", "library"}
    MaxFaults = 1
    MaxRows = 2
PROPERTIES
    VerdictKept
    NotHeldWhileUnderWay
