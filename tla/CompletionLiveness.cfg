\* Two ledger rows: of one file, with a webhook request that may be served,
\* delayed or lost, and of another, whose row may come while the request is on its
\* way; the library of the first may be removed.  A crash, a subgen restart, a
\* removed library or a resubmission.
SPECIFICATION FairSpec
CONSTANTS
    Paths = {f1, f2}
    Folders = {}
    Slugged = {f2}
    Kinds = {"episode"}
    Loop = loop
    RunNow = {}
    Handlers = {h1}
    Called = {f2}
    MinAge = 1
    SurfaceLag = 1
    PassSpan = 0
    Faults = {"crash", "restart", "resubmit", "library"}
    MaxFaults = 1
    MaxRows = 2
INVARIANTS
    OneOpenRow
PROPERTIES
    RowsClose
    EpisodesHeard
    HoldBackEnds
