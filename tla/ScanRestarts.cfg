\* One scan of two files, so that the runner may post the second one while the
\* first is marked; the watchdog's loop beside the telemetry's refresh, and two
\* restarts, upgrades or a deletion.
SPECIFICATION FairSpec
CONSTANTS
    Scans = {s1}
    Width = 2
    Loop = loop
    RunNow = {}
    Refreshers = {telemetry}
    BounceMin = 2
    MaxVersion = 2
    Faults = {"restart", "upgrade", "delete"}
    MaxFaults = 2
INVARIANTS
    DoneIsAnswered
PROPERTIES
    LostAreMarked
