\* The watchdog without scans, which nothing it does to the capabilities depends
\* on: a probe asked for on demand beside the loop's, the telemetry's refresh, and
\* up to four outages, upgrades and crashes of this process.
SPECIFICATION FairSpec
CONSTANTS
    Scans = {}
    Width = 1
    Loop = loop
    RunNow = {now}
    Refreshers = {telemetry}
    BounceMin = 2
    MaxVersion = 3
    Faults = {"restart", "upgrade", "blip", "crash"}
    MaxFaults = 4
PROPERTIES
    CapsFollow
