\* One file in one list, an approval and a rejection.
SPECIFICATION Spec
CONSTANTS
    Items = {i1}
    Approvers = {a1}
    MaxPerRun = 1
    ExpireAfter = 1
    MaxWalks = 1
    MaxCrashes = 0
PROPERTIES
    DecisionsStand
