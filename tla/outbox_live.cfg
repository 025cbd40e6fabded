SPECIFICATION FairSpec
CONSTANTS
    amir = amir
    p1 = p1
    p2 = p2
    a1 = a1
    a2 = a2
    j1 = j1
    j2 = j2
    Users = {amir}
    Panels = {p1}
    Attempts = {a1, a2}
    Jobs = {j1}
    Vol = 1
    Limit = 0
    ConfigDays = 1
    MaxDay = 1
    MaxTries = 1
    ChunkSize = 1
    Faults = {"crash"}
    AdminOps = {}
    MaxCrashes = 1
PROPERTIES
    PendingResolved
    ExpiredRemoved
