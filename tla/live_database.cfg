SPECIFICATION Spec
CONSTANTS
    x1 = x1
    x2 = x2
    cron = cron
    menu = menu
    r1 = r1
    r2 = r2
    owner = owner
    Txs = {x1}
    Jobs = {cron, menu}
    Restores = {r1, r2}
    Admins = {owner}
    Keep = 1
    MaxMinute = 1
INVARIANTS
    TypeOK
    SentWhole
    LiveFileWhole
    AckedKept
    DatabaseInv
PROPERTIES
    PruneKeepsNewest
    ImplementsSnapshots
SYMMETRY Symmetry
