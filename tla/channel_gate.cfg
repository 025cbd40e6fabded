SPECIFICATION Spec
CONSTANTS
    amir = amir
    sara = sara
    news = news
    shop = shop
    club = club
    h1 = h1
    h2 = h2
    Users = {amir}
    Channels = {shop, club}
    Troubled = {club}
    Private = {club}
    Resized = {shop}
    Targets = {0, 1, 2}
    RandomPerDay = 1
    MaxDay = 1
    MaxJoins = 2
    Handlers = {h1}
    Overlap = FALSE
INVARIANTS
    TypeOK
    CounterMatchesRows
    NewJoinsOnly
    NoticeMatchesOrder
    NoFreePass
    GateInv
PROPERTIES
    ImplementsAdvert
