SPECIFICATION Spec
CONSTANTS
    amir = amir
    sara = sara
    berlin = berlin
    t1 = t1
    t2 = t2
    Users = {amir, sara}
    Taps = {t1, t2}
    Panels = {berlin}
    LimitMB = 3
    BaseMB = 2
    PerReferralMB = 1
    MaxDailyMB = 2
    Grants = {0, 1}
    MaxCredits = 2
    MaxErased = 1
    MaxDay = 1
    MaxRestarts = 2
    Scenes = {{"invite", "delete"}, {"overlap", "grant"}, {"overlap", "delete"}, {"overlap", "watch"}}
INVARIANTS
    ReportSummarisesDay
SYMMETRY Symmetry
