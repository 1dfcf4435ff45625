CONSTANTS
    Tasks = {t1, t2}
    Dirs = {d1, d2}
    Parts = {"books", "index"}
    Budget = 2
    MaxRequests = 4
    MaxPushes = 1
    MaxCrashes = 1
    Loaders = {t1, t2}
    Modes = {"base", "bonus", "other", "guest"}
    Files = {"books", "large", "guest"}
    Tenants = {"x", "y"}
    FileOf <- Published
    TenantOf <- Hosted
    Bytes <- Sizes
    MaxFiles = 2
    MaxBytes = 3
    Cap <- TenantCaps
    MaxLoads = 4
SYMMETRY Symmetry
SPECIFICATION CachesSpec
INVARIANTS  BooksSound
PROPERTIES ServesRevision NeverUndone
CHECK_DEADLOCK FALSE
