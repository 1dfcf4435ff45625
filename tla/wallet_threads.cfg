CONSTANTS
    Sessions = {s1, s2}
    Events <- OneEvent
    Payout <- OnePayout
    HistoryCap = 1
    MaxU64 = 1
    MaxI64 = 1
    Procs = {p1, p2}
    Modes <- OneMode
    Cost <- OneCost
    InitialBalance = 1
    Openings = {1}
    Requests = {"authenticate", "play", "end_round"}
    Serial = FALSE
    Careful = FALSE
    Faults = TRUE
    MaxBets = 1
    MaxRestarts = 1
VIEW LiveState
SYMMETRY Symmetry
SPECIFICATION Spec
INVARIANTS TypeOK BetIdsDistinct
CHECK_DEADLOCK FALSE
