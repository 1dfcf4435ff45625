CONSTANTS
    Sessions = {s1}
    Events <- MCEvents
    Payout <- MCPayout
    HistoryCap = 1
    MaxU64 = 6
    MaxI64 = 6
    Procs = {p1, p2}
    Modes <- MCModes
    Cost <- MCCost
    InitialBalance = 1
    Openings = {1}
    Requests = {"authenticate", "play", "end_round"}
    Serial = TRUE
    Careful = FALSE
    Faults = FALSE
    MaxBets = 2
    MaxRestarts = 0
SYMMETRY Symmetry
SPECIFICATION Spec
INVARIANT PaidOnce
CHECK_DEADLOCK FALSE
