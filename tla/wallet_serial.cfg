CONSTANTS
    Sessions = {s1, s2}
    Events <- MCEvents
    Payout <- MCPayout
    HistoryCap = 1
    MaxU64 = 20
    MaxI64 = 20
    Procs = {p1, p2}
    Modes <- OneMode
    Cost <- OneCost
    InitialBalance = 2
    Openings = {1}
    Requests = {"authenticate", "prepare", "play", "end_round", "reset", "force"}
    Serial = TRUE
    Careful = TRUE
    Faults = FALSE
    MaxBets = 2
    MaxRestarts = 0
VIEW LiveState
SYMMETRY Symmetry
SPECIFICATION Spec
INVARIANTS PaidOnce 
PROPERTIES NoUnpaidRoundDropped KeepsLedger
CHECK_DEADLOCK FALSE
