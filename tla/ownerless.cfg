CONSTANTS
    Subs = {s1, s2}
    MaxSeats = 2
    MaxUnits = 1
    MaxEvents = 3
    Horizon = 1
    GraceDays = 1
    Period = 1
    Overrides <- Comp
    Users = {ann, bob, cyd}
    Creator = ann
    Third = cyd
    Reqs = {r1, r2}
    MaxInvites = 2
    InviteKinds <- Once
    AskedRoles <- AllRoles
    MaxPool = 3
    Emails = {ann, bob}
    Founder = ann
    Identities = {"gh"}
    Codes = {"c1"}
    Calls = {r1, r2}
    MaxMails = 2
    MaxTokens = 3
    MaxSessions = 2
    MaxFailures = 1
    Workspaces = {"w1", "w2"}
    Names = {"d1", "d_1", "play"}
    Malformed = {"d_1"}
    Platform = {"play"}
    Lookups = {r1, r2}
    Setters = {ann, bob}
    Links = {1, 2, 3}
    Visitors = {v1, v2, v3}
    Passer = v3
    Callers = {1, 2}
    Orders <- BothOrders
    Patches <- Changes
    Plans = {"free", "paid"}
    Quota <- TwoPlans
    Entries = {1, 2}
    FreeDays = 1
    LastDay = 1
    MaxRev = 2
    Cap = 1
    MaxNew = 1
    MaxNotes = 1
    Looked = {"teams"}
SPECIFICATION ServerSpec
INVARIANT KeepsOwner
CHECK_DEADLOCK FALSE
