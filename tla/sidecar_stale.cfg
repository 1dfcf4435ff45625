SPECIFICATION Spec
CONSTANTS
    a1 = a1
    a2 = a2
    Clients = {"cli", "front", "desktop"}
    Files = {"index", "book"}
    Index = "index"
    Contents = {"a", "b"}
    MaxAttempts = 2
    Others <- Everything
    MaxNumber = 1
    MaxEdits = 1
    MaxStarts = 2
    Tasks = {1, 2}
    Ports = {"p", "q"}
    MaxServers = 2
    MaxOps = 3
    MaxCrashes = 1
    Via = "cloud"
    Flows = {1}
    Polls = {1, 2}
    MaxCodes = 2
    MaxOpens = 2
    MaxBlips = 1
    Stores = {"settings", "rounds", "profiles", "cache"}
    Writers = {"a", "b", "c"}
    Process <- ProcessOf
    MaxChanges = 3
    MaxDeaths = 1
    Openers = {1, 2}
    Chunks = 2
    Lengths <- OwnSize
    MaxInodes = 4
    MaxReplaced = 1
    MaxDeletes = 1
    MaxCuts = 1
    ReadOnly = FALSE
    Workspaces = {"w1", "w2"}
    Kinds = {"profile"}
    Capacity = 1
    Calls = {1, 2}
    Refreshes = {1}
    MaxStreams = 3
    MaxEvents = 2
    MaxActs = 3
    MaxDrops = 1
    Ids = {1, 2}
    MaxLength = 7
    BlankBetween = FALSE
INVARIANTS SidecarsCurrent
CHECK_DEADLOCK FALSE
