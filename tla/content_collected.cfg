CONSTANTS
    Clients = {p1, p2}
    Hashes = {h1, h2}
    Manifests <- AllManifests
    Links = {l1}
    Kinds = {"put", "push", "delete_revision"}
    Keep = 0
    Quota = 2
    MaxCalls = 6
    Reqs = {p1, p2}
    Mounts = {"workbench", "share"}
    RevNumbers = {1, 2}
    MaxRevs = 2
    MaxFronts = 1
    MaxLeaves = 1
    MaxCrashes = 1
    Hours = 1
    Looked = {"store"}
SYMMETRY Symmetry
SPECIFICATION ContentSpec
INVARIANTS ContentComplete
CHECK_DEADLOCK FALSE
