CONSTANTS
    Clients = {p1, p2}
    Hashes = {h1, h2, h3}
    Manifests <- AllManifests
    Links = {l1}
    Kinds = {"put", "push", "bundle", "delete_revision", "delete_bundle", "share"}
    Keep = 1
    Quota = 2
    MaxCalls = 6
    Reqs = {p1, p2}
    Mounts = {"workbench", "share"}
    RevNumbers = {1, 2}
    MaxRevs = 2
    MaxFronts = 1
    MaxLeaves = 1
    MaxCrashes = 1
    Hours = 1
    Looked = {"store", "doors", "mounts"}
SYMMETRY Symmetry
SPECIFICATION ContentSpec
INVARIANTS Capped PinsResolve BytesBehindRows ContentKept HostsServeRight 
PROPERTIES PushesInOrder
CHECK_DEADLOCK FALSE
