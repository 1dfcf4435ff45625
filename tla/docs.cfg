CONSTANTS
    Apps = {a1, a2}
    Docs = {d1, d2}
    Values = {v1, v2}
    d1 = d1
    v1 = v1
    Imported <- OneImported
    MaxCalls = 3
    MaxEdits = 1
    Flaky = {a1, a2}
SPECIFICATION Spec
INVARIANTS AppsSound
PROPERTIES CompareAndSwap KeepsVersions RemovalsLast StaleCopyNeverWins
CHECK_DEADLOCK FALSE
