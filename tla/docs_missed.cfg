CONSTANTS
    Apps = {a1, a2}
    Docs = {d1}
    Values = {v1}
    d1 = d1
    v1 = v1
    Imported <- NoneImported
    MaxCalls = 2
    MaxEdits = 1
    Flaky = {}
SYMMETRY Symmetry
SPECIFICATION Spec
INVARIANTS CopiesCurrent
CHECK_DEADLOCK FALSE
