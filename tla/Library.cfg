SPECIFICATION Spec
CONSTANTS
    e1 = e1
    e2 = e2
    e3 = e3
    j1 = j1
    wander = wander
    perform = perform
    file = file
    edited = edited
    Clients = {wander, perform}
    Shared = shared
    Contents = {file, edited}
    Editors = {e1, e2, e3}
    Jobs = {j1}
    SeedFiles <- Files
    SeedContent = file
    NoRow = none
SYMMETRY EditorSymmetry
CHECK_DEADLOCK FALSE
INVARIANT TypeOK
INVARIANT TraceIsExact
