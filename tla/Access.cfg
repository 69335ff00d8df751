SPECIFICATION Spec
CONSTANTS
    app = app
    ios = ios
    web = web
    Apps = {app}
    Connectors = {ios, web}
    AppOf <- Bound
    Requests = {r1, r2, r3, r4}
    Limits = {0, 1, 2, Unlimited}
    Unlimited = Unlimited
    Loads <- Traffic
    MaxEdits = 2
    MaxWindow = 1
SYMMETRY Symmetry
CHECK_DEADLOCK FALSE
INVARIANTS
    ApprovalIsOne
    WithdrawnStaysOut
    WindowHolds
    RefusedForCause
