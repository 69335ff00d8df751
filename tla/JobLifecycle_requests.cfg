SPECIFICATION Spec
CONSTANTS
    Jobs = {j1, j2}
    Deletes = {d1}
    Worker = worker
    NoJob = none
    Requests <- MixedRequests
    Budget <- RequestFaults
SYMMETRY JobSymmetry
INVARIANTS
    LeftForCause
PROPERTIES
    ImplementsBoard
CHECK_DEADLOCK FALSE
