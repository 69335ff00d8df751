SPECIFICATION Spec
CONSTANTS
    Jobs = {j1, j2}
    Deletes = {d1}
    Worker = worker
    NoJob = none
    Requests <- QueuedRequests
    Budget <- WorkerFaults
SYMMETRY JobSymmetry
INVARIANTS
    TypeOK
    AtMostOneStart
    UsageMatchesResults
PROPERTIES
    PulledNeverStarts
    ImplementsBoard
    LiveCancelReadPending
CHECK_DEADLOCK FALSE
