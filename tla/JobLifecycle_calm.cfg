SPECIFICATION FairSpec
CONSTANTS
    Jobs = {j1, j2}
    Deletes = {d1}
    Worker = worker
    NoJob = none
    Requests <- MeteredRequests
    Budget <- HandledFaults
INVARIANTS
    NobodyIsStranded
PROPERTIES
    PendingSettles
CHECK_DEADLOCK FALSE
