SPECIFICATION FairSpec
CONSTANTS
    p1 = p1
    p2 = p2
    claude = claude
    gemma = gemma
    Parents = {p1, p2}
    Models = {claude, gemma}
    Cloud = {claude}
    Cap <- OneCall
    Targets <- BothClaude
    Fanouts <- OneFanout
    Worker = worker
    NoRow = none
    MaxFaults = 1
    MaxReplays = 1
CHECK_DEADLOCK FALSE
INVARIANT TypeOK
INVARIANT RunsOnce
INVARIANT OvershootWasOpen
PROPERTY ShadowsSettle
