SPECIFICATION Spec
CONSTANTS
    job = job
    shadow = shadow
    Jobs = {job}
    Shadows = {shadow}
    Raters = {p1, p2}
    Judges = {j1}
    JudgeRequests <- SomeJudges
    Jurors = {m1, m2, m3}
    MaxScore = 3
    FirstLink = first
    NoLink = NoLink
    NoRow = NoRow
    MaxFaults = 1
SYMMETRY Symmetry
CHECK_DEADLOCK FALSE
INVARIANTS
    OneScorePerLink
    RedeemedIsSpent
    QuorumBehindScore
    OutlierIsBounded
    VerdictsAreWhole
    PairsAreVerdicts
