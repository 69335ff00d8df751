SPECIFICATION Spec
CONSTANTS
    job = job
    shadow = shadow
    Parent = job
    Shadows = {shadow}
    Evals = {e1, e2}
    Raters = {p1}
    Crates <- SomeCrates
    NoCrate = NoCrate
    EvalRequests <- SomeRequests
    RaterScores <- SomeScores
    Suites = {"golden", "property"}
    Tests = 8
    Unset = Unset
    Weights <- SeedWeights
    MinGap = 20000
    MaxFaults = 1
CHECK_DEADLOCK FALSE
INVARIANTS
    ScoresAreEarned
    FlaggedForCause
    BetterIsNotRejected
