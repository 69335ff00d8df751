----------------------------- MODULE MCCodeEval -----------------------------
(* A small instance of CodeEval for TLC. *)
EXTENDS CodeEval

CONSTANTS job, shadow

Serde == [op |-> "caret", major |-> 1, minor |-> 0, known |-> TRUE, published |-> {<<1, 1>>}]

Good == [deps |-> {Serde}, builds |-> TRUE, passed |-> [s \in Suites |-> Tests], own |-> "passing",
         killed |-> 2, missed |-> 0, unsafe |-> FALSE, panics |-> FALSE, drifted |-> FALSE,
         lints |-> TRUE]

BareZero == [op |-> "caret", major |-> 0, minor |-> Unset, known |-> TRUE, published |-> {<<0, 1>>}]
TooNew   == [op |-> "tilde", major |-> 0, minor |-> 1, known |-> TRUE, published |-> {<<0, 0>>}]

SomeCrates ==
    {Good,
     [Good EXCEPT !.builds = FALSE, !.drifted = TRUE, !.deps = {[Serde EXCEPT !.known = FALSE]}],
     [Good EXCEPT !.passed = [s \in Suites |-> 0], !.own = "failing", !.deps = {Serde, BareZero}],
     [Good EXCEPT !.passed = [s \in Suites |-> 1], !.killed = 0, !.missed = 2, !.panics = TRUE],
     [Good EXCEPT !.killed = 1, !.missed = 1, !.lints = FALSE, !.deps = {Serde, TooNew}],
     [Good EXCEPT !.killed = 0]}

Full(r) == [target |-> r, gate |-> TRUE, suites |-> Suites, deps |-> TRUE, mutants |-> TRUE,
            structural |-> TRUE, apply |-> TRUE]

SomeRequests ==
    UNION {{Full(r),
            [Full(r) EXCEPT !.gate = FALSE, !.suites = {}, !.deps = FALSE],
            [Full(r) EXCEPT !.mutants = FALSE, !.structural = FALSE, !.apply = (r = Parent)]} :
              r \in Rows}

\* A judge who calls a dimension of its own by the name of a suite.
SomeScores == {[d \in {"golden", "style"} |-> 1]}

SeedWeights == [compile |-> 3, golden |-> 3, property |-> 2,
                deps |-> 1, mutation |-> 1, structural |-> 1]

ASSUME SeededWeightsFit == WeightsFit

=============================================================================
