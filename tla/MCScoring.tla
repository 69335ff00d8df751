------------------------------ MODULE MCScoring ------------------------------
(* Small instances of Scoring for TLC. *)
EXTENDS Scoring, TLC

CONSTANTS job, shadow

Pointwise(r, m) == [mode |-> "pointwise", target |-> r, against |-> NoRow, panel |-> {m},
                 quorum |-> 1, apply |-> TRUE]

Panel(r, n) == [mode |-> "panel", target |-> r, against |-> NoRow,
                       panel |-> Jurors, quorum |-> n, apply |-> TRUE]

Pairwise(r, s, apply) == [mode |-> "pairwise", target |-> r, against |-> s, panel |-> {},
                          quorum |-> 1, apply |-> apply]

SomeJudges ==
    {Pointwise(job, m) : m \in Jurors} \cup
    {Panel(shadow, 2), Pairwise(job, shadow, TRUE), Pairwise(shadow, job, FALSE)}

Symmetry == Permutations(Raters) \cup Permutations(Jurors)

=============================================================================
