----------------------------- MODULE MCLibrary -----------------------------
(* A small instance of Library for TLC. *)
EXTENDS Library, TLC

CONSTANTS e1, e2, e3, j1, wander, perform, file, edited

\* A default and an override for one of the two clients.
Files == {Shared, wander}

EditorSymmetry == Permutations(Editors)

=============================================================================
