----------------------------- MODULE MCShadows -----------------------------
(* A small instance of Shadows for TLC. *)
EXTENDS Shadows

CONSTANTS p1, p2, claude, gemma

OneCall  == [m \in Cloud |-> 1]
BothClaude == {<<p1, claude>>, <<p1, gemma>>, <<p2, claude>>}
OneFanout == {<<p2, gemma>>}

=============================================================================
