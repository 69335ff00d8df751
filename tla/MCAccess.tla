------------------------------ MODULE MCAccess ------------------------------
(* A small instance of Access for TLC. *)
EXTENDS Access, TLC

CONSTANTS app, ios, web

Bound == [c \in {ios, web} |-> app]

\* The OAuth flow of two connectors, longer without an edit than with one, and an app that
\* posts jobs with its API key.
Flow == [ops |-> {"authorize", "exchange", "call"}, reqs |-> 4, rows |-> {app, ios, web},
         limits |-> {1}, edits |-> 0, window |-> 0]
Posts == [ops |-> {"post"}, reqs |-> 3, rows |-> {app},
          limits |-> {0, 1, 2, Unlimited}, edits |-> 2, window |-> 1]

Traffic == {Flow, [Flow EXCEPT !.reqs = 3, !.edits = 1], Posts}

Symmetry == Permutations(Requests)

=============================================================================
