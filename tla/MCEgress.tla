------------------------------ MODULE MCEgress ------------------------------
(* Small instances of Egress for TLC. *)
EXTENDS Egress, TLC

CONSTANTS gemma, llama, claude, nova    \* the models

Local     == {gemma, llama}
Anthropic == {claude}
Bedrock   == {nova}
ResidentModels == {gemma}

ARule(s, p, f, sh) == [floor |-> s, preferred |-> p, fallback |-> f, shadows |-> sh]

\* A cloud rule with a local fallback, a local rule with a cloud fallback, and one that
\* raises the floor.
SomeRules ==
    {ARule("public", claude, llama, {nova, gemma}),
     ARule("internal", llama, claude, {claude}),
     ARule("confidential", gemma, nova, {claude, llama})}

Http(s, m, async, F, jm) ==
    [via |-> "http", asked |-> s, model |-> m, async |-> async, fanout |-> F, judge |-> jm]
Mcp(s, jm) ==
    [via |-> "mcp", asked |-> s, model |-> NoModel, async |-> FALSE, fanout |-> {},
     judge |-> jm]

\* Inline and queued requests of every level, an explicit model, a fan-out, and judges.
SomeRequests ==
    {Http("unset", NoModel, TRUE, {}, "no"), Http("confidential", NoModel, FALSE, {}, "no"),
     Http("public", nova, TRUE, {}, "no"), Http("internal", NoModel, FALSE, {claude, gemma}, "no"),
     Http("unset", NoModel, FALSE, {}, "panel"),
     Mcp("unset", "no"), Mcp("internal", "pointwise")}

Symmetry == Permutations(Jobs)

=============================================================================
