------------------------------- MODULE Routing -------------------------------
(***************************************************************************)
(* The routing engine: pure functions from a request, a rule and a client  *)
(* to a decision.  Sampling parameters and max_tokens pass through and are *)
(* left out.                                                               *)
(***************************************************************************)

CONSTANTS
    LocalModels,            \* served by Ollama
    AnthropicModels,        \* served by the Anthropic API
    BedrockModels,          \* served by AWS Bedrock
    NoModel,                \* None
    NoRule,                 \* no live rule for the task type
    DefaultModel,           \* settings.default_model
    DefaultSensitiveModel   \* settings.default_sensitive_model

Models == LocalModels \cup AnthropicModels \cup BedrockModels

ASSUME ModelsAssumption ==
    /\ LocalModels \cap (AnthropicModels \cup BedrockModels) = {}
    /\ NoModel \notin Models
    /\ {DefaultModel, DefaultSensitiveModel} \subseteq Models

Sensitivities == {"public", "internal", "confidential"}

\* A rule always names a fallback; it may equal the preferred model.
Rule == [floor     : Sensitivities,
         preferred : Models,
         fallback  : Models,
         shadows   : SUBSET Models]

ASSUME NoRuleAssumption == NoRule \notin Rule

\* model = NoModel stands for SensitivityViolation.
Decision == [model : Models \cup {NoModel}, fallback : Models \cup {NoModel},
             effective : Sensitivities]

-----------------------------------------------------------------------------

AtLeast(a, b) ==
    \/ a = "confidential"
    \/ a = "internal" /\ b # "confidential"
    \/ b = "public"

Stricter(a, b) == IF AtLeast(a, b) THEN a ELSE b

CloudProviders == {"anthropic", "bedrock"}

ProviderFor(m) ==
    IF m \in AnthropicModels THEN "anthropic"
    ELSE IF m \in BedrockModels THEN "bedrock" ELSE "ollama"

IsCloud(m) == ProviderFor(m) # "ollama"

\* Mutant: an internal job needs no opt-in.
PermittedAnyway(m, s, allow) == IsCloud(m) => s # "confidential"

\* The sensitivity gate on its own, as shadows, fan-out targets and jurors pass it.
Permitted(m, s, allow) ==
    IsCloud(m) => \/ s = "public"
                  \/ s = "internal" /\ allow

\* The gate of the engine: the provider must also be available.
IsAllowed(m, s, allow, available) ==
    /\ Permitted(m, s, allow)
    /\ IsCloud(m) => ProviderFor(m) \in available

Floor(rule) == IF rule = NoRule THEN "internal" ELSE rule.floor

PreferredModel(rule, effective) ==
    IF rule # NoRule THEN rule.preferred
    ELSE IF effective = "confidential" THEN DefaultSensitiveModel ELSE DefaultModel

FallbackModel(rule) == IF rule = NoRule THEN NoModel ELSE rule.fallback

\* An explicit model is taken or refused.  A rule's fallback takes the place of a
\* preferred model that is not allowed, and is kept as a fallback only if it is allowed
\* and another model.
Decide(asked, wanted, allow, rule, available) ==
    LET effective == Stricter(asked, Floor(rule))
        ok(m) == m # NoModel /\ IsAllowed(m, effective, allow, available)
        p == PreferredModel(rule, effective)
        f == FallbackModel(rule)
        decision(m, g) == [model |-> m, fallback |-> g, effective |-> effective]
    IN  IF wanted # NoModel THEN decision(IF ok(wanted) THEN wanted ELSE NoModel, NoModel)
        ELSE IF ok(p) THEN decision(p, IF ok(f) /\ f # p THEN f ELSE NoModel)
        ELSE decision(IF ok(f) THEN f ELSE NoModel, NoModel)

\* StaticFailureHandler: the fallback is tried if its provider is registered.
FallbackTarget(d, registered) ==
    IF d.fallback # NoModel /\ ProviderFor(d.fallback) \in registered /\ d.fallback # d.model
    THEN d.fallback ELSE NoModel

\* Whether a judge that resolved to `effective` may read a target of sensitivity s.
JudgeMayRead(effective, s) == Stricter(s, effective) = effective

=============================================================================
