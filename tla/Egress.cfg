SPECIFICATION Spec
CONSTANTS
    gemma = gemma
    llama = llama
    claude = claude
    nova = nova
    LocalModels <- Local
    AnthropicModels <- Anthropic
    BedrockModels <- Bedrock
    NoModel = NoModel
    NoRule = NoRule
    DefaultModel = llama
    DefaultSensitiveModel = llama
    Jobs = {j1, j2}
    Resident <- ResidentModels
    GlobalAnthropic = TRUE
    Rules <- SomeRules
    Requests <- SomeRequests
    MaxEdits = 1
SYMMETRY Symmetry
CHECK_DEADLOCK FALSE
INVARIANT TypeOK
INVARIANT ConfidentialStaysLocal
INVARIANT InternalNeedsOptIn
