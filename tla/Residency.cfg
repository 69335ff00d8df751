SPECIFICATION ResidencyFairSpec
CONSTANTS
    gemma = gemma
    llama = llama
    coder = coder
    Resident = {gemma, llama}
    Others = {coder}
    Budget <- AllFaults
CHECK_DEADLOCK FALSE
INVARIANT ResidencyTypeOK
INVARIANT SuspensionIsOwned
INVARIANT TrainingHasRoom
PROPERTY ResidentsComeBack
