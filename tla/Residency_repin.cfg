SPECIFICATION ResidencyFairSpec
CONSTANTS
    gemma = gemma
    llama = llama
    coder = coder
    Resident = {gemma, llama}
    Others = {coder}
    Budget <- OneEviction
CHECK_DEADLOCK FALSE
PROPERTY NotRepinned
