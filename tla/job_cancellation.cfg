CONSTANTS
    Jobs = {j1}
    Concurrencies = {1}
    NEngines = 1
    MaxTries = 0
    StoreMayFail = FALSE
    Plans <- PlansWithNothingToChoose
    PostProcessing = {FALSE}
    RawCommands = FALSE
    OtherRows = {}
SPECIFICATION Spec
INVARIANTS
    CancellationIsBounded
CHECK_DEADLOCK FALSE
