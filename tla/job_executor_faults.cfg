CONSTANTS
    Jobs = {j1}
    Concurrencies = {1}
    NEngines = 2
    MaxTries = 1
    StoreMayFail = TRUE
    Plans <- AnyPlan
    PostProcessing <- EitherWay
    RawCommands = TRUE
    OtherRows <- RowsOfAnother
SPECIFICATION FairSpec
INVARIANTS
    NoPhantomEnd
    ActiveHasTask
    LeaseCoversEngine
    SecretsNotRetained
PROPERTIES
    EndIsFinal
    TaskEnds
