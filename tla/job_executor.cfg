CONSTANTS
    Jobs = {j1, j2}
    Concurrencies = {1, 2}
    NEngines = 1
    MaxTries = 0
    StoreMayFail = FALSE
    Plans <- PlansWithoutSecrets
    PostProcessing <- EitherWay
    RawCommands = FALSE
    OtherRows = {}
SPECIFICATION Spec
SYMMETRY Symmetry
INVARIANTS
    EntryIffTask
    PermitsConserved
    CompletedHasFile
    QueuedIsServed
PROPERTIES
    ImplementsLifecycle
