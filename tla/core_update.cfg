SPECIFICATION LiveSpec
CONSTANTS
    Apps = {a1, a2, a3}
    Txns = {1, 2}
    Releases = {0, 1, 2}
    Base = 0
    None = None
    InstallKind = "payload"
    Polls = 2
    RenameFaults = 2
    Hasty = FALSE
    Faults = {}
INVARIANTS RestingPayloadIsProven LostPayloadIsRecorded OnlySkippedLaunchBlocks
PROPERTIES NoDowngrade ImplementsTrial VerdictIsLearnt
CHECK_DEADLOCK FALSE
