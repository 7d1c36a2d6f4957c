SPECIFICATION Spec
CONSTANTS
    Apps = {a1, a2}
    Txns = {1}
    Releases = {0, 1}
    Base = 0
    None = None
    InstallKind = "payload"
    Polls = 2
    RenameFaults = 0
    Hasty = FALSE
    Faults = {"launch_fails"}
SYMMETRY Symmetry
INVARIANT RestingPayloadIsProven
CHECK_DEADLOCK FALSE
