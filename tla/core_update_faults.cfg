SPECIFICATION Spec
CONSTANTS
    Apps = {a1, a2, a3}
    Txns = {1}
    Releases = {0, 1}
    Base = 0
    None = None
    InstallKind = "pointer"
    Polls = 2
    RenameFaults = 1
    Hasty = TRUE
    Faults = {"app_dies", "helper_dies", "launch_fails", "store_fails"}
SYMMETRY Symmetry
INVARIANTS BlockedStartsAreKnown UnprovenPayloadsAreKnown
