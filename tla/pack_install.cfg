SPECIFICATION Spec
CONSTANTS
    a1 = a1
    a2 = a2
    core = core
    ffmpeg = ffmpeg
    Apps = {a1, a2}
    Releases <- MCReleases
    Needs <- MCNeeds
    Installs = 3
    None = None
    Gone = Gone
SYMMETRY Symmetry
INVARIANTS OnlyRacesRollBack ActiveIsWhole DependenciesActive
PROPERTIES HighWaterOnlyRises VersionsImmutable StartTakesUpPointers
