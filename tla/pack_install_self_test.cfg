SPECIFICATION Spec
CONSTANTS
    a1 = a1
    a2 = a2
    core = core
    ffmpeg = ffmpeg
    Apps = {a1}
    Releases <- MCReleases
    Needs <- MCNeeds
    Installs = 2
    None = None
    Gone = Gone
INVARIANT VersionsAsPublished
