\* Every upstream archive of up to three entries, and every payload of the instance.
SPECIFICATION Spec

CONSTANTS
    None = None
    MaxEntries = 3
    Upstreams <- MCUpstreams
    Payloads <- MCPayloads
    Listing <- MCListing
    Lower <- MCLower
    Required <- MCRequired
    MaxFiles = 5
    MaxManifest = 7

INVARIANTS
    TypeOK
    FetchedIsTheOne
    InstalledAsBuilt
    InstallableAsBuilt
