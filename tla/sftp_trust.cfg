SPECIFICATION LiveSpec
CONSTANTS
    k1 = k1
    k2 = k2
    Instances = {a, b}
    Restarting = {a}
    Jobs = {a, b}
    Keys = {k1, k2}
    NoKey = NoKey
    Owner <- MCOwner
    Rotation <- MCRotation
INVARIANT OneTrustedKey
PROPERTIES OnlyTrustedServersServe TrustFollowsConfirmation JobsEnd
CHECK_DEADLOCK FALSE
