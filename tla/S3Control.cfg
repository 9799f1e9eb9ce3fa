CONSTANTS
    Commands = {c1, c2}
    Nobody = nobody
    Keys = {pending}
    Payloads = {p}
    MaxIncarnations = 2
    MaxRevision = 1
    ReleaseAttempts = 2
SPECIFICATION FairSpec
INVARIANTS
    GuardMeansOwned
    NoStrayPut
    CheckedStaysCurrent
PROPERTIES
    VersionsNeverRecur
    UncertainKeepsOwner
    RetainedIsReleased
CHECK_DEADLOCK FALSE
