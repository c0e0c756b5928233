SPECIFICATION Spec
CONSTANTS
    Handles = {h1}
    NULL = NULL
    IpodBuild = TRUE
    CycleMenu = TRUE
    OtherUsers = TRUE
    PollErrors = TRUE
    MaxChildren = 1
INVARIANTS TypeOK MenusFollowStatus OpenOnlyWhileMounted
PROPERTY EjectedUntilUnplugged
