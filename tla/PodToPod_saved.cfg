SPECIFICATION Spec
CONSTANTS
    Handles = {h1, h2}
    NULL = NULL
    IpodBuild = FALSE
    CycleMenu = FALSE
    OtherUsers = FALSE
    PollErrors = FALSE
    MaxChildren = 1
    local_ipod = local_ipod
    Tracks <- TwoTracks
    Size <- MCSize
    Length <- MCSize
    Chunk = 2
    Selections <- OneList
    Failures = {"read"}
    ModalTimers = FALSE
    Unplugging = TRUE
INVARIANT AddedTracksAreSaved
CHECK_DEADLOCK FALSE
