SPECIFICATION FairSpec
CONSTANTS
    Handles = {h1}
    NULL = NULL
    IpodBuild = TRUE
    CycleMenu = FALSE
    OtherUsers = FALSE
    PollErrors = FALSE
    MaxChildren = 1
    local_ipod = local_ipod
    Tracks <- TwoTracks
    Size <- MCSize
    Length <- MCSize
    Chunk = 2
    Selections <- ShortList
    Failures = {"read"}
    ModalTimers = TRUE
    Unplugging = TRUE
PROPERTIES UnplugIsNoticed MountIsNoticed TransferEnds
CHECK_DEADLOCK FALSE
