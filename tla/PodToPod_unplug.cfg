SPECIFICATION Spec
CONSTANTS
    Handles = {h1, h2}
    NULL = NULL
    IpodBuild = FALSE
    CycleMenu = TRUE
    OtherUsers = FALSE
    PollErrors = FALSE
    MaxChildren = 1
    local_ipod = local_ipod
    Tracks <- TwoTracks
    Size <- MCSize
    Length <- MCSize
    Chunk = 2
    Selections <- OneList
    Failures = {"read"}
    ModalTimers = FALSE
    Unplugging = TRUE
INVARIANTS OpenOnlyWhileMounted OnlyCompleteFilesAdded TransferringMeansOpen
PROPERTIES EjectedUntilUnplugged FaultsNeedLostDatabase
CHECK_DEADLOCK FALSE
