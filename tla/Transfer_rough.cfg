SPECIFICATION FairSpec
CONSTANTS
    Handles = {h1}
    NULL = NULL
    local_ipod = local_ipod
    Tracks <- AllTracks
    Size <- MCSize
    Length <- MCLength
    Chunk = 2
    Selections <- AnyList
    Failures = {"malloc", "stat", "folders", "open", "read", "write"}
    ModalTimers = TRUE
INVARIANTS TypeOK OnlyCompleteFilesAdded DoneUpToCurrent CountersAgree StreamsFollowTimer AddedTracksAreSaved CompletedMeansCopied MpdWillCatchUp
PROPERTIES ImplementsBatch TransferEnds
CHECK_DEADLOCK FALSE
