SPECIFICATION Spec
CONSTANTS
    Handles = {h1}
    NULL = NULL
    local_ipod = local_ipod
    Tracks <- AllTracks
    Size <- MCSize
    Length <- MCLength
    Chunk = 2
    Selections <- SoundList
    Failures = {"read", "write"}
    ModalTimers = FALSE
INVARIANT NoFault
