SPECIFICATION FairSpec
CONSTANTS
    Files <- SomeFiles
    Junk = {0, 73, 255}
    Word = 1000000
    NULL = NULL
    DotParts = {".mp3", ".m4a", ".wav", ".b"}
INVARIANTS ReadsTags CountsRight
PROPERTY ScanEnds
CHECK_DEADLOCK FALSE
