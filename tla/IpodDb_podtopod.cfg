SPECIFICATION Spec
CONSTANTS
    Songs = {"a", "b", "c"}
    NULL = NULL
    Foreign <- ForeignDatabases
    MaxId = 1004
    PlaylistIds = {10, 12, 502, 504}
    MaxPlaylists = 2
    MaxItems = 1
    AnyClient = FALSE
    Failures = {"open", "create", "write", "crash"}
INVARIANT PlaylistsNameSongs
CHECK_DEADLOCK FALSE
