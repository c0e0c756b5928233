SPECIFICATION Spec
CONSTANTS
    Songs = {"a", "b"}
    NULL = NULL
    Foreign <- ForeignDatabases
    MaxId = 1002
    PlaylistIds = {10, 12, 502, 504}
    MaxPlaylists = 2
    MaxItems = 1
    AnyClient = TRUE
    Failures = {}
INVARIANT PlaylistsNameSongs
