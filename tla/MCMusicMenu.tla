---------------------------- MODULE MCMusicMenu ----------------------------
EXTENDS MusicMenu

Track(artist, album, title) == [artist |-> artist, album |-> album, title |-> title]

\* Two artists share an album and a title; another iPod has another album.
Mixed == <<Track("A", "X", "s"), Track("A", "Y", "t"), Track("B", "X", "s"), Track("B", "X", "t")>>
Other == <<Track("A", "Z", "s")>>
SomeDatabases == {Mixed, Other}
=============================================================================
