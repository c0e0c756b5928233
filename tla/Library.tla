------------------------------ MODULE Library ------------------------------
(***************************************************************************)
(* What libipod promises its clients: a library of tracks and playlists    *)
(* that is opened, edited, saved and closed.  How it is laid out in memory *)
(* and in the file, and what versions of the file there are, is not seen.  *)
(***************************************************************************)
EXTENDS Lists

CONSTANT NoLibrary

VARIABLES
    lib,     \* the open library, or NoLibrary
    saved,   \* the library in the file, or NoLibrary
    dirty    \* whether the next flush has to write

lvars == <<lib, saved, dirty>>

\* A track is [id, location, data], a playlist [id, hidden, title, items], an
\* item the id of a track.
Ids(tracks) == {tracks[i].id : i \in DOMAIN tracks}

\* What a library is like once it has been flushed: all the tracks are in each
\* master playlist, and no playlist has an item without a track.
Flushed(l) ==
    LET ids == Ids(l.tracks)
        Missing(p) == Only([i \in DOMAIN l.tracks |-> l.tracks[i].id], ids \ ToSet(p.items))
        Items(p) == p.items \o (IF p.hidden THEN Missing(p) ELSE <<>>)
    IN  [l EXCEPT !.playlists = [i \in DOMAIN @ |->
            [l.playlists[i] EXCEPT !.items = Only(Items(l.playlists[i]), ids)]]]

Empty(l) == l.tracks = <<>> /\ Len(l.playlists) = 1 /\ l.playlists[1].hidden

Open ==
    /\ lib = NoLibrary
    /\ \/ saved = NoLibrary /\ lib' # NoLibrary /\ Empty(lib') /\ dirty' = TRUE
       \/ saved # NoLibrary /\ lib' = saved /\ dirty' = FALSE
    /\ UNCHANGED saved

\* At most one element of the list changes, appears or disappears.
Others(list, id) == Only(list, {x \in ToSet(list) : x.id # id})
OneChanged(old, new) ==
    old = new \/ \E id \in Ids(old) \cup Ids(new) : Others(old, id) = Others(new, id)

Edited(old, new) ==
    \/ new.playlists = old.playlists /\ OneChanged(old.tracks, new.tracks)
    \/ new.tracks = old.tracks /\ OneChanged(old.playlists, new.playlists)

\* One call edits one track or one playlist, and makes the library dirty.
Edit ==
    /\ lib # NoLibrary /\ lib' # NoLibrary
    /\ Edited(lib, lib')
    /\ dirty' = TRUE
    /\ UNCHANGED saved

Located(old, new) ==
    \E i \in DOMAIN old.tracks :
        /\ old.tracks[i].location = <<>>
        /\ new = [old EXCEPT !.tracks[i].location = new.tracks[i].location]

\* A track without a location may get one; that alone does not make the
\* library dirty (ipod.c:640).
Upload ==
    /\ lib # NoLibrary /\ lib' # NoLibrary
    /\ Located(lib, lib')
    /\ UNCHANGED <<saved, dirty>>

Flush ==
    /\ lib # NoLibrary
    /\ lib' = Flushed(lib)
    /\ saved' = IF dirty THEN lib' ELSE saved
    /\ dirty' = FALSE

Close == lib # NoLibrary /\ lib' = NoLibrary /\ dirty' = FALSE /\ UNCHANGED saved

LibraryInit == lib = NoLibrary /\ dirty = FALSE

LibrarySpec == LibraryInit /\ [][Open \/ Edit \/ Upload \/ Flush \/ Close]_lvars
=============================================================================
