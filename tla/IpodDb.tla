------------------------------- MODULE IpodDb -------------------------------
(***************************************************************************)
(* libipod's view of one iPod: the database in memory, as ipod.c and the   *)
(* atoms under it change it, the iTunesDB file it is read from and written *)
(* to, and the audio files.                                                *)
(*                                                                         *)
(* A song is an audio file on this iPod, by its location.  A playlist      *)
(* refers to tracks by id only; its items here also carry the song they    *)
(* were added for, which the program does not know.  The order and         *)
(* repetition of items in a playlist are left out.                         *)
(***************************************************************************)
EXTENDS Lists, FiniteSets

CONSTANTS
    Songs,
    NULL,
    Foreign,       \* the databases iTunes can have left on the iPod
    MaxId,         \* bounds: ids given to tracks, far below 2^32,
    PlaylistIds,   \* and to playlists
    MaxPlaylists,  \* bound: playlists a client makes
    MaxItems,      \* bound: items a client adds to a playlist
    AnyClient,     \* the calls come from any client of libipod, not podtopod
    Failures       \* "open": fopen() of an existing file fails, "create":
                   \* so it does for writing, "write": the disk is full,
                   \* "crash": power fails in the middle of a write

FirstTrackId == 1000
FirstPlaylistId == 10
MasterId == 500

Entry == [id : Nat, song : Songs]
Playlist == [id : Nat, hidden : BOOLEAN, items : SUBSET Entry]
Database == [tracks : Seq(Entry), playlists : Seq(Playlist),
             podcasts : Seq(Playlist) \cup {NULL}]

UniqueIds(list) == \A i, j \in DOMAIN list : list[i].id = list[j].id => i = j

ASSUME IpodDbAssumption ==
    /\ MaxId \in Nat /\ MaxId >= FirstTrackId
    /\ PlaylistIds \subseteq Nat
    /\ MaxPlaylists \in Nat /\ MaxItems \in Nat
    /\ Foreign \subseteq Database
    /\ \A d \in Foreign : UniqueIds(d.tracks) /\ UniqueIds(d.playlists)
    /\ NULL \notin Database /\ NULL \notin Seq(Playlist)
    /\ AnyClient \in BOOLEAN
    /\ Failures \subseteq {"open", "create", "write", "crash"}

VARIABLES
    db,        \* the tree under the mhbd atom, NULL while the iPod is closed
    db_dirty,
    disk,      \* the iTunesDB file: its state, and the database in it
    files      \* the songs whose audio files exist

vars == <<db, db_dirty, disk, files>>

\* "foreign": as iTunes left it, "written" by this library, "torn": only
\* partly, so that reading it meets an unknown tag and exits (ipod_atom.c:105).
\* A cut within the last few bytes, which could still be read, is left out.
DiskStates == {"none", "foreign", "written", "torn"}

TypeOK ==
    /\ db \in Database \cup {NULL}
    /\ db_dirty \in BOOLEAN
    /\ disk \in [state : DiskStates, db : Database \cup {NULL}]
    /\ disk.state \in {"foreign", "written"} <=> disk.db # NULL
    /\ files \subseteq Songs

-----------------------------------------------------------------------------
(* The tree of atoms                                                       *)

Elements(list) == {list[i] : i \in DOMAIN list}

\* ipod_atom_list_remove(), for the positions in "gone"; a set of one list.
Without(list, gone) ==
    LET kept == DOMAIN list \ gone
    IN  {[i \in DOMAIN f |-> list[f[i]]] :
            f \in {g \in [1..Cardinality(kept) -> kept] :
                      \A i, j \in DOMAIN g : i < j => g[i] < g[j]}}

\* ipod_atom_mhsd_create_new_db(), for version 5.0.
NewDatabase ==
    LET master == <<[id |-> MasterId, hidden |-> TRUE, items |-> {}]>>
    IN  [tracks |-> <<>>, playlists |-> master, podcasts |-> master]

\* What ipod_unique_track_id() and ipod_unique_playlist_id() walk over.
IdsOf(list) == [i \in DOMAIN list |-> list[i].id]

Ids(entries) == {e.id : e \in entries}

check_master_playlist(tracks, items) ==
    items \cup {t \in Elements(tracks) : t.id \notin Ids(items)}

check_playlist(tracks, items) == {e \in items : e.id \in Ids(Elements(tracks))}

\* Mutant: only the master playlist is checked.
prepare_mhyp_master(tracks, playlist) ==
    [playlist EXCEPT !.items =
        IF playlist.hidden
        THEN check_playlist(tracks, check_master_playlist(tracks, @)) ELSE @]

prepare_mhyp(tracks, playlist) ==
    [playlist EXCEPT !.items =
        check_playlist(tracks,
                       IF playlist.hidden THEN check_master_playlist(tracks, @) ELSE @)]

prepare_mhlp(tracks, playlists) ==
    [i \in DOMAIN playlists |-> prepare_mhyp(tracks, playlists[i])]

\* The "podcasts" are replaced by a copy of the playlists, if there are any,
\* and then each list is prepared by itself.
prepare_to_write(d) ==
    [d EXCEPT !.playlists = prepare_mhlp(d.tracks, @),
              !.podcasts = IF @ = NULL THEN NULL ELSE prepare_mhlp(d.tracks, d.playlists)]

-----------------------------------------------------------------------------
(* Opening, writing, closing                                               *)

Readable == disk.state \in {"foreign", "written"}

\* Mutant: the database is created although there is one.
ipod_new_creates ==
    /\ db = NULL
    /\ db' = NewDatabase /\ db_dirty' = TRUE
    /\ UNCHANGED <<disk, files>>

\* A file that cannot be opened, for whatever reason, counts as missing.
ipod_new ==
    /\ db = NULL
    /\ \/ /\ disk.state = "none" \/ "open" \in Failures
          /\ db' = NewDatabase /\ db_dirty' = TRUE
       \/ /\ Readable
          /\ db' = disk.db /\ db_dirty' = FALSE
    /\ UNCHANGED <<disk, files>>

Torn == [state |-> "torn", db |-> NULL]

\* What ipod_flush() makes of the file, given the prepared database.
WriteDatabase(d) ==
    \/ ~db_dirty /\ UNCHANGED disk
    \/ db_dirty /\ disk' = [state |-> "written", db |-> d]
    \/ db_dirty /\ "create" \in Failures /\ UNCHANGED disk
    \/ db_dirty /\ "write" \in Failures /\ disk' = Torn

ipod_flush ==
    /\ db # NULL
    /\ db' = prepare_to_write(db)
    /\ WriteDatabase(db')
    /\ db_dirty' = FALSE
    /\ UNCHANGED files

\* The flush that ipod.h promises is commented out.
ipod_free ==
    /\ db # NULL
    /\ db' = NULL /\ db_dirty' = FALSE
    /\ UNCHANGED <<disk, files>>

\* The file is truncated first and then written in place.
CrashInFlush ==
    /\ db # NULL /\ db_dirty /\ "crash" \in Failures
    /\ db' = NULL /\ db_dirty' = FALSE
    /\ disk' = Torn
    /\ UNCHANGED files

-----------------------------------------------------------------------------
(* Tracks                                                                  *)

\* A client copies a song to a location where no file is, whatever the database
\* says of that location, and then adds the track for it.
ipod_track_add(song) ==
    /\ db # NULL
    /\ song \notin files /\ files' = files \cup {song}
    /\ LET id == unique_id(FirstTrackId, IdsOf(db.tracks))
       IN  /\ id <= MaxId
           /\ db' = [db EXCEPT !.tracks = Append(@, [id |-> id, song |-> song])]
    /\ db_dirty' = TRUE
    /\ UNCHANGED disk

\* The track leaves the list and its file the disk; playlists keep it ("TODO").
ipod_track_remove(i) ==
    /\ AnyClient
    /\ \E tracks \in Without(db.tracks, {i}) : db' = [db EXCEPT !.tracks = tracks]
    /\ files' = files \ {db.tracks[i].song}
    /\ db_dirty' = TRUE
    /\ UNCHANGED disk

\* remove_tracks_do_delete() of podtopod.c: removes the tracks it finds and
\* flushes, changes or no changes.
remove_tracks_do_delete(gone) ==
    /\ \E tracks \in Without(db.tracks, gone) :
          db' = prepare_to_write([db EXCEPT !.tracks = tracks])
    /\ files' = files \ {db.tracks[i].song : i \in gone}
    /\ \/ disk' = [state |-> "written", db |-> db']
       \/ "create" \in Failures /\ UNCHANGED disk
       \/ "write" \in Failures /\ disk' = Torn
    /\ gone # {}
    /\ db_dirty' = FALSE

\* Power fails after the files are deleted, before or during the write.
CrashInRemove(gone) ==
    /\ "crash" \in Failures
    /\ db' = NULL /\ db_dirty' = FALSE
    /\ disk' \in {disk, Torn}
    /\ files' = files \ {db.tracks[i].song : i \in gone}

-----------------------------------------------------------------------------
(* Playlists and their items                                               *)

ipod_playlist_add ==
    /\ db # NULL /\ Len(db.playlists) < MaxPlaylists
    /\ LET id == unique_id(FirstPlaylistId, IdsOf(db.playlists))
       IN  /\ id \in PlaylistIds
           /\ db' = [db EXCEPT !.playlists =
                        Append(@, [id |-> id, hidden |-> FALSE, items |-> {}])]
    /\ db_dirty' = TRUE
    /\ UNCHANGED <<disk, files>>

ipod_playlist_remove(i) ==
    /\ \E playlists \in Without(db.playlists, {i}) : db' = [db EXCEPT !.playlists = playlists]
    /\ db_dirty' = TRUE
    /\ UNCHANGED <<disk, files>>

\* The client sets the new item's track id right after adding it.
ipod_track_item_add(i, track) ==
    /\ Cardinality(db.playlists[i].items) < MaxItems
    /\ db' = [db EXCEPT !.playlists[i].items = @ \cup {track}]
    /\ db_dirty' = TRUE
    /\ UNCHANGED <<disk, files>>

\* Mutant: the change is not noted.
ipod_track_item_remove_clean(i, item) ==
    /\ db' = [db EXCEPT !.playlists[i].items = @ \ {item}]
    /\ UNCHANGED <<db_dirty, disk, files>>

ipod_track_item_remove(i, item) ==
    /\ db' = [db EXCEPT !.playlists[i].items = @ \ {item}]
    /\ db_dirty' = TRUE
    /\ UNCHANGED <<disk, files>>

-----------------------------------------------------------------------------
Init ==
    /\ db = NULL /\ db_dirty = FALSE
    /\ \/ disk = [state |-> "none", db |-> NULL]
       \/ \E d \in Foreign : disk = [state |-> "foreign", db |-> d]
    /\ files = IF disk.db = NULL THEN {} ELSE {t.song : t \in Elements(disk.db.tracks)}

Tracks ==
    \/ \E song \in Songs : ipod_track_add(song)
    \/ db # NULL /\ \E i \in DOMAIN db.tracks : ipod_track_remove(i)
    \/ /\ db # NULL
       /\ \E gone \in SUBSET DOMAIN db.tracks :
             remove_tracks_do_delete(gone) \/ CrashInRemove(gone)

Playlists ==
    \/ AnyClient /\ ipod_playlist_add
    \/ /\ AnyClient /\ db # NULL
       /\ \E i \in DOMAIN db.playlists :
             \/ ipod_playlist_remove(i)
             \/ \E track \in Elements(db.tracks) : ipod_track_item_add(i, track)
             \/ \E item \in db.playlists[i].items : ipod_track_item_remove(i, item)

Next == ipod_new \/ ipod_flush \/ ipod_free \/ CrashInFlush \/ Tracks \/ Playlists

Spec == Init /\ [][Next]_vars

-----------------------------------------------------------------------------
(* Properties                                                              *)

\* Ids identify tracks and playlists, in memory and in the file, through any
\* adding, removing, closing without writing and reading again (ipod.c:344-360,
\* 712-727).
IdsUnique ==
    \A d \in {db, disk.db} \ {NULL} : UniqueIds(d.tracks) /\ UniqueIds(d.playlists)

\* A database that was written refers to its own tracks only, each master
\* playlist names all of them, and the podcasts are the playlists: what
\* prepare_to_write promises, whatever happened to the tracks since the lists
\* were made (ipod_atom_mhyp.c:116-192, ipod_atom_mhbd.c:139-172).
WrittenResolves ==
    disk.state = "written" =>
        LET ids == Ids(Elements(disk.db.tracks))
        IN  /\ \A p \in Elements(disk.db.playlists) :
                  /\ Ids(p.items) \subseteq ids
                  /\ p.hidden => ids \subseteq Ids(p.items)
            /\ disk.db.podcasts \in {NULL, disk.db.playlists}

\* "write the database if required" (ipod.c:148): it is not required, and the
\* flag says so, only if the file has what memory has (but for what
\* prepare_to_write changes by itself).
CleanMeansSaved ==
    db # NULL /\ ~db_dirty =>
        disk.db # NULL /\ (db = disk.db \/ db = prepare_to_write(disk.db))

\* No song is forgotten: a song that the file lists and that is still on the
\* iPod is listed by whatever replaces the file, unless the write itself fails.
SavedSongsSurvive ==
    [][disk.db # NULL /\ disk'.db # NULL =>
          {t.song : t \in Elements(disk.db.tracks)} \cap files'
              \subseteq {t.song : t \in Elements(disk'.db.tracks)}]_vars

\* "The track will be removed from all playlists" (ipod.h:153): an item of a
\* playlist never comes to mean another song than it was added for.
PlaylistsNameSongs ==
    db # NULL =>
        \A p \in Elements(db.playlists) : \A e \in p.items :
            \A t \in Elements(db.tracks) : t.id = e.id => t.song = e.song
=============================================================================
