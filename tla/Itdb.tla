-------------------------------- MODULE Itdb --------------------------------
(***************************************************************************)
(* The calls of ipod.h on one iPod, on the tree of atoms and on the files  *)
(* it is read from and written to.  IpodDb has the same calls without the  *)
(* format of the file, and with what goes wrong when it is written.        *)
(***************************************************************************)
EXTENDS Atoms, FiniteSets

CONSTANTS
    NULL,
    ForeignTrees,    \* the databases that iTunes can have left,
    ForeignFile(_),  \* and the cells of its file for each
    EqPresets,       \* the presets in iTunesEQPresets, NULL if there is no such file
    DefaultPresets,
    Names,           \* the names random() can make
    Extensions,      \* of the files that a client uploads
    Texts,           \* what a client sets: titles, and attributes
    Ratings,
    MaxChanges       \* bound: the changes a client makes

VARIABLES
    root,        \* the tree under the mhbd atom, NULL while the iPod is closed
    db_dirty,
    file,        \* the cells of iTunesDB, <<>> if there is none
    sd,          \* the entries of iTunesSD, NULL on an iPod that is no shuffle
    audio,       \* the paths of audio files
    eq,          \* the equalizer presets
    eq_dirty,
    itunes,      \* history: what iTunes left, NULL if nothing,
    disk,        \* and what there is to read in the file
    changes      \* how many changes the client made

vars == <<root, db_dirty, file, sd, audio, eq, eq_dirty, itunes, disk, changes>>

\* A location is <<':', name, extension>>.
MP3 == 201   M4A == 202   WAV == 203
Colon == 58
Slash == 47

\* ipod_string_replace_char(path, ':', '/').
PathOf(location) == [i \in DOMAIN location |-> IF location[i] = Colon THEN Slash ELSE location[i]]

\* The full path of a track's file, below the mount point.
FullPath(mhit) == PathOf(get_text(mhit.mhods, LOCATION))

\* ipod_extension_of(path, ".mp3").
extension_of(path) == IF path = <<>> THEN MP3 ELSE Last(path)

-----------------------------------------------------------------------------
(* Databases                                                               *)

\* Ratings are bytes, the data of an mhod of type 0 are not kept, and no two tracks
\* have the same id.
IsTrackList(tracks) ==
    /\ \A i \in DOMAIN tracks :
          /\ tracks[i].rating \in 0..255
          /\ \A k \in DOMAIN tracks[i].mhods : copy_mhod(tracks[i].mhods[k]) = tracks[i].mhods[k]
    /\ \A i, j \in DOMAIN tracks : tracks[i].trackID = tracks[j].trackID => i = j

\* A database is a tree of the atoms' types, with a store of tracks and one of
\* playlists, and no other of the same kind.
IsDatabase(tree) ==
    /\ tree \in Mhbds
    /\ StoreAt(tree, 1) # 0 /\ StoreAt(tree, 2) # 0
    /\ \A i \in DOMAIN tree.children :
          tree.children[i].child.tag = IF tree.children[i].index = 1 THEN MHLT ELSE MHLP
    /\ \A i, j \in DOMAIN tree.children :
          tree.children[i].index = tree.children[j].index => i = j
    /\ IsTrackList(Tracks(tree))

\* What iTunes leaves is a database in the format that is read here.
ASSUME ForeignAssumption ==
    \A tree \in ForeignTrees :
        /\ IsDatabase(tree) /\ ForeignFile(tree) # <<>>
        /\ read_mhbd(ForeignFile(tree)).ok /\ read_mhbd(ForeignFile(tree)).atom = tree

\* The times of its tracks and the sort orders of its playlists are not those of
\* new ones, ids differ, and files from before 4.8 have none of the later fields.
ASSUME ForeignDataAssumption ==
    \A tree \in ForeignTrees :
        /\ \A i \in DOMAIN Tracks(tree) :
              /\ Tracks(tree)[i].addedTime # MAC_EPOCH_OFFSET + 1
              /\ tree.version < VERSION4_8 => Tracks(tree)[i].sampleCount = 0
        /\ \A i \in DOMAIN Playlists(tree) : Playlists(tree)[i].sortOrder # 0
        /\ \A i, j \in DOMAIN Playlists(tree) :
              Playlists(tree)[i].id = Playlists(tree)[j].id => i = j

\* Texts are cells, names and extensions are one.
ASSUME InputAssumption ==
    /\ Texts \subseteq File /\ Names \subseteq Int /\ Extensions \subseteq Int
    /\ Ratings \subseteq Int

-----------------------------------------------------------------------------
(* Opening, writing, closing                                               *)

\* Other tags than these would make the program exit.
ipod_new ==
    /\ root = NULL
    /\ IF file = <<>> THEN root' = create_new_db(VERSION5_0) /\ db_dirty' = TRUE
       ELSE read_mhbd(file).ok /\ root' = read_mhbd(file).atom /\ db_dirty' = FALSE
    /\ IF EqPresets = NULL THEN eq' = DefaultPresets /\ eq_dirty' = TRUE
                           ELSE eq' = EqPresets /\ eq_dirty' = FALSE
    /\ UNCHANGED <<file, sd, audio>>

FileType(extension) == CASE extension = WAV -> 3 [] extension = M4A -> 2 [] extension = MP3 -> 1

\* ipod_atom_list_shuffle() does nothing.
write_shuffle_db(tree) ==
    [i \in DOMAIN Tracks(tree) |->
        [path |-> FullPath(Tracks(tree)[i]),
         fileType |-> FileType(extension_of(FullPath(Tracks(tree)[i])))]]

\* Mutant: the shuffle's file is written whether the database is or not.
ipod_flush_shuffle ==
    /\ root # NULL
    /\ root' = prepare_mhbd(root)
    /\ file' = IF db_dirty THEN write_mhbd(root') ELSE file
    /\ sd' = IF sd # NULL THEN write_shuffle_db(root') ELSE sd
    /\ db_dirty' = FALSE
    /\ UNCHANGED <<audio, eq, eq_dirty>>

\* The equalizer presets are not written.
ipod_flush ==
    /\ root # NULL
    /\ root' = prepare_mhbd(root)
    /\ file' = IF db_dirty THEN write_mhbd(root') ELSE file
    /\ sd' = IF db_dirty /\ sd # NULL THEN write_shuffle_db(root') ELSE sd
    /\ db_dirty' = FALSE
    /\ UNCHANGED <<audio, eq, eq_dirty>>

ipod_free ==
    /\ root # NULL
    /\ root' = NULL /\ db_dirty' = FALSE /\ eq' = NULL /\ eq_dirty' = FALSE
    /\ UNCHANGED <<file, sd, audio>>

-----------------------------------------------------------------------------
(* Tracks                                                                  *)

WithTracks(tree, tracks) == [tree EXCEPT !.children[StoreAt(tree, 1)].child.children = tracks]
WithPlaylists(tree, lists) == [tree EXCEPT !.children[StoreAt(tree, 2)].child.children = lists]

TrackIds(tree) == [i \in DOMAIN Tracks(tree) |-> Tracks(tree)[i].trackID]
ListIds(tree) == [i \in DOMAIN Playlists(tree) |-> Playlists(tree)[i].id]

\* All tracks are added at one time, 1 second after the epoch.
ipod_track_add ==
    /\ root # NULL
    /\ LET id == unique_id(1000, TrackIds(root))
           stamped == set_attribute(new_mhit, "addedTimeNative", 1)
       IN  root' = WithTracks(root, Append(Tracks(root), [stamped EXCEPT !.trackID = id, !.dbid = id]))
    /\ db_dirty' = TRUE
    /\ UNCHANGED <<file, sd, audio, eq, eq_dirty>>

\* Playlists keep the track, and so do the client's other handles.
ipod_track_remove(i) ==
    /\ root' = WithTracks(root, RemoveAt(Tracks(root), i))
    /\ audio' = audio \ {FullPath(Tracks(root)[i])}
    /\ db_dirty' = TRUE
    /\ UNCHANGED <<file, sd, eq, eq_dirty>>

\* Mutant: a changed text does not make the database dirty.
ipod_track_set_text_clean(i, tag, text) ==
    /\ root' = WithTracks(root, [Tracks(root) EXCEPT ![i].mhods = set_text(@, tag, text)])
    /\ UNCHANGED <<db_dirty, file, sd, audio, eq, eq_dirty>>

ipod_track_set_text(i, tag, text) ==
    /\ root' = WithTracks(root, [Tracks(root) EXCEPT ![i].mhods = set_text(@, tag, text)])
    /\ db_dirty' = TRUE
    /\ UNCHANGED <<file, sd, audio, eq, eq_dirty>>

ipod_track_set_attribute(i, tag, value) ==
    /\ root' = WithTracks(root, [Tracks(root) EXCEPT ![i] = set_attribute(@, tag, value)])
    /\ db_dirty' = TRUE
    /\ UNCHANGED <<file, sd, audio, eq, eq_dirty>>

\* ipod_unique_track_location(): it tries names until no file has the path.
unique_track_locations(extension) ==
    {location \in {<<Colon, name, extension>> : name \in Names} : PathOf(location) \notin audio}

\* A track that has no location gets one at which no file is, and this does not
\* make the database dirty.  That the copy may fail is left out.
ipod_track_upload(i, extension) ==
    /\ \/ has_text(Tracks(root)[i].mhods, LOCATION) /\ root' = root
       \/ /\ ~has_text(Tracks(root)[i].mhods, LOCATION)
          /\ \E location \in unique_track_locations(extension) :
                root' = WithTracks(root, [Tracks(root) EXCEPT
                            ![i].mhods = set_text(@, LOCATION, location)])
    /\ audio' = audio \cup {FullPath(Tracks(root')[i])}
    /\ UNCHANGED <<db_dirty, file, sd, eq, eq_dirty>>

-----------------------------------------------------------------------------
(* Playlists and their items                                               *)

ipod_playlist_add ==
    /\ root # NULL
    /\ LET new == new_mhyp(0, unique_id(10, ListIds(root)), 0, <<>>)
       IN  root' = WithPlaylists(root, Append(Playlists(root), new))
    /\ db_dirty' = TRUE
    /\ UNCHANGED <<file, sd, audio, eq, eq_dirty>>

ipod_playlist_remove(p) ==
    /\ root' = WithPlaylists(root, RemoveAt(Playlists(root), p))
    /\ db_dirty' = TRUE
    /\ UNCHANGED <<file, sd, audio, eq, eq_dirty>>

ipod_playlist_set_text(p, text) ==
    /\ root' = WithPlaylists(root, [Playlists(root) EXCEPT
                                       ![p].mhods = set_text(@, TITLE, text)])
    /\ db_dirty' = TRUE
    /\ UNCHANGED <<file, sd, audio, eq, eq_dirty>>

\* Hidden is what makes a playlist a master.  Its times, ids and sort order are
\* set in the same way.
ipod_playlist_set_attribute(p, tag, value) ==
    /\ root' = WithPlaylists(root, [Playlists(root) EXCEPT
                                       ![p] = set_list_attribute(@, tag, value)])
    /\ db_dirty' = TRUE
    /\ UNCHANGED <<file, sd, audio, eq, eq_dirty>>

\* A new item has no track yet.
ipod_track_item_add(p) ==
    /\ root' = WithPlaylists(root, [Playlists(root) EXCEPT ![p].mhips = Append(@, new_mhip(0))])
    /\ db_dirty' = TRUE
    /\ UNCHANGED <<file, sd, audio, eq, eq_dirty>>

ipod_track_item_set_attribute(p, k, tag, value) ==
    /\ root' = WithPlaylists(root, [Playlists(root) EXCEPT
                                       ![p].mhips[k] = set_item_attribute(@, tag, value)])
    /\ db_dirty' = TRUE
    /\ UNCHANGED <<file, sd, audio, eq, eq_dirty>>

ipod_track_item_remove(p, k) ==
    /\ root' = WithPlaylists(root, [Playlists(root) EXCEPT ![p].mhips = RemoveAt(@, k)])
    /\ db_dirty' = TRUE
    /\ UNCHANGED <<file, sd, audio, eq, eq_dirty>>

-----------------------------------------------------------------------------
(* Equalizer presets.  ipod_eq_preset_remove() looks for the client's      *)
(* handle among the presets' atoms, does not find it and changes nothing.  *)

ipod_eq_preset_add ==
    /\ eq # NULL
    /\ eq' = Append(eq, [name |-> NoText, gain |-> 0])
    /\ eq_dirty' = TRUE
    /\ UNCHANGED <<root, db_dirty, file, sd, audio>>

\* It is the database that becomes dirty, here and below.  The gain stands for
\* that of the preamplifier and the fifteen bands.
ipod_eq_preset_set_text(e, text) ==
    /\ eq' = [eq EXCEPT ![e].name = text]
    /\ db_dirty' = TRUE
    /\ UNCHANGED <<root, file, sd, audio, eq_dirty>>

ipod_eq_preset_set_attribute(e, value) ==
    /\ eq' = [eq EXCEPT ![e].gain = value]
    /\ db_dirty' = TRUE
    /\ UNCHANGED <<root, file, sd, audio, eq_dirty>>

-----------------------------------------------------------------------------
OnDisk(cells) == IF cells = <<>> THEN NULL ELSE read_mhbd(cells).atom

Locations(tree) == {FullPath(Tracks(tree)[i]) : i \in DOMAIN Tracks(tree)}

Init ==
    /\ root = NULL /\ db_dirty = FALSE /\ eq = NULL /\ eq_dirty = FALSE
    /\ \/ itunes = NULL /\ file = <<>> /\ audio = {} /\ sd \in {NULL, <<>>}
       \/ /\ itunes \in ForeignTrees
          /\ file = ForeignFile(itunes)
          /\ audio = Locations(itunes)
          /\ sd \in {NULL, write_shuffle_db(itunes)}
    /\ disk = OnDisk(file) /\ changes = 0

TrackNext ==
    \/ ipod_track_add
    \/ /\ root # NULL
       /\ \E i \in DOMAIN Tracks(root) :
             \/ ipod_track_remove(i)
             \/ \E tag \in {TITLE, RSSURL}, text \in Texts : ipod_track_set_text(i, tag, text)
             \/ \E value \in Ratings : ipod_track_set_attribute(i, "rating", value)
             \/ \E extension \in Extensions : ipod_track_upload(i, extension)

PlaylistNext ==
    \/ ipod_playlist_add
    \/ /\ root # NULL
       /\ \E p \in DOMAIN Playlists(root) :
             \/ ipod_playlist_remove(p)
             \/ \E text \in Texts : ipod_playlist_set_text(p, text)
             \/ \E value \in {0, 1} : ipod_playlist_set_attribute(p, "hidden", value)
             \/ ipod_track_item_add(p)
             \/ \E k \in DOMAIN Playlists(root)[p].mhips :
                   \/ ipod_track_item_remove(p, k)
                   \/ \E id \in ToSet(TrackIds(root)) :
                         ipod_track_item_set_attribute(p, k, "trackID", id)
                   \/ \E value \in Ratings :
                         ipod_track_item_set_attribute(p, k, "groupID", value)

PresetNext ==
    \/ ipod_eq_preset_add
    \/ /\ eq # NULL
       /\ \E e \in DOMAIN eq :
             \/ \E text \in Texts : ipod_eq_preset_set_text(e, text)
             \/ \E value \in Ratings : ipod_eq_preset_set_attribute(e, value)

Next ==
    /\ \/ (ipod_new \/ ipod_flush \/ ipod_free) /\ UNCHANGED changes
       \/ /\ changes < MaxChanges /\ changes' = changes + 1
          /\ TrackNext \/ PlaylistNext \/ PresetNext
    /\ UNCHANGED itunes
    /\ disk' = IF file' = file THEN disk ELSE OnDisk(file')

Spec == Init /\ [][Next]_vars

-----------------------------------------------------------------------------
(* Properties                                                              *)

\* The tree, and what there is to read in the file, are databases, whose tracks
\* all have ids of their own (ipod.c:220-236).
TypeOK ==
    /\ db_dirty \in BOOLEAN /\ eq_dirty \in BOOLEAN
    /\ \A tree \in {root, disk} \ {NULL} : IsDatabase(tree)

\* What a file can keep of a tree: no data of an mhod of type 0, and before 4.8
\* none of the later fields of a track.
Kept(tree) ==
    LET KeptTrack(t) == IF tree.version >= VERSION4_8 THEN t
                        ELSE [t EXCEPT !.dbid2 = 0, !.sampleCount = 0]
        KeptList(l) == [l EXCEPT !.children = [i \in DOMAIN @ |->
                            IF l.tag = MHLT THEN KeptTrack(@[i]) ELSE copy_mhyp(@[i])]]
        KeptStore(d) == [d EXCEPT !.child = KeptList(@)]
    IN  [tree EXCEPT !.children = [i \in DOMAIN @ |-> KeptStore(@[i])]]

\* What is written is what is read, for every version of the file: each size,
\* count and position that one atom writes is where the reader of another looks
\* (ipod_atom_*.c: the write and the read of each atom, written apart).
ReadBack ==
    [][file' # file => read_mhbd(file').ok /\ read_mhbd(file').atom = Kept(root')]_vars

\* Whatever the client did since the database was read, the data in it that
\* repeat or follow from others agree with them once it is written: a library
\* index that iTunes left (type 52) has every track once, in the order of
\* compare_utf16(), which is that of the first characters and then of the
\* lengths; the podcasts are the playlists; the counts of a track that are kept
\* twice are equal (ipod_atom_mhod.c:177-223, ipod_atom_mhbd.c:143-172,
\* ipod_atom_mhit.c:193).  Not so the five indices of a new database: made
\* without their type (ipod_atom_mhbd.c:87-92), they are never filled or sorted,
\* whatever the comment of ipod_atom_mhbd.c:58-60 says.
Agrees(tree) ==
    LET tracks == Tracks(tree)
        lists == Playlists(tree)
        InOrder(m) ==
           /\ Len(m.cells) = Len(tracks) /\ ToSet(m.cells) = {i - 1 : i \in DOMAIN tracks}
           /\ \A i, j \in DOMAIN m.cells : i < j =>
                 compare_utf16(SortKey(tracks[m.cells[i] + 1], m.sort),
                               SortKey(tracks[m.cells[j] + 1], m.sort)) <= 0
    IN  /\ \A i \in DOMAIN tracks : tracks[i].playCount2 = tracks[i].playCount
        /\ \A i \in DOMAIN lists : \A k \in DOMAIN lists[i].mhods :
              lists[i].mhods[k].type = LIBRARYPLAYLIST_INDEX => InOrder(lists[i].mhods[k])
        /\ StoreAt(tree, 3) # 0 =>
              Kept(tree).children[StoreAt(tree, 3)].child
                = Kept(tree).children[StoreAt(tree, 2)].child
DerivedAgrees == [][file' # file => Agrees(root')]_vars

\* The shuffle plays what the database lists: the two files, written one after
\* the other, have the same tracks in the same order, also after changes that
\* are not saved (ipod.c:157-175).
ShuffleFollows ==
    sd # NULL =>
        [i \in DOMAIN sd |-> sd[i].path] =
            IF file = <<>> THEN <<>>
            ELSE [i \in DOMAIN Tracks(disk) |-> FullPath(Tracks(disk)[i])]

\* What the library does not understand it keeps: a track or playlist that
\* iTunes left and that is still in the file has the data of the kinds that no
\* call of ipod.h makes or changes (ipod_atom_mhod.c:100-130, 249-278).  An id
\* may be used again; what no call sets tells the old from the new.
Opaque(mhods) == Only(mhods, {m \in ToSet(mhods) : Kind(m.type) = "rest"})
ForeignDataSurvives ==
    itunes # NULL =>
        /\ \A i \in DOMAIN Tracks(itunes), j \in DOMAIN Tracks(disk) :
              LET old == Tracks(itunes)[i]
                  new == Tracks(disk)[j]
              IN  new.trackID = old.trackID /\ new.addedTime = old.addedTime =>
                      /\ Opaque(new.mhods) = Opaque(old.mhods)
                      /\ new.sampleCount = old.sampleCount
        /\ \A i \in DOMAIN Playlists(itunes), j \in DOMAIN Playlists(disk) :
              LET old == Playlists(itunes)[i]
                  new == Playlists(disk)[j]
              IN  new.id = old.id /\ new.sortOrder = old.sortOrder =>
                      Opaque(new.mhods) = Opaque(old.mhods)

\* The library as a client sees it.
TrackView(a) ==
    [id |-> a.trackID, location |-> get_text(a.mhods, LOCATION),
     data |-> <<a.rating, a.playCount, get_attribute(a, "addedTimeNative"),
                Only(a.mhods, {m \in ToSet(a.mhods) : m.type # LOCATION})>>]
ItemsView(a) == [k \in DOMAIN a.mhips |-> a.mhips[k].trackID]
PlaylistView(a) ==
    [id |-> a.id, hidden |-> a.hidden # 0, title |-> get_text(a.mhods, TITLE),
     items |-> ItemsView(a)]
TracksView(tree) == [i \in DOMAIN Tracks(tree) |-> TrackView(Tracks(tree)[i])]
PlaylistsView(tree) == [i \in DOMAIN Playlists(tree) |-> PlaylistView(Playlists(tree)[i])]
View(tree) ==
    IF tree = NULL THEN NULL
    ELSE [tracks |-> TracksView(tree), playlists |-> PlaylistsView(tree)]

TrackViews == [id : Int, location : File, data : Int \X Int \X Int \X Seq(Mhods)]
PlaylistViews == [id : Int, hidden : BOOLEAN, title : File, items : Seq(Int)]
Libraries == [tracks : Seq(TrackViews), playlists : Seq(PlaylistViews)]

ASSUME NullAssumption == NULL \notin Mhbds /\ NULL \notin Libraries

Promise == INSTANCE Library WITH
    NoLibrary <- NULL, lib <- View(root), saved <- View(disk), dirty <- db_dirty

\* Through all of ipod.h's calls, the tree and the file in its format are the
\* library that ipod.h promises: opening gives what was saved last, a call edits
\* one track or playlist and makes the database dirty, and nothing else but a
\* flush changes anything (ipod.c:97-950).
Implements == Promise!LibrarySpec
=============================================================================
