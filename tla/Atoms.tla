------------------------------- MODULE Atoms -------------------------------
(***************************************************************************)
(* The iTunesDB as libipod's atoms hold, read, prepare and write it.  In   *)
(* memory it is a tree of records.  A file is a sequence of cells, one for *)
(* each integer or character; an atom in it begins with its tag, the size  *)
(* of its header and (lists excepted) its total size, which is patched in  *)
(* after its children are written.                                         *)
(*                                                                         *)
(* Fields that only the reading and the writing touch are represented by   *)
(* one of their kind, the fifty of a track by those below.                 *)
(***************************************************************************)
EXTENDS Lists

CONSTANT HeaderPad      \* unused cells at the end of the headers being written

ASSUME PadAssumption == HeaderPad \in Nat

MHBD == 9001   MHSD == 9002   MHLT == 9003   MHIT == 9004   MHOD == 9005
MHLP == 9006   MHYP == 9007   MHIP == 9008

\* The kinds of text, and of other data, that an mhod may hold.
TITLE == 1           LOCATION == 2         ALBUM == 3       ARTIST == 4
GENRE == 5           COMPOSER == 12        DESCRIPTION == 14
ENCLOSUREURL == 15   RSSURL == 16          CHAPTER == 17
SMARTPLAYLIST_PREF == 50                   LIBRARYPLAYLIST_INDEX == 52
PLAYLIST_SETTINGS == 100

VERSION4_8 == 12     VERSION4_9 == 13     VERSION5_0 == 14

\* The text that a library index is sorted by.
SortText == 3 :> TITLE @@ 4 :> ALBUM @@ 5 :> ARTIST @@ 7 :> GENRE @@ 18 :> COMPOSER

\* How the union in an mhod is used depends on its type; 0 has no data.
Strings == (1..SMARTPLAYLIST_PREF - 1) \ {ENCLOSUREURL, RSSURL, CHAPTER}
Kind(type) ==
    IF type = 0 THEN "none"
    ELSE IF type \in Strings THEN "string"
    ELSE IF type = LIBRARYPLAYLIST_INDEX THEN "index" ELSE "rest"

-----------------------------------------------------------------------------
(* What the atoms hold.                                                    *)

File == Seq(Int)

\* What an mhod's type has no use for is not there, but for the sort order of a
\* new library index.
Mhods ==
    {a \in [type : Int, sort : Int, cells : File] :
        /\ Kind(a.type) = "none" => a.cells = <<>>
        /\ Kind(a.type) \in {"string", "rest"} => a.sort = 0}

Mhips == [childCount : Int, groupID : Int, trackID : Int]
Mhyps == [hidden : Int, id : Int, sortOrder : Int, mhods : Seq(Mhods), mhips : Seq(Mhips)]
Mhits ==
    [trackID : Int, rating : Int, playCount : Int, playCount2 : Int, addedTime : Int,
     dbid : Int, dbid2 : Int, sampleCount : Int, mhods : Seq(Mhods)]
Mhls == [tag : {MHLT}, children : Seq(Mhits)] \cup [tag : {MHLP}, children : Seq(Mhyps)]
Mhsds == [index : Int, child : Mhls]
Mhbds == [version : Int, children : Seq(Mhsds)]

-----------------------------------------------------------------------------
(* Writing, from the leaves up.  v is the version of the database.         *)

Padded(s, size) == s \o [k \in 1..(size - Len(s)) |-> 0]

\* put_simple_header, put_pad, the children, and backpatch of the total size.
Atom(tag, size, fields, body) ==
    LET head == Padded(<<tag, size, 0>> \o fields, size)
    IN  [head EXCEPT ![3] = Len(head) + Len(body)] \o body

\* put_list_header and the children: a list has a count and no total size.
ListAtom(tag, size, fields, body) == Padded(<<tag, size>> \o fields, size) \o body

Each(Write(_), atoms) == FlattenSeq([i \in DOMAIN atoms |-> Write(atoms[i])])

write_mhod(a) ==
    LET data == IF Kind(a.type) = "string" THEN <<Len(a.cells)>> \o a.cells
                ELSE IF Kind(a.type) = "index" THEN <<a.sort, Len(a.cells)>> \o a.cells
                ELSE IF Kind(a.type) = "rest" THEN a.cells ELSE <<>>
    IN  Atom(MHOD, 4, <<a.type>>, data)

write_fake_mhod(i) == <<MHOD, 4, 5, PLAYLIST_SETTINGS, i>>

write_mhip(a, v) ==
    Atom(MHIP, 6 + HeaderPad, <<a.childCount, a.groupID, a.trackID>>,
         IF v >= VERSION4_9 THEN write_fake_mhod(a.groupID) ELSE <<>>)

\* Up to 4.8 the position of an item follows it, outside its total size.
write_mhyp(a, v) ==
    Atom(MHYP, 8 + HeaderPad,
         <<Len(a.mhods), Len(a.mhips), a.hidden, a.id, a.sortOrder>>,
         Each(write_mhod, a.mhods)
         \o FlattenSeq([i \in DOMAIN a.mhips |->
                write_mhip(a.mhips[i], v)
                \o (IF v < VERSION4_9 THEN write_fake_mhod(i - 1) ELSE <<>>)]))

write_mhit(a, v) ==
    LET early == <<Len(a.mhods), a.trackID, a.rating, a.playCount, a.playCount2,
                   a.addedTime, a.dbid>>
        late  == IF v >= VERSION4_8 THEN <<a.dbid2, a.sampleCount>> ELSE <<>>
    IN  Atom(MHIT, (IF v >= VERSION4_8 THEN 12 ELSE 10) + HeaderPad, early \o late,
             Each(write_mhod, a.mhods))

write_list(a, v) ==
    LET WriteChild(b) == IF a.tag = MHLT THEN write_mhit(b, v) ELSE write_mhyp(b, v)
    IN  ListAtom(a.tag, 3 + HeaderPad, <<Len(a.children)>>, Each(WriteChild, a.children))

write_mhsd(a, v) == Atom(MHSD, 4 + HeaderPad, <<a.index>>, write_list(a.child, v))

\* ipod_atom_write() of a whole database.
write_mhbd(root) ==
    LET WriteChild(b) == write_mhsd(b, root.version)
    IN  Atom(MHBD, 5 + HeaderPad, <<root.version, Len(root.children)>>,
             Each(WriteChild, root.children))

-----------------------------------------------------------------------------
(* Reading.  A reader is given the position of a tag.  It yields the atom, *)
(* the position it leaves the stream at, and whether the program goes on:  *)
(* it exits at a tag it does not know.  Which atoms hold which is fixed    *)
(* here, while the code would take any known tag for a child.              *)

\* A cell beyond the end of the file is no tag and no number of use.
NoCell == 9999
Cell(f, p) == IF p \in DOMAIN f THEN f[p] ELSE NoCell
Cells(f, p, n) == [k \in 1..n |-> Cell(f, p + k - 1)]

\* get_simple_header: where the header ends, and where the atom does.
HeaderEnd(f, p) == p + Cell(f, p + 1)
AtomEnd(f, p) == p + Cell(f, p + 2)

Got(atom, pos, ok) == [atom |-> atom, pos |-> pos, ok |-> ok]

\* n children from p on, by the function "read" of their positions.  There cannot
\* be more of them than cells.
Children(read, f, p, n) ==
    LET Appended(atoms, next) == Got(Append(atoms, next.atom), next.pos, next.ok)
        got[i \in 0..n] ==
            IF i = 0 THEN Got(<<>>, p, TRUE)
            ELSE LET before == got[i - 1]
                 IN  IF before.ok THEN Appended(before.atom, read[before.pos]) ELSE before
    IN  IF n <= Len(f) THEN got[n] ELSE Got(<<>>, p, FALSE)

\* The data of the other kinds are what is left of the atom: h2-ipod_io_tell().
RestLength(f, p) == AtomEnd(f, p) - (p + 4)

read_mhod(f, p) ==
    LET type == Cell(f, p + 3)
        kind == Kind(type)
        sort == IF kind = "index" THEN Cell(f, p + 4) ELSE 0
        cells == IF kind = "string" THEN Cells(f, p + 5, Cell(f, p + 4))
                 ELSE IF kind = "index" THEN Cells(f, p + 6, Cell(f, p + 5))
                 ELSE IF kind = "rest" THEN Cells(f, p + 4, RestLength(f, p)) ELSE <<>>
    IN  Got([type |-> type, sort |-> sort, cells |-> cells],
            AtomEnd(f, p), Cell(f, p) = MHOD)

read_mhip(f, p) ==
    Got([childCount |-> Cell(f, p + 3), groupID |-> Cell(f, p + 4), trackID |-> Cell(f, p + 5)],
        AtomEnd(f, p), Cell(f, p) = MHIP)

\* Mutant: the position after an item is not skipped.
read_item_only(f, p) == read_mhip(f, p)

\* The mhods below the header at p, which says how many they are.
read_mhods(f, p) ==
    Children([q \in Nat |-> read_mhod(f, q)], f, HeaderEnd(f, p), Cell(f, p + 3))

\* A child of a playlist, and the mhod with its position that may follow it.
read_item(f, p) ==
    LET Skip(item) == IF Cell(f, item.pos) = MHOD
                      THEN [item EXCEPT !.pos = read_mhod(f, item.pos).pos] ELSE item
    IN  Skip(read_mhip(f, p))

read_mhyp(f, p) ==
    LET Playlist(mhods, mhips) ==
            Got([hidden |-> Cell(f, p + 5), id |-> Cell(f, p + 6), sortOrder |-> Cell(f, p + 7),
                 mhods |-> mhods.atom, mhips |-> mhips.atom],
                AtomEnd(f, p), Cell(f, p) = MHYP /\ mhods.ok /\ mhips.ok)
        WithItems(mhods) ==
            Playlist(mhods, Children([q \in Nat |-> read_item(f, q)], f, mhods.pos, Cell(f, p + 4)))
    IN  WithItems(read_mhods(f, p))

read_mhit(f, p, v) ==
    LET mhods == read_mhods(f, p)
        Late(q) == IF v >= VERSION4_8 THEN Cell(f, q) ELSE 0
    IN  Got([trackID |-> Cell(f, p + 4), rating |-> Cell(f, p + 5),
             playCount |-> Cell(f, p + 6), playCount2 |-> Cell(f, p + 7),
             addedTime |-> Cell(f, p + 8), dbid |-> Cell(f, p + 9),
             dbid2 |-> Late(p + 10), sampleCount |-> Late(p + 11), mhods |-> mhods.atom],
            AtomEnd(f, p), Cell(f, p) = MHIT /\ mhods.ok)

read_list(f, p, v) ==
    LET tag == Cell(f, p)
        ReadChild(q) == IF tag = MHLT THEN read_mhit(f, q, v) ELSE read_mhyp(f, q)
        List(children) == Got([tag |-> tag, children |-> children.atom], children.pos,
                              tag \in {MHLT, MHLP} /\ children.ok)
    IN  List(Children([q \in Nat |-> ReadChild(q)], f, HeaderEnd(f, p), Cell(f, p + 2)))

read_mhsd(f, p, v) ==
    LET child == read_list(f, HeaderEnd(f, p), v)
    IN  Got([index |-> Cell(f, p + 3), child |-> child.atom], AtomEnd(f, p),
            Cell(f, p) = MHSD /\ child.ok)

\* ipod_atom_read_next() of a file; its children are of the version it says.
read_mhbd(f) ==
    LET version == Cell(f, 4)
        children == Children([q \in Nat |-> read_mhsd(f, q, version)],
                             f, HeaderEnd(f, 1), Cell(f, 5))
    IN  Got([version |-> version, children |-> children.atom], AtomEnd(f, 1),
            Cell(f, 1) = MHBD /\ children.ok)

-----------------------------------------------------------------------------
(* Copying, making, and searching the tree.                                *)

\* An mhod of type 0 is copied without its data.
copy_mhod(a) == IF a.type = 0 THEN [a EXCEPT !.sort = 0] ELSE a
copy_mhyp(a) == [a EXCEPT !.mhods = [i \in DOMAIN @ |-> copy_mhod(@[i])]]
copy_mhsd(a) == [a EXCEPT !.child.children = [i \in DOMAIN @ |-> copy_mhyp(@[i])]]

new_mhod_string(type, text) == [type |-> type, sort |-> 0, cells |-> text]

\* The type of a new library index is never set.
new_mhod_library_index(key) == [type |-> 0, sort |-> key, cells |-> <<>>]

new_mhip(track_id) == [childCount |-> 1, groupID |-> 0, trackID |-> track_id]

\* ipod_atom_init_mhyp(), and the attributes and title its makers set.
new_mhyp(hidden, id, sort_order, mhods) ==
    [hidden |-> hidden, id |-> id, sortOrder |-> sort_order, mhods |-> mhods, mhips |-> <<>>]

new_mhit == [trackID |-> 0, rating |-> 0, playCount |-> 0, playCount2 |-> 0, addedTime |-> 0,
             dbid |-> 0, dbid2 |-> 0, sampleCount |-> 0, mhods |-> <<>>]

\* ipod_atom_init_mhbd() and ipod_atom_mhsd_create_new_db().
create_new_db(version) ==
    LET iPod    == new_mhod_string(TITLE, <<105, 80, 111, 100>>)
        Indices == [i \in 1..5 |-> new_mhod_library_index(<<3, 4, 5, 7, 18>>[i])]
        Store(index, tag, children) ==
            [index |-> index, child |-> [tag |-> tag, children |-> children]]
        Lists(index) == Store(index, MHLP, <<new_mhyp(1, 500, 1, <<iPod>> \o Indices)>>)
    IN  [version |-> version,
         children |-> <<Store(1, MHLT, <<>>)>>
             \o (IF version < VERSION4_9 THEN <<Lists(2)>> ELSE <<Lists(3), Lists(2)>>)]

\* ipod_atom_mhbd_child(): where the store of tracks (1), playlists (2) or
\* podcasts (3) is, 0 if there is none.
StoreAt(root, index) == SelectInSeq(root.children, LAMBDA d : d.index = index)
Tracks(root) == root.children[StoreAt(root, 1)].child.children
Playlists(root) == root.children[StoreAt(root, 2)].child.children

\* ipod_atom_mhit_string_atom(), ipod_atom_mhyp_string_atom(): 0 if none.
TextAt(mhods, type) == SelectInSeq(mhods, LAMBDA m : m.type = type)
has_text(mhods, type) == TextAt(mhods, type) # 0

\* Mutant: what follows the texts is set as a text, too.
set_text_any(mhods, type, text) ==
    IF has_text(mhods, type) THEN [mhods EXCEPT ![TextAt(mhods, type)].cells = text]
                             ELSE Append(mhods, new_mhod_string(type, text))

\* URLs cannot be set yet, and nothing else is a text.
set_text(mhods, type, text) ==
    IF type \in TITLE..DESCRIPTION
    THEN IF has_text(mhods, type)
         THEN [mhods EXCEPT ![TextAt(mhods, type)].cells = text]
         ELSE Append(mhods, new_mhod_string(type, text))
    ELSE mhods

NoText == <<>>
get_text(mhods, type) ==
    IF has_text(mhods, type) /\ type \in TITLE..DESCRIPTION
    THEN mhods[TextAt(mhods, type)].cells ELSE NoText

\* A rating is a byte; the other fields here are words, which no value that is
\* put in them exceeds.  Times are counted from 1904 in the database, and from
\* 1970 in the program.
MAC_EPOCH_OFFSET == 2082844800
Field(tag) == IF tag = "addedTimeNative" THEN "addedTime" ELSE tag
Offset(tag) == IF tag = "addedTimeNative" THEN MAC_EPOCH_OFFSET ELSE 0
Stored(tag, value) == IF tag = "rating" THEN value % 256 ELSE value + Offset(tag)

get_attribute(mhit, tag) == mhit[Field(tag)] - Offset(tag)
set_attribute(mhit, tag, value) == [mhit EXCEPT ![Field(tag)] = Stored(tag, value)]

\* ipod_atom_mhyp_set_attribute(), ipod_atom_mhip_set_attribute().
set_list_attribute(mhyp, tag, value) == [mhyp EXCEPT ![tag] = value]
set_item_attribute(mhip, tag, value) == [mhip EXCEPT ![tag] = value]

-----------------------------------------------------------------------------
(* Preparing to write: what is kept twice, or derived, is computed again.  *)

\* ipod_string_compare_utf16() never advances beyond the first character.
compare_utf16(a, b) ==
    IF a # <<>> /\ b # <<>> /\ a[1] # b[1] THEN a[1] - b[1] ELSE Len(a) - Len(b)

nullString == <<126, 126, 126, 126, 126>>

\* The text that a track is sorted by: any string, or none, of its kind.
SortKey(mhit, sort) ==
    LET type == SortText[sort]
    IN  IF has_text(mhit.mhods, type) THEN mhit.mhods[TextAt(mhit.mhods, type)].cells
                                      ELSE nullString

\* A position is put before the first one that sorts after it.
Placed(s, i, key) ==
    LET later == SelectInSeq(s, LAMBDA j : compare_utf16(key[i], key[j]) < 0)
    IN  IF later = 0 THEN Append(s, i) ELSE InsertAt(s, later, i)

\* qsort() of glibc, which is stable, of the positions counted from 0.
Sorted(tracks, sort) ==
    LET key == [i \in 0..Len(tracks) - 1 |-> SortKey(tracks[i + 1], sort)]
        sorted[n \in 0..Len(tracks)] ==
            IF n = 0 THEN <<>> ELSE Placed(sorted[n - 1], n - 1, key)
    IN  sorted[Len(tracks)]

\* Mutant: an index is sorted again only if the number of tracks changed.
prepare_mhod_by_count(a, tracks) ==
    IF a.type = LIBRARYPLAYLIST_INDEX /\ Len(a.cells) # Len(tracks)
    THEN [a EXCEPT !.cells = Sorted(tracks, a.sort)] ELSE a

prepare_mhod(a, tracks) ==
    IF a.type = LIBRARYPLAYLIST_INDEX THEN [a EXCEPT !.cells = Sorted(tracks, a.sort)] ELSE a

prepare_mhit(a) == [a EXCEPT !.playCount2 = a.playCount, !.dbid2 = a.dbid]

InList(mhip, tracks) == \E i \in DOMAIN tracks : tracks[i].trackID = mhip.trackID

check_master_playlist(mhips, tracks) ==
    LET Missing(t) == \A i \in DOMAIN mhips : mhips[i].trackID # t.trackID
        missing == Only(tracks, {t \in ToSet(tracks) : Missing(t)})
    IN  mhips \o [i \in DOMAIN missing |-> new_mhip(missing[i].trackID)]

check_playlist(mhips, tracks) ==
    Only(mhips, {item \in ToSet(mhips) : InList(item, tracks)})

prepare_mhyp(a, tracks) ==
    LET all == IF a.hidden # 0 THEN check_master_playlist(a.mhips, tracks) ELSE a.mhips
    IN  [a EXCEPT !.mhods = [i \in DOMAIN @ |-> prepare_mhod(@[i], tracks)],
                  !.mhips = check_playlist(all, tracks)]

prepare_list(a, tracks) ==
    [a EXCEPT !.children = [i \in DOMAIN @ |->
        IF a.tag = MHLT THEN prepare_mhit(@[i]) ELSE prepare_mhyp(@[i], tracks)]]

prepare_mhsd(a, tracks) == [a EXCEPT !.child = prepare_list(@, tracks)]

\* The podcasts are replaced by a copy of the playlists, if there are any.
copy_playlists(root) ==
    LET podcasts == StoreAt(root, 3)
        copy == [copy_mhsd(root.children[StoreAt(root, 2)]) EXCEPT !.index = 3]
    IN  IF Len(root.children) > 2 /\ podcasts # 0 /\ StoreAt(root, 2) # 0
        THEN [root EXCEPT !.children[podcasts] = copy] ELSE root

prepare_mhbd(root) ==
    [copy_playlists(root) EXCEPT !.children =
        [i \in DOMAIN @ |-> prepare_mhsd(@[i], Tracks(root))]]

=============================================================================
