----------------------------- MODULE MusicMenu -----------------------------
(***************************************************************************)
(* Browsing the music of the remote iPod: the menus of artists, albums and *)
(* songs (artist.c, album.c, song.c) and the search behind them            *)
(* (list_utils.c).  The choices made on the way down are parameters of the *)
(* search.  They are kept in a list that all the menus below a root menu   *)
(* share, and nothing takes them out again when the user goes back.  Their *)
(* values are the names of menu items, which go with their menu.           *)
(*                                                                         *)
(* Lists of names, tracks and parameters are sets: their order and, by     *)
(* string_list_add_unique(), repetition make no difference to a search.    *)
(***************************************************************************)
EXTENDS Integers, Sequences

CONSTANTS
    Names,       \* of artists, albums and songs
    Databases,   \* the databases of iPods that may be attached, each a
                 \* sequence of tracks, each a function from tags to names
    NULL,
    MaxWindows,  \* bound: windows opened in all
    MaxLists     \* bound: parameter lists allocated

Tags == {"artist", "album", "title"}

ASSUME MusicMenuAssumption ==
    /\ Databases \subseteq Seq([Tags -> Names])
    /\ NULL \notin Databases
    /\ NULL \notin Nat

VARIABLES
    remote_ipod,  \* the open database, or NULL
    windows,      \* the windows on the screen, from the bottom up
    opened,       \* how many windows were opened so far
    lists,        \* the parameter lists, by address
    crashed       \* the program used a NULL list

vars == <<remote_ipod, windows, opened, lists, crashed>>

\* A window has an id, what it "shows" ("tracks" is the Transfer menu), the
\* address of its parameters, the "found" names or tracks, and, as history, the
\* choices on the "path" to it and the database it was filled "from".
Top == windows[Len(windows)]

\* ttk_show_window().
Show(window) ==
    /\ windows' = Append(windows, window)
    /\ opened' = opened + 1

-----------------------------------------------------------------------------
(* list_utils.c                                                            *)

\* A parameter is [tag, value, owner]; the value is freed with the menu that
\* owns it.
Live(params) == {p \in params : \E i \in DOMAIN windows : windows[i].id = p.owner}

Matching(db, params) == {k \in DOMAIN db : \A p \in params : db[k][p.tag] = p.value}

\* The tracks that pass param_list_test_track().  A comparison with a freed
\* name may say anything.
Found(db, params) ==
    IF Live(params) = params THEN {Matching(db, params)}
                             ELSE SUBSET Matching(db, Live(params))

\* string_list_track_search(), and the NULL it returns without a database.
string_list_track_search(tag, params) ==
    IF remote_ipod = NULL THEN {{}}
    ELSE {{remote_ipod[k][tag] : k \in found} : found \in Found(remote_ipod, params)}

\* Mutant: the address of the list is that of the last one made.
address_last(window) == IF window.param = NULL THEN Len(lists) ELSE window.param

\* A menu without parameters starts a new list at every choice.
address(window) == IF window.param = NULL THEN Len(lists) + 1 ELSE window.param

\* Mutant: a choice takes the place of the others of its menu.
with_choice_only(window, value) == {[tag |-> window.shows, value |-> value, owner |-> window.id]}

\* param_list_new() and param_list_add().
with_choice(window, value) ==
    (IF address(window) \in DOMAIN lists THEN lists[address(window)] ELSE {})
        \cup {[tag |-> window.shows, value |-> value, owner |-> window.id]}

add_choice(window, value) ==
    /\ window.param = NULL => Len(lists) < MaxLists
    /\ lists' = IF address(window) \in DOMAIN lists
                THEN [lists EXCEPT ![address(window)] = with_choice(window, value)]
                ELSE Append(lists, with_choice(window, value))

-----------------------------------------------------------------------------
(* Menus                                                                   *)

PathTo(window, value) == window.path \cup {[tag |-> window.shows, value |-> value]}

\* new_pp_artist_menu(), new_pp_album_menu(), new_pp_song_menu(): items of the
\* iPod's menu, there only while its database is open.
new_pp_menu(tag) ==
    /\ windows = <<>> /\ remote_ipod # NULL /\ opened < MaxWindows
    /\ \E names \in string_list_track_search(tag, {}) :
          Show([id |-> opened, shows |-> tag, param |-> NULL, found |-> names,
                path |-> {}, from |-> remote_ipod])
    /\ UNCHANGED <<remote_ipod, lists, crashed>>

\* open_artist() and open_album(): the menu one level below.
open_submenu(tag, value) ==
    /\ opened < MaxWindows
    /\ add_choice(Top, value)
    /\ \E names \in string_list_track_search(tag, with_choice(Top, value)) :
          Show([id |-> opened, shows |-> tag, param |-> address(Top), found |-> names,
                path |-> PathTo(Top, value), from |-> remote_ipod])
    /\ UNCHANGED <<remote_ipod, crashed>>

open_artist(value) == Top.shows = "artist" /\ open_submenu("album", value)
open_album(value) == Top.shows = "album" /\ open_submenu("title", value)

\* track_search_id() and transfer_alt_menu(), which follows the NULL list that a
\* search without a database returns.
search_and_transfer(value) ==
    /\ opened < MaxWindows
    /\ add_choice(Top, value)
    /\ IF remote_ipod = NULL
       THEN crashed' = TRUE /\ UNCHANGED <<windows, opened>>
       ELSE /\ \E tracks \in Found(remote_ipod, with_choice(Top, value)) :
                  Show([id |-> opened, shows |-> "tracks", param |-> address(Top), found |-> tracks,
                        path |-> PathTo(Top, value), from |-> remote_ipod])
            /\ UNCHANGED crashed
    /\ UNCHANGED remote_ipod

open_song(value) == Top.shows = "title" /\ search_and_transfer(value)
artist_held_handler(value) == Top.shows = "artist" /\ search_and_transfer(value)
album_held_handler(value) == Top.shows = "album" /\ search_and_transfer(value)

\* The window that open_song() makes is not shown.
song_held_handler(value) ==
    /\ Top.shows = "title"
    /\ add_choice(Top, value)
    /\ crashed' = (remote_ipod = NULL)
    /\ UNCHANGED <<remote_ipod, windows, opened>>

\* The MENU button closes a window; a menu frees the names of its items.
close_window ==
    /\ windows # <<>>
    /\ windows' = SubSeq(windows, 1, Len(windows) - 1)
    /\ UNCHANGED <<remote_ipod, opened, lists, crashed>>

\* load_rip_music() and close_rip_music(), whatever is on the screen.
poll ==
    /\ \/ remote_ipod = NULL /\ remote_ipod' \in Databases
       \/ remote_ipod # NULL /\ remote_ipod' = NULL
    /\ UNCHANGED <<windows, opened, lists, crashed>>

-----------------------------------------------------------------------------
Init ==
    /\ remote_ipod = NULL /\ windows = <<>> /\ opened = 0 /\ lists = <<>>
    /\ crashed = FALSE

Choose ==
    /\ windows # <<>>
    /\ \E value \in Top.found :
          \/ open_artist(value)
          \/ open_album(value)
          \/ open_song(value)
          \/ artist_held_handler(value)
          \/ album_held_handler(value)
          \/ song_held_handler(value)

Next ==
    /\ ~crashed
    /\ \/ \E tag \in Tags : new_pp_menu(tag)
       \/ Choose
       \/ close_window
       \/ poll

Spec == Init /\ [][Next]_vars

-----------------------------------------------------------------------------
(* Properties                                                              *)

\* Whatever was chosen before, and however often the user went back and chose
\* again, a window shows nothing but what matches all the choices on the path to
\* it: no track is transferred or removed that the menus did not lead to
\* (list_utils.c:211, song.c:28-32).  It may well show less, see README.
ShownWithinPath ==
    \A i \in DOMAIN windows :
        LET w == windows[i]
            matching == Matching(w.from, w.path)
        IN  w.from # NULL =>
                w.found \subseteq IF w.shows = "tracks" THEN matching
                                  ELSE {w.from[k][w.shows] : k \in matching}

\* A choice made in a root menu has exactly the tracks that match it, although
\* other choices were made in the same menu before: it begins a list of its own
\* (album.c:29-31, and so in artist.c and song.c).
RootChoicesExact ==
    \A i \in DOMAIN windows :
        i = 2 /\ windows[i].shows = "tracks" =>
            windows[i].found = Matching(windows[i].from, windows[i].path)
=============================================================================
