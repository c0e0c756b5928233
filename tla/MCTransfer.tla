----------------------------- MODULE MCTransfer -----------------------------
(***************************************************************************)
(* Track lists of at most two tracks, chosen among tracks whose files need *)
(* less than a chunk, an exact chunk, or several, and among tracks whose   *)
(* database disagrees with the file.                                       *)
(***************************************************************************)
EXTENDS Transfer, FiniteSets

\* name       database  file
\* "song"        3        3     a chunk and a half
\* "chunk"       2        2     exactly one chunk
\* "grown"       3        5     the file is longer, the end is never met
\* "cut"         2        3     the file is longer, the size is met at a chunk
\* "shrunk"      4        3     the file is shorter
\* "none"        0        3     no size in the database
\* "empty"       0        0     and an empty file
AllTracks == {"song", "chunk", "grown", "cut", "shrunk", "none", "empty"}
MCSize == [song |-> 3, chunk |-> 2, grown |-> 3, cut |-> 2, shrunk |-> 4, none |-> 0, empty |-> 0]
MCLength == [song |-> 3, chunk |-> 2, grown |-> 5, cut |-> 3, shrunk |-> 3, none |-> 3, empty |-> 0]

\* The music menus list a track once.
ListsOf(tracks) == {<<>>} \cup {<<t>> : t \in tracks}
                   \cup {p \in tracks \X tracks : p[1] # p[2]}

AnyList == ListsOf(AllTracks)

\* Selections that run the engine into no trap of its own: not empty, and no
\* track of size 0.
SoundTracks == {"song", "chunk", "grown", "cut", "shrunk"}
SoundList == ListsOf(SoundTracks) \ {<<>>}
=============================================================================
