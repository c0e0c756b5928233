----------------------------- MODULE AudioFile -----------------------------
(***************************************************************************)
(* What the readers of mp3 and m4a files share: the file they read, the    *)
(* track they fill, and where they are in the code.                        *)
(***************************************************************************)
EXTENDS Integers, Sequences, TLC, Strings, Streams

CONSTANTS
    Files,  \* the files, a sequence of records: "path", "bytes", and, for the
            \* properties, "sound" and the "tags" and "counts" it should give
    Junk,   \* what an uninitialized byte may hold
    Word,   \* the number of values of a uint32_t: 2^32, in an instance less
    NULL

ASSUME AudioFileAssumption ==
    /\ \A i \in DOMAIN Files : Files[i].bytes \in Seq(Byte)
    /\ Junk \subseteq Byte /\ Junk # {}
    /\ Word \in Nat \ {0}

VARIABLES
    file,   \* the file, one of Files
    pc,     \* where in the code
    at,     \* the position in the file
    track,  \* what was set of the new track, by name; NULL before it is made
    mp3,    \* the variables of the mp3 reader
    m4a     \* and of the m4a reader

vars == <<file, pc, at, track, mp3, m4a>>

bytes == file.bytes

\* The values of f, and for what has none in f those of g.
over(f, g) == [x \in DOMAIN f \cup DOMAIN g |-> IF x \in DOMAIN f THEN f[x] ELSE g[x]]

\* ipod_track_set_text() and ipod_track_set_attribute(), any number of them.
set(values) == track' = over(values, track)

\* The units of a text that was set from the bytes s.
text(s, junk) == utf16_from_utf8(c_string(s), junk)

\* The numbers of music genres in ipod_music_genres.  The name of genre n is
\* written as a single unit no other text has.
Genres == 0 .. 147
genre_name(n) == <<65536 + n>>

\* A number that is not in the table gives any pointer: some text, if not a fault.
music_genres(n) == IF n \in Genres THEN {genre_name(n)} ELSE {<<j>> : j \in Junk}

\* A signal that ends the program: a division by zero, an access to no memory.
fault == pc' = "fault" /\ UNCHANGED <<file, at, track, mp3, m4a>>
=============================================================================
