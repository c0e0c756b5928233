----------------------------- MODULE TrackFrom -----------------------------
(***************************************************************************)
(* ipod_track_add_from() (ipod_track_add.c): a track is made from what an  *)
(* audio file says of itself, and the file is uploaded.                    *)
(*                                                                         *)
(* A path is a sequence of parts: "/", parts that begin with a dot, and    *)
(* others.                                                                 *)
(***************************************************************************)
EXTENDS Mp3, M4a

CONSTANT DotParts  \* the parts that begin with a dot

path == file.path

\* What strrchr() finds, and the rest of the path from there.
from_last(set_of_parts, default) ==
    LET places == {i \in DOMAIN path : path[i] \in set_of_parts}
    IN  IF places = {} THEN default ELSE SubSeq(path, Max(places), Len(path))

ipod_extension_of(default) == from_last(DotParts, default)

\* The name comes with the slash before it, if there is one.
ipod_file_name_of == from_last({"/"}, path)

Reader == [e \in {<<".mp3">>, <<".m4a">>} |-> IF e = <<".mp3">> THEN "id3v1" ELSE "atom"]
extension == ipod_extension_of(<<".mp3">>)

\* The file is opened and the track added, before anything is read.
open_file ==
    /\ pc = "start" /\ extension \in DOMAIN Reader
    /\ track' = <<>>
    /\ pc' = Reader[extension]
    /\ UNCHANGED <<file, at, mp3, m4a>>

\* No file, no known extension, or .wav: no reader makes a track of it.
no_track ==
    /\ pc = "start"
    /\ pc' = "returned"
    /\ UNCHANGED <<file, at, track, mp3, m4a>>

\* A track without a title has the name of the file.  The location that
\* ipod_track_upload() gives is kept whether or not the file could be copied.
upload ==
    /\ pc = "title"
    /\ track' = over(track, [title |-> ipod_file_name_of])
    /\ pc' = "returned"
    /\ UNCHANGED <<file, at, mp3, m4a>>

-----------------------------------------------------------------------------
Init ==
    /\ \E i \in DOMAIN Files : file = Files[i]
    /\ pc = "start" /\ at = 0 /\ track = NULL
    /\ mp3 = mp3_start /\ m4a = m4a_start

ipod_track_add_from ==
    \/ open_file
    \/ no_track
    \/ ipod_track_from_mp3
    \/ ipod_track_from_m4a
    \/ upload

Spec == Init /\ [][ipod_track_add_from]_vars

\* The call is a sequential program: it goes on as long as it can.
FairSpec == Spec /\ WF_vars(ipod_track_add_from)

-----------------------------------------------------------------------------
(* Properties.  A sound file is one that players accept and whose tags use *)
(* what is known to be read rightly, see README.                           *)

\* From a sound file the program does not fault, and each name that its "tags" list
\* has the text or the number it was tagged with: the later tags of ID3v2 replace
\* those of ID3v1, in each encoding; those of an m4a file are found through all the
\* levels of atoms and whatever stands between them (ipod.h:141-143).  "tags" of no
\* file list the genre or the track number of ID3v1, which the program reads one byte
\* early (ipod_track_from_mp3.c:146-149): for those, ipod.h promises too much.
ReadsTags ==
    file.sound =>
        /\ pc # "fault"
        /\ pc = "returned" /\ track # NULL =>
              \A name \in DOMAIN file.tags :
                  name \in DOMAIN track /\ track[name] = file.tags[name]

\* Size, bit rate, sample rate, duration and whether the rate varies are those of
\* the sound in the file: nothing in tags, in their text or between frames is taken
\* for a frame, and each frame counts once, or, of layer III before MPEG 1, every other
\* one with twice its samples, which comes to the same for an even number of equal
\* frames and no others are sound (ipod_track_from_mp3.c:359, ipod.h:141).
CountsRight ==
    file.sound /\ pc = "returned" /\ track # NULL =>
        \A name \in DOMAIN file.counts :
            name \in DOMAIN track /\ track[name] = file.counts[name]

\* The scan of a sound file comes to its end, whatever it backs up over
\* (ipod_track_from_mp3.c:376-423, ipod_track_from_m4a.c:310).
ScanEnds == file.sound => <>(pc = "returned")
=============================================================================
