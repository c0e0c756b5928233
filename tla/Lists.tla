------------------------------- MODULE Lists -------------------------------
(***************************************************************************)
(* Two walks over a list that several modules share, as functions: the     *)
(* part of a list that is in a set (SelectSeq() cannot be reasoned about), *)
(* and the id that the library gives to a new element.                     *)
(***************************************************************************)
EXTENDS Integers, SequencesExt

\* The elements of s that are in S.
Only(s, S) ==
    LET only[n \in 0..Len(s)] ==
            IF n = 0 THEN <<>>
            ELSE IF s[n] \in S THEN Append(only[n - 1], s[n]) ELSE only[n - 1]
    IN  only[Len(s)]

\* Mutant: > for >=.
unique_id_above(first, ids) ==
    LET next[n \in 0..Len(ids)] ==
            IF n = 0 THEN first
            ELSE IF ids[n] > next[n - 1] THEN ids[n] + 2 ELSE next[n - 1]
    IN  next[Len(ids)]

\* Mutant: the first id is not set and so is (uint32_t)-1, a sign lost.
unique_id_unset(first, ids) ==
    LET next[n \in 0..Len(ids)] ==
            IF n = 0 THEN -1
            ELSE IF ids[n] >= next[n - 1] THEN ids[n] + 2 ELSE next[n - 1]
    IN  next[Len(ids)]

\* ipod_unique_track_id() and ipod_unique_playlist_id(): not the greatest id
\* and 2, since an id below the one found so far does not count.
unique_id(first, ids) ==
    LET next[n \in 0..Len(ids)] ==
            IF n = 0 THEN first
            ELSE IF ids[n] >= next[n - 1] THEN ids[n] + 2 ELSE next[n - 1]
    IN  next[Len(ids)]
=============================================================================
