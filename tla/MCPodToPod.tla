---------------------------- MODULE MCPodToPod ----------------------------
(***************************************************************************)
(* Two addresses for the remote database, so that a reopened one may or    *)
(* may not be where the closed one was, and one list of two tracks, of     *)
(* which the first needs two chunks and the second one.                    *)
(***************************************************************************)
EXTENDS PodToPod

TwoTracks == {"song", "chunk"}
MCSize == [song |-> 3, chunk |-> 2]
OneList == {<<"song", "chunk">>}

\* For the liveness run: one track of two chunks.
ShortList == {<<"song">>}
=============================================================================
