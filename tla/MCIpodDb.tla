------------------------------ MODULE MCIpodDb ------------------------------
(***************************************************************************)
(* What iTunes may have left: a database of the newer kind with a playlist *)
(* of its own and podcasts that differ from it, or one of the older kind.  *)
(***************************************************************************)
EXTENDS IpodDb

Old == [id |-> 1000, song |-> "a"]
Master(items) == [id |-> MasterId, hidden |-> TRUE, items |-> items]
Mix(items) == [id |-> 502, hidden |-> FALSE, items |-> items]

ForeignDatabases ==
    {[tracks |-> <<Old>>, playlists |-> <<Master({Old}), Mix({Old})>>,
      podcasts |-> <<Master({})>>],
     [tracks |-> <<Old>>, playlists |-> <<Master({Old})>>, podcasts |-> NULL]}
=============================================================================
