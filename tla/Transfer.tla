------------------------------ MODULE Transfer ------------------------------
(***************************************************************************)
(* Copying and removing tracks: the Transfer menu of podtopod.c and the    *)
(* transfer engine of transfer.c, which moves one chunk per timer tick and *)
(* writes the destination's database when the last file is done.           *)
(*                                                                         *)
(* A file is its length in bytes: copying is modelled by how many bytes of *)
(* it are where.  Undefined behaviour ends a behaviour of the model: the   *)
(* step that reaches it sets "fault", and where the build may also get     *)
(* away with it (freed memory that was not reused, a division by zero that *)
(* does not trap) the step has that outcome as well.                       *)
(***************************************************************************)
EXTENDS Integers, Sequences

CONSTANTS
    Handles,     \* addresses of opened remote databases
    NULL,
    local_ipod,  \* its database is open as long as the program runs
    Tracks,      \* the tracks of the two iPods
    Size,        \* IPOD_TRACK_SIZE of a track, from the source's database
    Length,      \* the length of its file on disk
    Chunk,       \* BUFFER_SIZE
    Selections,  \* the track lists the music menus can hand over
    Failures,    \* which system calls may fail
    ModalTimers  \* timers run while a pz_dialog() is up

SystemCalls == {"malloc", "stat", "folders", "open", "read", "write", "flush", "mpd"}

ASSUME TransferAssumption ==
    /\ NULL \notin Handles \cup {local_ipod} /\ local_ipod \notin Handles
    /\ Size \in [Tracks -> Nat]
    /\ Length \in [Tracks -> Nat]
    /\ Chunk \in Nat \ {0}
    /\ Selections \subseteq Seq(Tracks)
    /\ Failures \subseteq SystemCalls
    /\ ModalTimers \in BOOLEAN

VARIABLES
    rip_status, remote_ipod,  \* shared with RemoteIpod
    screen,      \* the window on top
    songs,       \* a list of remote music is open, on top or below
    alt,         \* the track_list of the open Transfer menu
    list,        \* trans_list_head .. trans_list_tail
    cur_file,    \* index of the item being copied, 0 for NULL
    trans_list_src_ipod, trans_list_dst_ipod,
    total_files_transferred, total_bytes_transferred, file_bytes_transferred,
    dst_ipod_dirty,
    srcFile, dstFile,  \* whether the two streams are open
    transfer_buffer,   \* "null", "live" or "freed"
    timer,       \* the transfer widget's timer is set
    db_dirty,    \* open databases with changes that are not on disk
    mpd_dirty,
    mpd_behind,  \* the local music changed and mpd was not told yet
    fault        \* "none", or the undefined behaviour the program ran into

menuVars == <<screen, songs, alt>>
listVars == <<list, trans_list_src_ipod, trans_list_dst_ipod>>
countVars == <<total_files_transferred, total_bytes_transferred, file_bytes_transferred>>
streamVars == <<srcFile, dstFile, transfer_buffer>>
dbVars == <<db_dirty, mpd_dirty, mpd_behind>>
vars == <<rip_status, remote_ipod, menuVars, listVars, cur_file, countVars,
          dst_ipod_dirty, streamVars, timer, dbVars, fault>>

UNMOUNTED    == "unmounted"
MOUNTED      == "mounted"
TRANSFERRING == "transferring"
Statuses == {"disconnected", UNMOUNTED, MOUNTED, TRANSFERRING, "ejected"}
Faults == {"none", "null", "stale", "zero", "double_free"}
Ipods == Handles \cup {local_ipod}

\* "named": dst_filename was chosen.  What the item has come to on the
\* destination: "written" bytes in its file there, and its database "entry".
Items == [track : Tracks, named : BOOLEAN, written : Nat,
          entry : {"none", "added", "saved"}]

\* The Transfer menu: its track list, whether it has the item "Transfer", and
\* whether the database the ids are from is still the one they came from.
TransferMenu == [ipod : Ipods, ids : Seq(Tracks), item : BOOLEAN, sure : BOOLEAN]

TypeOK ==
    /\ rip_status \in Statuses
    /\ remote_ipod \in Handles \cup {NULL}
    /\ screen \in {"main", "songs", "alt", "transfer", "dialog"}
    /\ songs \in BOOLEAN
    /\ alt \in TransferMenu \cup {NULL}
    /\ list \in Seq(Items)
    /\ cur_file \in 0..Len(list)
    /\ trans_list_src_ipod \in Ipods \cup {NULL}
    /\ trans_list_dst_ipod \in Ipods \cup {NULL}
    /\ total_files_transferred \in Nat
    /\ total_bytes_transferred \in Nat
    /\ file_bytes_transferred \in Nat
    /\ dst_ipod_dirty \in BOOLEAN
    /\ srcFile \in BOOLEAN /\ dstFile \in BOOLEAN
    /\ transfer_buffer \in {"null", "live", "freed"}
    /\ timer \in BOOLEAN
    /\ db_dirty \subseteq Ipods
    /\ mpd_dirty \in BOOLEAN /\ mpd_behind \in BOOLEAN
    /\ fault \in Faults

Live(h) == h = local_ipod \/ (h # NULL /\ h = remote_ipod)
Dangling(h) == h # NULL /\ ~Live(h)

Cur == list[cur_file]
filesize == Size[Cur.track]
total_bytes_is_0 == \A i \in DOMAIN list : Size[list[i].track] = 0

MayFail(call) == call \in Failures

\* The process dies of undefined behaviour; what it had in memory is gone.
Fail(kind) ==
    /\ fault' = kind
    /\ UNCHANGED <<rip_status, remote_ipod, menuVars, listVars, cur_file, countVars,
                   dst_ipod_dirty, streamVars, timer, dbVars>>

-----------------------------------------------------------------------------
(* The Transfer menu (podtopod.c, song.c, artist.c, album.c)               *)

Back == IF songs THEN "songs" ELSE "main"

\* new_pp_song_menu() and its siblings, under /Remote iPod/Music.
open_music_menu ==
    /\ screen = "main" /\ remote_ipod # NULL
    /\ screen' = "songs" /\ songs' = TRUE
    /\ UNCHANGED <<rip_status, remote_ipod, alt, listVars, cur_file, countVars,
                   dst_ipod_dirty, streamVars, timer, dbVars, fault>>

transfer_alt_menu(ipod) ==
    /\ \E ids \in Selections :
          alt' = [ipod |-> ipod, ids |-> ids, item |-> remote_ipod # NULL, sure |-> TRUE]
    /\ screen' = "alt"
    /\ UNCHANGED <<rip_status, remote_ipod, songs, listVars, cur_file, countVars,
                   dst_ipod_dirty, streamVars, timer, dbVars, fault>>

\* open_song() and the held handlers: the search runs on whatever remote_ipod
\* is now, and its NULL result for a closed one is dereferenced.
open_song ==
    /\ screen = "songs"
    /\ IF remote_ipod = NULL THEN Fail("null") ELSE transfer_alt_menu(remote_ipod)

\* The same menu opened by mpd's browser on the local music.
local_transfer_alt_menu == screen = "main" /\ transfer_alt_menu(local_ipod)

leave_menu ==
    /\ \/ screen = "alt" /\ screen' = Back /\ alt' = NULL /\ UNCHANGED songs
       \/ screen = "songs" /\ screen' = "main" /\ songs' = FALSE /\ UNCHANGED alt
    /\ UNCHANGED <<rip_status, remote_ipod, listVars, cur_file, countVars,
                   dst_ipod_dirty, streamVars, timer, dbVars, fault>>

-----------------------------------------------------------------------------
(* Starting a transfer                                                     *)

NewItem(t) == [track |-> t, named |-> FALSE, written |-> 0, entry |-> "none"]

\* transfer_list_add_track(): ids of a database that was closed in between
\* may not be found in the one that is open now, and are skipped.  A member is
\* the positions of those that are found, in order.
FoundIn(ids, sure) ==
    {f \in UNION {[1..n -> DOMAIN ids] : n \in 0..Len(ids)} :
        /\ \A i, j \in DOMAIN f : i < j => f[i] < f[j]
        /\ sure => Len(f) = Len(ids)}

transfer_list_of(ids, f) == [i \in DOMAIN f |-> NewItem(ids[f[i]])]

\* Mutant: cur_file is left as transfer_list_reset() left it.
start_copy_nowhere ==
    /\ transfer_buffer' = "live"
    /\ dst_ipod_dirty' = FALSE
    /\ total_files_transferred' = 0
    /\ total_bytes_transferred' = 0
    /\ file_bytes_transferred' = 0
    /\ cur_file' = 0
    /\ rip_status' = TRANSFERRING

\* Mutant: the counters of the last transfer stay.
start_copy_keeps_counts ==
    /\ transfer_buffer' = "live"
    /\ dst_ipod_dirty' = FALSE
    /\ UNCHANGED countVars
    /\ cur_file' = IF list' = <<>> THEN 0 ELSE 1
    /\ rip_status' = TRANSFERRING

start_copy ==
    /\ transfer_buffer' = "live"
    /\ dst_ipod_dirty' = FALSE
    /\ total_files_transferred' = 0
    /\ total_bytes_transferred' = 0
    /\ file_bytes_transferred' = 0
    /\ cur_file' = IF list' = <<>> THEN 0 ELSE 1
    /\ rip_status' = TRANSFERRING

start_copy_no_buffer ==
    /\ MayFail("malloc")
    /\ transfer_buffer' = "null"
    /\ cur_file' = 0
    /\ UNCHANGED <<dst_ipod_dirty, countVars, rip_status>>

\* The destination is the other iPod, as far as it is open at this moment.
transfer_tracks ==
    /\ alt # NULL /\ alt.item
    /\ Live(alt.ipod)
    /\ trans_list_src_ipod' = alt.ipod
    /\ trans_list_dst_ipod' = IF alt.ipod = local_ipod THEN remote_ipod ELSE local_ipod
    /\ \E f \in FoundIn(alt.ids, alt.sure) : list' = transfer_list_of(alt.ids, f)
    /\ screen' = "transfer" /\ timer' = TRUE
    /\ alt' = NULL
    /\ start_copy \/ start_copy_no_buffer
    /\ UNCHANGED <<remote_ipod, songs, srcFile, dstFile, dbVars, fault>>

-----------------------------------------------------------------------------
(* Copying.  The timer handler runs start_next_file(), do_copy(),          *)
(* finish_file() and transfer_finished() in one go, so these operators say *)
(* what they leave, given the list "items" that the handler has so far.    *)

Saved(items) ==
    [i \in DOMAIN items |->
        IF items[i].entry = "added" THEN [items[i] EXCEPT !.entry = "saved"] ELSE items[i]]

\* Mutant: mpd is not told.
flush_silently(items, dirty, dbs) ==
    /\ UNCHANGED mpd_dirty
    /\ IF dirty /\ Live(trans_list_dst_ipod)
       THEN list' = Saved(items) /\ db_dirty' = dbs \ {trans_list_dst_ipod}
       ELSE list' = items /\ db_dirty' = dbs

\* ipod_flush() of the destination: a closed one looks empty and is left alone,
\* and one whose file cannot be opened counts as written all the same.
flush_destination(items, dirty, dbs) ==
    IF dirty /\ Live(trans_list_dst_ipod)
    THEN /\ list' = Saved(items) \/ (MayFail("flush") /\ list' = items)
         /\ db_dirty' = dbs \ {trans_list_dst_ipod}
         /\ mpd_dirty' = (mpd_dirty \/ trans_list_dst_ipod = local_ipod)
    ELSE /\ list' = items
         /\ db_dirty' = dbs
         /\ UNCHANGED mpd_dirty

\* Mutant: the streams stay open.
transfer_finished_open(items, dirty, dbs) ==
    /\ transfer_buffer' = "freed"
    /\ UNCHANGED <<srcFile, dstFile>>
    /\ flush_destination(items, dirty, dbs)
    /\ rip_status' = MOUNTED
    /\ timer' = FALSE

transfer_finished(items, dirty, dbs) ==
    /\ transfer_buffer' = "freed"
    /\ srcFile' = FALSE /\ dstFile' = FALSE
    /\ flush_destination(items, dirty, dbs)
    /\ rip_status' = MOUNTED
    /\ timer' = FALSE

\* The item whose next chunk is copied: start_next_file() has named it.
Started(items) == [items EXCEPT ![cur_file].named = TRUE]

Written(items, n) == [Started(items) EXCEPT ![cur_file].written = n]

Copied(n) == file_bytes_transferred + n

\* Mutant: >= for ==.
FileDone_at_least(n) == Copied(n) >= filesize

FileDone(n) == Copied(n) = filesize

\* Mutant: one file too many.
MoreFiles_one == cur_file <= Len(list)

MoreFiles == cur_file < Len(list)

\* A tick that copies a chunk and more is to come from the same file.
copy_chunk(n) ==
    /\ ~FileDone(n)
    /\ list' = Written(list, Copied(n))
    /\ file_bytes_transferred' = Copied(n)
    /\ total_bytes_transferred' = total_bytes_transferred + n
    /\ srcFile' = TRUE /\ dstFile' = TRUE
    /\ UNCHANGED <<rip_status, cur_file, total_files_transferred, dst_ipod_dirty,
                   transfer_buffer, timer, dbVars>>

\* Mutant: the track is copied but never added.
WithoutEntry(items) == items

\* finish_file(): a closed destination has no track list to add to.
WithEntry(items) ==
    IF Live(trans_list_dst_ipod) THEN [items EXCEPT ![cur_file].entry = "added"] ELSE items

Dirtied == db_dirty \cup (IF Live(trans_list_dst_ipod) THEN {trans_list_dst_ipod} ELSE {})

\* A tick that copies the last chunk of a file, and maybe ends the transfer.
finish_file(n) ==
    LET items == WithEntry(Written(list, Copied(n)))
    IN  /\ FileDone(n)
        /\ dst_ipod_dirty' = TRUE
        /\ total_files_transferred' = total_files_transferred + 1
        /\ total_bytes_transferred' = total_bytes_transferred + n
        /\ file_bytes_transferred' = 0
        /\ mpd_behind' = (mpd_behind \/ trans_list_dst_ipod = local_ipod)
        /\ IF MoreFiles
           THEN /\ cur_file' = cur_file + 1
                /\ list' = items
                /\ db_dirty' = Dirtied
                /\ srcFile' = FALSE /\ dstFile' = FALSE
                /\ UNCHANGED <<rip_status, transfer_buffer, timer, mpd_dirty>>
           ELSE /\ cur_file' = 0
                /\ transfer_finished(items, TRUE, Dirtied)

\* Mutants: nothing is flushed; no item is current any more; the track is added.
abort_unflushed(items) ==
    /\ transfer_finished(items, FALSE, db_dirty)
    /\ UNCHANGED <<cur_file, countVars, dst_ipod_dirty, mpd_behind>>

abort_at_none(items) ==
    /\ transfer_finished(items, dst_ipod_dirty, db_dirty)
    /\ cur_file' = 0
    /\ UNCHANGED <<countVars, dst_ipod_dirty, mpd_behind>>

abort_keeps_track(items) ==
    /\ transfer_finished(WithEntry(items), TRUE, Dirtied)
    /\ UNCHANGED <<cur_file, countVars, dst_ipod_dirty, mpd_behind>>

\* A read or write that fails, or a read at the end of the file, aborts.
abort_transfer(items) ==
    /\ transfer_finished(items, dst_ipod_dirty, db_dirty)
    /\ UNCHANGED <<cur_file, countVars, dst_ipod_dirty, mpd_behind>>

Unread == Length[Cur.track] - file_bytes_transferred
bytesRead == IF Unread < Chunk THEN Unread ELSE Chunk

\* Mutant: what fread() and fwrite() return is not looked at.
do_copy_unchecked == copy_chunk(bytesRead) \/ finish_file(bytesRead)

do_copy ==
    \/ bytesRead > 0 /\ (copy_chunk(bytesRead) \/ finish_file(bytesRead))
    \/ /\ bytesRead <= 0 \/ MayFail("read") \/ MayFail("write")
       /\ filesize # file_bytes_transferred
       /\ abort_transfer(Started(list))

\* An empty file of a track of size 0: the aborted copy counts as finished,
\* and finish_file() closes streams that transfer_finished() has closed.
finish_after_abort ==
    /\ bytesRead <= 0 \/ MayFail("read") \/ MayFail("write")
    /\ filesize = file_bytes_transferred
    /\ abort_transfer(Started(list))
    /\ fault' = "null"

\* start_next_file() fails, and the timer handler goes on to do_copy() with no
\* stream open (or with those of an earlier transfer that was closed midway).
start_next_file_fails ==
    \/ /\ MayFail("stat")
       /\ Fail(IF srcFile THEN "stale" ELSE "null")
    \/ /\ ~Live(trans_list_dst_ipod)
       /\ Fail(IF trans_list_dst_ipod = NULL THEN "null" ELSE "stale")
    \/ /\ MayFail("folders")
       /\ Fail("zero")
    \/ /\ MayFail("open") /\ Live(trans_list_dst_ipod)
       /\ abort_transfer(Started(list))
       /\ fault' = "null"
       /\ UNCHANGED <<remote_ipod, menuVars, trans_list_src_ipod, trans_list_dst_ipod>>

\* The step adds a track to the destination's database or writes it to disk.
UsesDestination == cur_file' # cur_file \/ (~timer' /\ dst_ipod_dirty')

transfer_widget_timer_handler ==
    /\ fault = "none"
    /\ timer
    /\ screen = "transfer" \/ (ModalTimers /\ screen = "dialog")
    /\ \/ cur_file = 0 /\ Fail("null")
       \/ cur_file # 0 /\ ~Cur.named /\ start_next_file_fails
       \/ /\ cur_file # 0
          /\ Cur.named \/ Live(trans_list_dst_ipod)
          /\ \/ finish_after_abort
             \/ do_copy /\ UNCHANGED fault
             \/ do_copy /\ UsesDestination /\ Dangling(trans_list_dst_ipod) /\ fault' = "stale"
          /\ UNCHANGED <<remote_ipod, menuVars, trans_list_src_ipod, trans_list_dst_ipod>>

-----------------------------------------------------------------------------
(* The transfer window                                                     *)

\* draw_transfer_widget() changes nothing, but reads the current item, asks
\* the source's database for its names and divides by the sizes.
draw_transfer_widget ==
    /\ fault = "none"
    /\ screen \in {"transfer", "dialog"}
    /\ \/ rip_status = TRANSFERRING /\ cur_file = 0 /\ Fail("null")
       \/ rip_status = TRANSFERRING /\ Dangling(trans_list_src_ipod) /\ Fail("stale")
       \/ rip_status = TRANSFERRING /\ cur_file # 0 /\ filesize = 0 /\ Fail("zero")
       \/ Len(list) > 1 /\ total_bytes_is_0 /\ Fail("zero")

transfer_list_reset ==
    /\ list' = <<>>
    /\ cur_file' = 0
    /\ trans_list_src_ipod' = NULL /\ trans_list_dst_ipod' = NULL

\* Mutant: it never asks.
menu_button_any_status ==
    /\ fault = "none"
    /\ screen = "transfer"
    /\ transfer_list_reset
    /\ screen' = Back
    /\ timer' = FALSE
    /\ UNCHANGED <<rip_status, remote_ipod, songs, alt, countVars, dst_ipod_dirty,
                   streamVars, dbVars, fault>>

\* The MENU button asks while transferring and closes the window otherwise;
\* with the window goes the timer, but no stream and no buffer.
menu_button ==
    /\ fault = "none"
    /\ screen = "transfer"
    /\ \/ /\ rip_status = TRANSFERRING
          /\ screen' = "dialog"
          /\ UNCHANGED <<listVars, cur_file, timer>>
       \/ /\ rip_status # TRANSFERRING
          /\ transfer_list_reset
          /\ screen' = Back
          /\ timer' = FALSE
    /\ UNCHANGED <<rip_status, remote_ipod, songs, alt, countVars, dst_ipod_dirty,
                   streamVars, dbVars, fault>>

\* "Really abort transfer?": a Yes aborts whatever is going on by then.
answer_dialog ==
    /\ fault = "none"
    /\ screen = "dialog" /\ screen' = "transfer"
    /\ \/ UNCHANGED <<rip_status, list, streamVars, timer, dbVars, fault>>
       \/ /\ transfer_finished(list, dst_ipod_dirty, db_dirty)
          /\ UNCHANGED mpd_behind
          /\ fault' \in {"none"}
                \cup (IF transfer_buffer = "freed" THEN {"double_free"} ELSE {})
                \cup (IF dst_ipod_dirty /\ Dangling(trans_list_dst_ipod) THEN {"stale"} ELSE {})
    /\ UNCHANGED <<remote_ipod, songs, alt, trans_list_src_ipod, trans_list_dst_ipod,
                   cur_file, countVars, dst_ipod_dirty>>

-----------------------------------------------------------------------------
(* Removing tracks, and telling mpd                                        *)

\* remove_tracks_do_delete(): deletes files, then writes the database.
remove_tracks ==
    /\ fault = "none"
    /\ alt # NULL
    /\ \/ /\ Live(alt.ipod)
          /\ db_dirty' = db_dirty \ {alt.ipod}
          /\ mpd_dirty' = (mpd_dirty \/ alt.ipod = local_ipod)
          /\ mpd_behind' = (mpd_behind \/ (alt.ipod = local_ipod /\ alt.ids # <<>>))
          /\ screen' = "main" /\ songs' = FALSE /\ alt' = NULL
          /\ UNCHANGED fault
       \/ /\ Dangling(alt.ipod)
          /\ screen' = "main" /\ songs' = FALSE /\ alt' = NULL
          /\ UNCHANGED dbVars
          /\ fault' \in {"none", "stale"}
    /\ UNCHANGED <<rip_status, remote_ipod, listVars, cur_file, countVars,
                   dst_ipod_dirty, streamVars, timer>>

\* mpdc_tickle() of the patched mpd client takes the flag and sends an update,
\* which fails without a word when mpd cannot be reached.
mpd_is_dirty ==
    /\ fault = "none"
    /\ mpd_dirty /\ mpd_dirty' = FALSE
    /\ \/ mpd_behind' = FALSE
       \/ MayFail("mpd") /\ UNCHANGED mpd_behind
    /\ UNCHANGED <<rip_status, remote_ipod, menuVars, listVars, cur_file, countVars,
                   dst_ipod_dirty, streamVars, timer, db_dirty, fault>>

-----------------------------------------------------------------------------
NothingTransferred ==
    /\ screen = "main" /\ songs = FALSE /\ alt = NULL
    /\ list = <<>> /\ cur_file = 0
    /\ trans_list_src_ipod = NULL /\ trans_list_dst_ipod = NULL
    /\ total_files_transferred = 0
    /\ total_bytes_transferred = 0
    /\ file_bytes_transferred = 0
    /\ dst_ipod_dirty = FALSE
    /\ srcFile = FALSE /\ dstFile = FALSE /\ transfer_buffer = "null"
    /\ timer = FALSE
    /\ db_dirty = {}
    /\ mpd_dirty = FALSE /\ mpd_behind = FALSE
    /\ fault = "none"

\* Alone, without RemoteIpod: the remote database has been opened, or not.
Init ==
    /\ rip_status = MOUNTED
    /\ remote_ipod \in Handles \cup {NULL}
    /\ NothingTransferred

Menus ==
    /\ fault = "none"
    /\ open_music_menu \/ open_song \/ local_transfer_alt_menu \/ leave_menu \/ transfer_tracks

Next ==
    \/ Menus
    \/ transfer_widget_timer_handler
    \/ draw_transfer_widget
    \/ menu_button
    \/ answer_dialog
    \/ remove_tracks
    \/ mpd_is_dirty

\* The widget's 1 ms timer keeps firing while it is set.
Fairness == WF_vars(transfer_widget_timer_handler)

Spec == Init /\ [][Next]_vars
FairSpec == Spec /\ Fairness

-----------------------------------------------------------------------------
(* Properties                                                              *)

Running == timer /\ fault = "none"
Over == ~timer /\ fault = "none"

\* A track enters the destination's database only when its file has the size
\* the database will state, all of it written (transfer.c:503, 388-398): no
\* way of failing or aborting leaves an entry for a partial file, and none a
\* complete file of the finished part of the list without its entry.
OnlyCompleteFilesAdded ==
    \A i \in DOMAIN list :
        list[i].entry # "none" => list[i].named /\ list[i].written = Size[list[i].track]

\* The list is worked off in order: before the current item everything is in
\* the database, behind it nothing is begun.
DoneUpToCurrent ==
    Running /\ cur_file # 0 =>
        \A i \in DOMAIN list :
            /\ i < cur_file <=> list[i].entry # "none"
            /\ i > cur_file => list[i] = NewItem(list[i].track)

\* The numbers on the screen ("File 2 of 5", transfer.c:297-299) agree with
\* the files at the destination.
CountersAgree ==
    Running /\ cur_file # 0 =>
        /\ total_files_transferred = cur_file - 1
        /\ file_bytes_transferred = Cur.written
        /\ srcFile = Cur.named

\* The engine copies through open streams and a live buffer, and leaves none
\* behind: they live exactly as long as the timer (transfer.c:321, 413-424).
StreamsFollowTimer ==
    /\ Running /\ cur_file # 0 =>
          transfer_buffer = "live" /\ srcFile = Cur.named /\ dstFile = Cur.named
    /\ Over => transfer_buffer # "live" /\ ~srcFile /\ ~dstFile

\* When a transfer is over, by completion or abort, what it added to the
\* destination's database is on disk ("we'll do that after we transfer all
\* the files", transfer.c:389-391).
AddedTracksAreSaved ==
    Over => db_dirty = {} /\ \A i \in DOMAIN list : list[i].entry # "added"

\* "Transfer Completed" is shown only for a list that is completely copied
\* and saved, "Transfer Aborted" for every other one (transfer.c:286-289).
CompletedMeansCopied ==
    Over /\ screen = "transfer" =>
        (cur_file = 0 <=> \A i \in DOMAIN list : list[i].entry = "saved")

\* Whenever no transfer runs, mpd is up to date with the local music or the
\* flag that makes it catch up is set (podtopod.c:56-64, transfer.c:429).
MpdWillCatchUp == Over /\ mpd_behind => mpd_dirty

\* The transfer engine runs into no undefined behaviour.
NoFault == fault = "none"

\* The transfer engine implements Batch: no matter where an abort, a failure or
\* a modal dialog cuts in, tracks enter the database in order and are saved all
\* at once when the transfer ends, and no list is dropped with unsaved entries.
B == INSTANCE Batch WITH
        batch <- [i \in DOMAIN list |-> [track |-> list[i].track, entry |-> list[i].entry]],
        phase <- IF timer THEN "running"
                 ELSE IF trans_list_src_ipod = NULL THEN "idle" ELSE "over"

ImplementsBatch == B!Spec

\* A started transfer comes to an end, whatever the sizes of the files.
TransferEnds == timer ~> (~timer \/ fault # "none")
=============================================================================
