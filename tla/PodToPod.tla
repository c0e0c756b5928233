------------------------------ MODULE PodToPod ------------------------------
(***************************************************************************)
(* The module as a whole: the status machine of RemoteIpod and the         *)
(* transfer engine of Transfer on one event loop, sharing rip_status and   *)
(* remote_ipod.  A poll can close the remote database while a list of its  *)
(* tracks, a Transfer menu or a running transfer still hold its address,   *)
(* and the end of a transfer sets the status whatever it has become.       *)
(***************************************************************************)
EXTENDS Integers, Sequences

CONSTANTS
    Handles, NULL,
    IpodBuild, CycleMenu, OtherUsers, PollErrors, MaxChildren,      \* RemoteIpod
    local_ipod, Tracks, Size, Length, Chunk, Selections, Failures, ModalTimers,  \* Transfer
    Unplugging   \* the cable may be pulled

\* The assumptions of the two parts, and the one constant more.
ASSUME PodToPodAssumption ==
    /\ NULL \notin Handles \cup {local_ipod} /\ local_ipod \notin Handles
    /\ {IpodBuild, CycleMenu, OtherUsers, PollErrors, ModalTimers, Unplugging} \subseteq BOOLEAN
    /\ MaxChildren \in Nat \ {0}
    /\ Size \in [Tracks -> Nat]
    /\ Length \in [Tracks -> Nat]
    /\ Chunk \in Nat \ {0}
    /\ Selections \subseteq Seq(Tracks)
    /\ Failures \subseteq {"malloc", "stat", "folders", "open", "read", "write", "flush", "mpd"}

VARIABLES
    attached, sbp2, mount, children, menus, rip_music, automount, eject_dialog,
    rip_status, remote_ipod,
    screen, songs, alt, list, cur_file, trans_list_src_ipod, trans_list_dst_ipod,
    total_files_transferred, total_bytes_transferred, file_bytes_transferred,
    dst_ipod_dirty, srcFile, dstFile, transfer_buffer, timer,
    db_dirty, mpd_dirty, mpd_behind, fault

R == INSTANCE RemoteIpod
T == INSTANCE Transfer

\* What only one of the two parts changes.
remoteVars == <<attached, sbp2, mount, children, menus, rip_music, automount, eject_dialog>>
transferVars ==
    <<screen, songs, list, cur_file, trans_list_src_ipod, trans_list_dst_ipod,
      total_files_transferred, total_bytes_transferred, file_bytes_transferred,
      dst_ipod_dirty, srcFile, dstFile, transfer_buffer, timer,
      mpd_dirty, mpd_behind, fault>>
vars == <<rip_status, remote_ipod, remoteVars, transferVars, alt, db_dirty>>

Init == R!Init /\ T!NothingTransferred

\* ipod_free() drops what was not flushed, and a Transfer menu over tracks of
\* the closed database keeps ids that another database may not know.
CloseDatabase ==
    IF remote_ipod # NULL /\ remote_ipod' = NULL
    THEN /\ db_dirty' = db_dirty \ {remote_ipod}
         /\ alt' = IF alt # NULL /\ alt.ipod = remote_ipod
                   THEN [alt EXCEPT !.sure = FALSE] ELSE alt
    ELSE UNCHANGED <<db_dirty, alt>>

RemoteStep == fault = "none" /\ CloseDatabase /\ UNCHANGED transferVars

\* The icon in the header polls under every window.
rip_icon_timer_handler == R!rip_icon_timer_handler /\ RemoteStep

\* Mutant: also from under a running transfer.
RemoteMenus_anywhere ==
    /\ \/ R!new_domount_window \/ R!new_dounmount_window
       \/ R!new_eject_window \/ R!do_eject_resume
       \/ R!new_cycle_status_window \/ R!ChangeSetting \/ R!settings_button
    /\ RemoteStep

\* The items of /Remote iPod and the settings are reached from the main menu.
RemoteMenus ==
    /\ screen = "main"
    /\ \/ R!new_domount_window \/ R!new_dounmount_window
       \/ R!new_eject_window \/ R!do_eject_resume
       \/ R!new_cycle_status_window \/ R!ChangeSetting \/ R!settings_button
    /\ RemoteStep

\* A copy in progress keeps its two files open, one of them on the remote
\* file system, which cannot be unmounted as long as they are.
Environment ==
    /\ R!Environment
    /\ ~attached' /\ attached => Unplugging
    /\ srcFile /\ mount # "no" => mount' # "no"
    /\ UNCHANGED <<transferVars, alt, db_dirty>>

\* The eject dialog is modal, and the program must not have crashed.
TransferMenus ==
    /\ ~eject_dialog
    /\ T!Menus \/ T!remove_tracks
    /\ UNCHANGED remoteVars

TransferWindow ==
    /\ T!draw_transfer_widget \/ T!menu_button \/ T!answer_dialog
    /\ UNCHANGED remoteVars

\* Mutant: nothing is done under another status.
timer_handler_transferring ==
    /\ rip_status = "transferring"
    /\ T!transfer_widget_timer_handler /\ UNCHANGED remoteVars

transfer_widget_timer_handler ==
    T!transfer_widget_timer_handler /\ UNCHANGED remoteVars

mpd_is_dirty == T!mpd_is_dirty /\ UNCHANGED remoteVars

Next ==
    \/ rip_icon_timer_handler
    \/ RemoteMenus
    \/ Environment
    \/ TransferMenus
    \/ TransferWindow
    \/ transfer_widget_timer_handler
    \/ mpd_is_dirty

\* The two timers keep firing while the program lives.
Fairness == WF_vars(rip_icon_timer_handler) /\ WF_vars(transfer_widget_timer_handler)

Spec == Init /\ [][Next]_vars
FairSpec == Spec /\ Fairness

-----------------------------------------------------------------------------
(* Properties                                                              *)

\* Whatever a transfer does to the status behind the status machine's back
\* (transfer.c:333, 433), no remote database stays open on an iPod that does
\* not count as mounted.
OpenOnlyWhileMounted == R!OpenOnlyWhileMounted

\* ... and an ejected iPod is not taken back before its cable was pulled: no
\* transfer is left that could end after the ejection.
EjectedUntilUnplugged == R!EjectedUntilUnplugged

\* However the remote iPod disappears, and whatever still points into its
\* database, no entry is written for a file that was not copied completely.
OnlyCompleteFilesAdded == T!OnlyCompleteFilesAdded

\* With the cable out for good the program always comes back to DISCONNECTED,
\* if it survives: the MOUNTED that a dying transfer leaves behind is noticed
\* too.  It need not stay there: as long as the dead mount is in the mount
\* table, a user who is quicker than the poll can reload the database of that
\* MOUNTED iPod with the settings menu and start the next transfer from it.
UnplugIsNoticed ==
    <>[](~attached) => []<>(rip_status = "disconnected" \/ fault # "none")

\* A device that stays connected and mounted is treated as mounted again and
\* again, unless it is ejected: the transfers that a user may start for ever end
\* in MOUNTED each.
MountIsNoticed ==
    <>[](attached /\ sbp2 /\ mount = "here")
        => []<>(rip_status \in {"mounted", "ejected"} \/ fault # "none")

\* A transfer comes to an end when its iPod goes away in the middle.
TransferEnds == T!TransferEnds

\* What the window on top works on has gone: the database of its tracks was
\* closed, or one opened since then has none of them.
LostDatabase ==
    \/ screen = "songs" /\ remote_ipod = NULL
    \/ screen = "alt" /\ ~T!Live(alt.ipod)
    \/ /\ screen \in {"transfer", "dialog"}
       /\ \/ list = <<>>
          \/ remote_ipod = NULL
          \/ remote_ipod \notin {trans_list_src_ipod, trans_list_dst_ipod}

\* Undefined behaviour needs a database lost under a window (or a system call
\* that fails where start_next_file() does not expect it): while both databases
\* stay open, the polls, the menus and the children of connect.c cannot bring
\* the transfer engine into a state it cannot handle.
FaultsNeedLostDatabase == [][fault = "none" /\ fault' # "none" => LostDatabase]_vars

\* What a lost database breaks is the copying, never the drawing or the abort
\* dialog: these two go by the status (transfer.c:264, 474), and as long as it
\* says TRANSFERRING, the databases whose address the window keeps are open.
\* The poll that closes one takes the status with it ("These are trouble",
\* podtopod.c:421-427), and while the window is up nothing sets TRANSFERRING
\* again, neither a poll that opens another database nor the debug item.
\* (The destination was NULL from the start if no database was open then.)
TransferringMeansOpen ==
    screen \in {"transfer", "dialog"} /\ rip_status = "transferring" =>
        /\ T!Live(trans_list_src_ipod)
        /\ trans_list_dst_ipod = NULL \/ T!Live(trans_list_dst_ipod)

\* "We don't write (flush) it yet, we'll do that after we transfer all the
\* files" (transfer.c:389-391): no local addition stays unwritten once the
\* transfer's timer is off.
AddedTracksAreSaved == T!Over => local_ipod \notin db_dirty
=============================================================================
