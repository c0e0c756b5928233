--------------------------- MODULE PodToPodProofs ---------------------------
(***************************************************************************)
(* The status machine and the transfer engine together: what was proved of *)
(* each alone is carried over to the two on one event loop, where a poll   *)
(* may close the remote database under any window and the end of a         *)
(* transfer sets the status.                                               *)
(***************************************************************************)
EXTENDS PodToPod, TLAPS

RP == INSTANCE RemoteIpodProofs
TP == INSTANCE TransferProofs

\* The assumptions of the parts are those of the whole.
LEMMA Assumptions == RP!RemoteIpodAssumption /\ TP!TransferAssumption
  BY PodToPodAssumption DEF RP!RemoteIpodAssumption, TP!TransferAssumption, TP!SystemCalls

-----------------------------------------------------------------------------
(* A step of the whole is one of a part                                    *)

\* R and RP are the same module.
LEMMA SameRemote ==
    /\ R!rip_icon_timer_handler <=> RP!rip_icon_timer_handler
    /\ R!Next <=> RP!Next
  BY DEF
     R!rip_icon_timer_handler, R!Next, R!PollDisconnected, R!PollLostConnection, R!PollMount,
     R!PollUnmount, R!kernelVars, R!settingVars, R!Handlers, R!Environment, R!DISCONNECTED,
     R!poll_connection, R!ipod_status_connected, R!ipod_status_disconnected, R!UNMOUNTED,
     R!poll_mount, R!ipod_status_mounted, R!MOUNTED, R!TRANSFERRING, R!ipod_status_unmounted,
     R!new_domount_window, R!new_dounmount_window, R!new_eject_window, R!do_eject_resume,
     R!new_cycle_status_window, R!ChangeSetting, R!settings_button, R!Attach, R!Detach,
     R!ChildExits, R!OtherMount, R!OtherUnmount, R!CanSpawn, R!Spawned, R!LeaveBus,
     R!load_rip_music, R!close_rip_music, R!MenuUsable, R!is_unmounted, R!statusVars,
     R!is_mounted, R!do_unmount, R!new_eject_window_ipod, R!new_eject_window_desktop,
     R!ipod_status_ejected, R!Exit, R!EJECTED, R!MenuGroups, R!is_connected,
     RP!rip_icon_timer_handler, RP!Next, RP!PollDisconnected, RP!PollLostConnection,
     RP!PollMount, RP!PollUnmount, RP!kernelVars, RP!settingVars, RP!Handlers, RP!Environment,
     RP!DISCONNECTED, RP!poll_connection, RP!ipod_status_connected,
     RP!ipod_status_disconnected, RP!UNMOUNTED, RP!poll_mount, RP!ipod_status_mounted,
     RP!MOUNTED, RP!TRANSFERRING, RP!ipod_status_unmounted, RP!new_domount_window,
     RP!new_dounmount_window, RP!new_eject_window, RP!do_eject_resume,
     RP!new_cycle_status_window, RP!ChangeSetting, RP!settings_button, RP!Attach, RP!Detach,
     RP!ChildExits, RP!OtherMount, RP!OtherUnmount, RP!CanSpawn, RP!Spawned, RP!LeaveBus,
     RP!load_rip_music, RP!close_rip_music, RP!MenuUsable, RP!is_unmounted, RP!statusVars,
     RP!is_mounted, RP!do_unmount, RP!new_eject_window_ipod, RP!new_eject_window_desktop,
     RP!ipod_status_ejected, RP!Exit, RP!EJECTED, RP!MenuGroups, RP!is_connected

\* T and TP are the same module.
LEMMA SameTransfer == T!Next <=> TP!Next
  BY DEF
     T!Next, T!Menus, T!transfer_widget_timer_handler, T!draw_transfer_widget, T!menu_button,
     T!answer_dialog, T!remove_tracks, T!mpd_is_dirty, T!open_music_menu, T!open_song,
     T!local_transfer_alt_menu, T!leave_menu, T!transfer_tracks, T!Fail, T!Cur,
     T!start_next_file_fails, T!Live, T!finish_after_abort, T!do_copy, T!UsesDestination,
     T!Dangling, T!menuVars, T!TRANSFERRING, T!filesize, T!total_bytes_is_0, T!listVars,
     T!transfer_list_reset, T!Back, T!countVars, T!streamVars, T!dbVars, T!transfer_finished,
     T!MayFail, T!transfer_alt_menu, T!FoundIn, T!transfer_list_of, T!start_copy,
     T!start_copy_no_buffer, T!abort_transfer, T!Started, T!bytesRead, T!copy_chunk,
     T!finish_file, T!flush_destination, T!MOUNTED, T!NewItem, T!Unread, T!FileDone, T!Written,
     T!Copied, T!WithEntry, T!MoreFiles, T!Dirtied, T!Saved, TP!Next, TP!Menus,
     TP!transfer_widget_timer_handler, TP!draw_transfer_widget, TP!menu_button,
     TP!answer_dialog, TP!remove_tracks, TP!mpd_is_dirty, TP!open_music_menu, TP!open_song,
     TP!local_transfer_alt_menu, TP!leave_menu, TP!transfer_tracks, TP!Fail, TP!Cur,
     TP!start_next_file_fails, TP!Live, TP!finish_after_abort, TP!do_copy, TP!UsesDestination,
     TP!Dangling, TP!menuVars, TP!TRANSFERRING, TP!filesize, TP!total_bytes_is_0, TP!listVars,
     TP!transfer_list_reset, TP!Back, TP!countVars, TP!streamVars, TP!dbVars,
     TP!transfer_finished, TP!MayFail, TP!transfer_alt_menu, TP!FoundIn, TP!transfer_list_of,
     TP!start_copy, TP!start_copy_no_buffer, TP!abort_transfer, TP!Started, TP!bytesRead,
     TP!copy_chunk, TP!finish_file, TP!flush_destination, TP!MOUNTED, TP!NewItem, TP!Unread,
     TP!FileDone, TP!Written, TP!Copied, TP!WithEntry, TP!MoreFiles, TP!Dirtied, TP!Saved

\* What the status machine does, from the main menu or by its poll.
RemotePart ==
    /\ RP!Next /\ RemoteStep
    /\ screen = "main" \/ RP!rip_icon_timer_handler

OutsidePart ==
    RP!Next /\ UNCHANGED <<rip_status, remote_ipod, transferVars, alt, db_dirty>>

TransferPart == TP!Next /\ fault = "none" /\ UNCHANGED remoteVars

\* Every step belongs to one of them.
LEMMA Parts == Next => RemotePart \/ OutsidePart \/ TransferPart
<1> SUFFICES ASSUME Next PROVE RemotePart \/ OutsidePart \/ TransferPart
  OBVIOUS
<1>1. CASE rip_icon_timer_handler \/ RemoteMenus
  <2>1. R!Next /\ RemoteStep /\ (screen = "main" \/ R!rip_icon_timer_handler)
    BY <1>1 DEF rip_icon_timer_handler, RemoteMenus, R!Next, R!Handlers
  <2> QED BY <2>1, SameRemote DEF RemotePart
<1>2. CASE Environment
  <2>1. R!Next
    BY <1>2 DEF Environment, R!Next
  <2>2. UNCHANGED <<rip_status, remote_ipod>>
    BY <1>2 DEF Environment, R!Environment, R!Attach, R!Detach, R!ChildExits, R!OtherMount,
                R!OtherUnmount, R!statusVars
  <2>3. UNCHANGED <<transferVars, alt, db_dirty>>
    BY <1>2 DEF Environment
  <2> QED BY <2>1, <2>2, <2>3, SameRemote DEF OutsidePart
<1>3. CASE TransferMenus \/ TransferWindow \/ transfer_widget_timer_handler \/ mpd_is_dirty
  <2>1. T!Next /\ UNCHANGED remoteVars
    BY <1>3 DEF TransferMenus, TransferWindow, transfer_widget_timer_handler, mpd_is_dirty, T!Next
  <2>2. fault = "none"
    BY <1>3 DEF TransferMenus, TransferWindow, transfer_widget_timer_handler, mpd_is_dirty,
                T!Menus, T!remove_tracks, T!draw_transfer_widget, T!menu_button,
                T!answer_dialog, T!transfer_widget_timer_handler, T!mpd_is_dirty
  <2> QED BY <2>1, <2>2, SameTransfer DEF TransferPart
<1> QED BY <1>1, <1>2, <1>3 DEF Next

\* The initial states are those of the parts.
LEMMA InitParts == Init => RP!Init /\ TP!NothingTransferred
  BY DEF Init, R!Init, RP!Init, T!NothingTransferred, TP!NothingTransferred, R!Programs, RP!Programs,
         R!DISCONNECTED, RP!DISCONNECTED

-----------------------------------------------------------------------------
(* The invariant                                                           *)

\* While it counts as ejected nothing is copied, nor can a copy be started.
EjectedIsQuiet == rip_status = "ejected" => TP!NothingToTransfer

PInv == TP!Inv /\ RP!HandleInv /\ TP!WindowsOnTop /\ EjectedIsQuiet

\* The names of the statuses.
LEMMA Names ==
    /\ RP!EJECTED = "ejected" /\ TP!MOUNTED = "mounted" /\ TP!TRANSFERRING = "transferring"
    /\ TP!Statuses = RP!Statuses
  BY DEF RP!EJECTED, RP!DISCONNECTED, RP!UNMOUNTED, RP!MOUNTED, RP!TRANSFERRING, RP!Statuses,
         TP!UNMOUNTED, TP!MOUNTED, TP!TRANSFERRING, TP!Statuses

\* A Transfer menu over a closed database is still the menu it was.
LEMMA MenuStays ==
    ASSUME TP!TypeOK, RemoteStep
    PROVE  /\ alt' \in TP!TransferMenu \cup {NULL} /\ db_dirty' \subseteq TP!Ipods
           /\ alt' # NULL => alt # NULL /\ alt'.item = alt.item
<1>1. alt \in TP!TransferMenu \cup {NULL} /\ db_dirty \subseteq TP!Ipods
  BY DEF TP!TypeOK
<1>2. CASE alt # NULL
  BY <1>1, <1>2 DEF RemoteStep, CloseDatabase, TP!TransferMenu
<1>3. CASE alt = NULL
  BY <1>1, <1>3 DEF RemoteStep, CloseDatabase
<1> QED BY <1>2, <1>3

\* The invariant of the transfer engine does not depend on the status machine.
LEMMA RemoteKeepsTransfer ==
    ASSUME TP!Inv, RP!HandleInv', RemoteStep
    PROVE  TP!Inv'
<1>1. UNCHANGED transferVars /\ remote_ipod' \in Handles \cup {NULL} /\ rip_status' \in TP!Statuses
  BY Names DEF RemoteStep, RP!HandleInv
<1>2. alt' \in TP!TransferMenu \cup {NULL} /\ db_dirty' \subseteq TP!Ipods
  BY MenuStays DEF TP!Inv
<1>3. TP!OtherOK
  BY Assumptions, TP!TypeParts DEF TP!TypeParts, TP!TransferAssumption, TP!Inv
<1>4. TP!OtherOK'
  BY <1>1, <1>2, <1>3 DEF TP!OtherOK, transferVars
<1>5. UNCHANGED <<TP!listVars, cur_file, timer>>
  BY <1>1 DEF transferVars, TP!listVars
<1> QED BY <1>4, <1>5, Assumptions, TP!Unchanged DEF TP!Unchanged, TP!TransferAssumption

\* The status machine ejects from the main menu only, with no window open.
LEMMA EjectedFromMain ==
    ASSUME RP!rip_icon_timer_handler
    PROVE  rip_status' \notin {"ejected", "transferring"}
  BY DEF RP!rip_icon_timer_handler, RP!PollDisconnected, RP!PollLostConnection, RP!PollMount,
         RP!PollUnmount, RP!ipod_status_connected, RP!ipod_status_disconnected, RP!LeaveBus,
         RP!ipod_status_mounted, RP!ipod_status_unmounted,
         RP!DISCONNECTED, RP!UNMOUNTED, RP!MOUNTED

\* A step of the status machine.
LEMMA RemotePartStep ==
    ASSUME PInv, RemotePart
    PROVE  PInv'
<1>1. RP!HandleInv'
  BY Assumptions, RP!HandleStep
     DEF PInv, RemotePart, RP!HandleStep, RP!RemoteIpodAssumption
<1>2. TP!Inv'
  BY <1>1, RemoteKeepsTransfer DEF PInv, RemotePart
<1>3. alt' # NULL => alt # NULL /\ alt'.item = alt.item
  BY MenuStays DEF PInv, TP!Inv, RemotePart
<1>4. timer' = timer /\ screen' = screen
  BY DEF RemotePart, RemoteStep, transferVars
<1>5. TP!WindowsOnTop'
  BY <1>3, <1>4 DEF PInv, TP!WindowsOnTop, TP!MenuOnTop, TP!WindowOpen
<1>6. EjectedIsQuiet'
  <2>1. CASE screen = "main"
    BY <1>3, <1>4, <2>1
       DEF PInv, EjectedIsQuiet, TP!NothingToTransfer, TP!WindowsOnTop, TP!MenuOnTop, TP!WindowOpen
  <2>2. CASE RP!rip_icon_timer_handler
    BY <2>2, EjectedFromMain DEF EjectedIsQuiet
  <2> QED BY <2>1, <2>2 DEF RemotePart
<1> QED BY <1>1, <1>2, <1>5, <1>6 DEF PInv

\* A step of the transfer engine.
LEMMA TransferPartStep ==
    ASSUME PInv, TransferPart
    PROVE  PInv'
<1>1. TP!Inv'
  BY Assumptions, TP!InvStep DEF PInv, TransferPart, TP!InvStep, TP!TransferAssumption
<1>2. /\ remote_ipod' = remote_ipod
      /\ rip_status' \in {rip_status, "mounted", "transferring"}
  BY Assumptions, Names, TP!StatusSet DEF TransferPart, TP!StatusSet, TP!TransferAssumption
<1>3. TP!WindowsOnTop'
  BY Assumptions, TP!WindowsStep DEF PInv, TransferPart, TP!WindowsStep, TP!TransferAssumption
<1>4. RP!HandleInv'
  BY <1>2 DEF PInv, RP!HandleInv, RP!OpenOnlyWhileMounted, RP!is_mounted, RP!Statuses, RP!MOUNTED,
              RP!TRANSFERRING
<1>5. EjectedIsQuiet'
  <2>1. CASE rip_status = "ejected"
    <3>1. remote_ipod = NULL
      BY <2>1 DEF PInv, RP!HandleInv, RP!OpenOnlyWhileMounted, RP!is_mounted, RP!MOUNTED,
                  RP!TRANSFERRING
    <3>2. TP!NothingToTransfer'
      BY <2>1, <3>1, Assumptions, TP!NothingStarts
         DEF PInv, EjectedIsQuiet, TransferPart, TP!NothingStarts, TP!TransferAssumption
    <3> QED BY <3>2 DEF EjectedIsQuiet
  <2>2. CASE rip_status # "ejected"
    BY <1>2, <2>2 DEF EjectedIsQuiet
  <2> QED BY <2>1, <2>2
<1> QED BY <1>1, <1>3, <1>4, <1>5 DEF PInv

\* Nothing else is looked at by the invariant.
LEMMA SameInv ==
    ASSUME PInv, UNCHANGED <<rip_status, remote_ipod, transferVars, alt, db_dirty>>
    PROVE  PInv'
<1>1. RP!HandleInv'
  BY DEF PInv, RP!HandleInv, RP!OpenOnlyWhileMounted, RP!is_mounted
<1>2. TP!Inv'
  <2>1. UNCHANGED TP!vars
    BY DEF transferVars, TP!vars, TP!menuVars, TP!listVars, TP!countVars, TP!streamVars, TP!dbVars
  <2> QED BY <2>1, Assumptions, TP!InvStep DEF PInv, TP!InvStep, TP!TransferAssumption
<1>3. timer' = timer /\ screen' = screen
  BY DEF transferVars
<1> QED BY <1>1, <1>2, <1>3 DEF PInv, TP!WindowsOnTop, TP!MenuOnTop, TP!WindowOpen, EjectedIsQuiet,
           TP!NothingToTransfer

\* The invariant of the whole.
LEMMA PodInit == Init => PInv
<1> SUFFICES ASSUME Init PROVE PInv
  OBVIOUS
<1>1. RP!Init /\ TP!NothingTransferred
  BY InitParts
<1>2. RP!HandleInv
  BY <1>1 DEF RP!Init, RP!HandleInv, RP!OpenOnlyWhileMounted, RP!Statuses
<1>3. TP!Inv
  BY <1>1, <1>2, Names, Assumptions, TP!NothingInv
     DEF RP!HandleInv, TP!NothingInv, TP!TransferAssumption
<1>4. rip_status # "ejected"
  BY <1>1 DEF RP!Init, RP!DISCONNECTED
<1> QED BY <1>1, <1>2, <1>3, <1>4
        DEF PInv, TP!NothingTransferred, TP!WindowsOnTop, TP!MenuOnTop, EjectedIsQuiet

\* It is inductive.
LEMMA PodStep == PInv /\ [Next]_vars => PInv'
  BY Parts, RemotePartStep, TransferPartStep, SameInv DEF OutsidePart, vars

-----------------------------------------------------------------------------
\* However the status machine and the transfer engine set the status they
\* share, no remote database is open unless the iPod counts as mounted: the
\* MOUNTED that the end of a transfer sets on a closed database opens none
\* (podtopod.c:581-602, transfer.c:333, 433).
THEOREM OpenIsMounted == Spec => []OpenOnlyWhileMounted
<1>1. PInv => OpenOnlyWhileMounted
  BY DEF PInv, RP!HandleInv, OpenOnlyWhileMounted, R!OpenOnlyWhileMounted, RP!OpenOnlyWhileMounted,
         R!is_mounted, RP!is_mounted, R!MOUNTED, RP!MOUNTED, R!TRANSFERRING, RP!TRANSFERRING
<1> QED BY <1>1, PodInit, PodStep, PTL DEF Spec

\* However the remote iPod disappears from under a transfer, no database gets
\* an entry for a file that is not complete (transfer.c:388-410, 494-510).
THEOREM NoPartialFileEither == Spec => []OnlyCompleteFilesAdded
<1>1. PInv => OnlyCompleteFilesAdded
  BY DEF PInv, TP!Inv, OnlyCompleteFilesAdded, T!OnlyCompleteFilesAdded, TP!OnlyCompleteFilesAdded
<1> QED BY <1>1, PodInit, PodStep, PTL DEF Spec

\* No transfer, answer or timer takes an ejected iPod back before its
\* connection was gone: nothing that sets the status is left when it is
\* ejected, and nothing can be started afterwards (podtopod.c:428-431).
THEOREM EjectedStaysEjected == Spec => EjectedUntilUnplugged
<1> DEFINE A == rip_status = R!EJECTED /\ rip_status' # R!EJECTED => ~(attached /\ sbp2)
<1>1. PInv /\ [Next]_vars => [A]_(R!vars)
  <2> SUFFICES ASSUME PInv, [Next]_vars, rip_status = "ejected", rip_status' # "ejected"
               PROVE  ~(attached /\ sbp2)
    BY DEF R!EJECTED
  <2>1. CASE TransferPart
    <3>1. remote_ipod = NULL
      BY DEF PInv, RP!HandleInv, RP!OpenOnlyWhileMounted, RP!is_mounted, RP!MOUNTED,
             RP!TRANSFERRING
    <3>2. rip_status' = rip_status
      BY <2>1, <3>1, Assumptions, TP!NothingStarts
         DEF PInv, EjectedIsQuiet, TransferPart, TP!NothingStarts, TP!TransferAssumption
    <3> QED BY <3>2
  <2>2. CASE RemotePart
    BY <2>2, Names, Assumptions, RP!EjectedStep
       DEF RemotePart, RP!EjectedStep, RP!RemoteIpodAssumption
  <2> QED BY <2>1, <2>2, Parts DEF OutsidePart, vars
<1> QED BY <1>1, PodInit, PodStep, PTL DEF Spec, EjectedUntilUnplugged, R!EjectedUntilUnplugged

\* While the status says TRANSFERRING, the databases that the window of a
\* transfer draws from and would flush are open, whoever closed or opened one
\* meanwhile (podtopod.c:421-427, transfer.c:264-275, 474).
THEOREM TransferringIsOpen == Spec => []TransferringMeansOpen
<1>1. Init => TP!WindowVouches
  BY InitParts DEF TP!NothingTransferred, TP!WindowVouches, TP!WindowOpen
<1>2. TP!WindowVouches /\ [Next]_vars => TP!WindowVouches'
  <2> SUFFICES ASSUME TP!WindowVouches, [Next]_vars PROVE TP!WindowVouches'
    OBVIOUS
  <2>1. CASE TransferPart
    BY <2>1, Assumptions, TP!VouchedStep DEF TransferPart, TP!VouchedStep, TP!TransferAssumption
  <2>2. CASE RemotePart
    <3>1. screen' = screen
      BY <2>2 DEF RemotePart, RemoteStep, transferVars
    <3>2. screen = "main" \/ rip_status' # "transferring"
      BY <2>2, EjectedFromMain DEF RemotePart
    <3> QED BY <3>1, <3>2 DEF TP!WindowVouches, TP!WindowOpen, TP!TRANSFERRING
  <2>3. CASE UNCHANGED <<rip_status, remote_ipod, transferVars, alt, db_dirty>>
    BY <2>3 DEF transferVars, TP!WindowVouches, TP!WindowOpen, TP!Live
  <2> QED BY <2>1, <2>2, <2>3, Parts DEF OutsidePart, vars
<1>3. TP!WindowVouches => TransferringMeansOpen
  BY DEF TP!WindowVouches, TP!WindowOpen, TP!TRANSFERRING, TransferringMeansOpen, TP!Live, T!Live
<1> QED BY <1>1, <1>2, <1>3, PTL DEF Spec

-----------------------------------------------------------------------------
(* Undefined behaviour                                                     *)

\* What keeps the engine sound while the database may be closed under it.
FInv == PInv /\ (fault = "none" => TP!SoundCore)

\* A poll does not make the window one of a transfer that is not running, and
\* the menus do not reach it.
LEMMA RemoteKeepsSound ==
    ASSUME PInv, TP!SoundCore, RemotePart
    PROVE  TP!SoundCore'
<1>1. alt' # NULL => alt # NULL
  BY MenuStays DEF PInv, TP!Inv, RemotePart
<1>2. UNCHANGED transferVars
  BY DEF RemotePart, RemoteStep
<1>3. TP!MenuOnTop'
  BY <1>1, <1>2 DEF TP!SoundCore, TP!MenuOnTop, transferVars
<1>4. TP!TimerCopies'
  BY <1>2 DEF TP!SoundCore, TP!TimerCopies, transferVars, TP!WindowOpen, TP!filesize, TP!Cur
<1>5. TP!WindowShowsTransfer'
  <2>1. CASE screen = "main"
    <3>1. ~TP!WindowOpen'
      BY <1>2, <2>1 DEF TP!WindowOpen, transferVars
    <3>2. screen' # "dialog"
      BY <1>2, <2>1 DEF transferVars
    <3> QED BY <3>1, <3>2 DEF TP!WindowShowsTransfer
  <2>2. CASE RP!rip_icon_timer_handler
    <3>1. rip_status' # TP!TRANSFERRING
      BY <2>2, EjectedFromMain, Names
    <3> QED BY <1>2, <3>1
            DEF TP!SoundCore, TP!WindowShowsTransfer, TP!WindowOpen, transferVars, TP!TRANSFERRING
  <2> QED BY <2>1, <2>2 DEF RemotePart
<1> QED BY <1>3, <1>4, <1>5 DEF TP!SoundCore

\* As long as the engine is sound, only a lost database breaks it.
LEMMA FaultStep ==
    ASSUME TP!SoundInputs, FInv, [Next]_vars
    PROVE  FInv' /\ [fault = "none" /\ fault' # "none" => LostDatabase]_vars
<1>1. PInv /\ PInv'
  BY PodStep DEF FInv
<1>2. CASE TransferPart
  <2>1. TP!SoundCore /\ TP!Inv
    BY <1>1, <1>2 DEF FInv, TransferPart, PInv
  <2>2. fault' = "none" => TP!SoundCore'
    BY <1>2, <2>1, Assumptions, TP!SoundStep
       DEF TransferPart, TP!SoundStep, TP!TransferAssumption
  <2>3. fault' # "none" => TP!Lost
    BY <1>2, <2>1, Assumptions, TP!FaultMeansLost
       DEF TransferPart, TP!FaultMeansLost, TP!TransferAssumption, TP!Inv
  <2>4. TP!Lost => LostDatabase
    BY DEF TP!Lost, LostDatabase, TP!Live, T!Live
  <2> QED BY <1>1, <2>2, <2>3, <2>4 DEF FInv
<1>3. CASE RemotePart
  <2>1. fault = "none" /\ fault' = fault
    BY <1>3 DEF RemotePart, RemoteStep, transferVars
  <2> QED BY <1>1, <1>3, <2>1, RemoteKeepsSound DEF FInv
<1>4. CASE UNCHANGED <<rip_status, remote_ipod, transferVars, alt, db_dirty>>
  BY <1>1, <1>4 DEF FInv, transferVars, TP!SoundCore, TP!MenuOnTop, TP!TimerCopies,
     TP!WindowShowsTransfer, TP!WindowOpen, TP!filesize, TP!Cur
<1> QED BY <1>2, <1>3, <1>4, Parts DEF OutsidePart, vars

\* With inputs the transfer engine can deal with, only a database that is lost
\* under a window brings it to undefined behaviour: polls, menus, children and
\* other processes do no harm while both databases stay open (podtopod.c:401-435,
\* song.c:28-40, transfer.c:286-345, 475-561).
THEOREM OnlyLossFaults == TP!SoundInputs => (Spec => FaultsNeedLostDatabase)
<1> SUFFICES ASSUME TP!SoundInputs PROVE Spec => FaultsNeedLostDatabase
  OBVIOUS
<1>1. Init => FInv
  <2> SUFFICES ASSUME Init PROVE TP!SoundCore
    BY PodInit DEF FInv
  <2> QED BY InitParts DEF TP!NothingTransferred, TP!SoundCore, TP!MenuOnTop, TP!TimerCopies,
             TP!WindowShowsTransfer, TP!WindowOpen
<1>2. FInv /\ [Next]_vars => FInv' /\ [fault = "none" /\ fault' # "none" => LostDatabase]_vars
  BY FaultStep
<1> QED BY <1>1, <1>2, PTL DEF Spec, FaultsNeedLostDatabase
=============================================================================
