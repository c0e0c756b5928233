----------------------------- MODULE RemoteIpod -----------------------------
(***************************************************************************)
(* The remote iPod as podtopod sees it: the status machine of podtopod.c,  *)
(* the menus and the database handle that follow it, the polls and child   *)
(* processes of connect.c, and the Firewire bus and kernel mount table     *)
(* they observe.                                                           *)
(*                                                                         *)
(* Everything in the program runs on one event loop, so a handler is one   *)
(* action.  What is concurrent is the rest of the machine: the cable, the  *)
(* mount table, and the mount, umount, eject, rmmod and modprobe processes *)
(* that connect.c starts with vfork() and never waits for.                 *)
(***************************************************************************)
EXTENDS Integers

CONSTANTS
    Handles,     \* addresses the allocator can give an opened remote database
    NULL,        \* the null pointer
    IpodBuild,   \* #ifdef IPOD: the program runs on an iPod, not on a desktop
    CycleMenu,   \* the debug item /RiPDB/Cycle Status is used
    OtherUsers,  \* other processes mount and unmount the device too
    PollErrors,  \* reading /proc/scsi/scsi or /proc/mounts may fail
    MaxChildren  \* bound: running children of one kind

ASSUME RemoteIpodAssumption ==
    /\ NULL \notin Handles
    /\ {IpodBuild, CycleMenu, OtherUsers, PollErrors} \subseteq BOOLEAN
    /\ MaxChildren \in Nat \ {0}

VARIABLES
    attached,     \* an iPod is on the Firewire cable
    sbp2,         \* the kernel module that makes it a SCSI disk is loaded
    mount,        \* what /proc/mounts says of RIP_MOUNTDEVICE
    children,     \* running child processes, by program
    rip_status,
    remote_ipod,
    menus,        \* which of the two groups of menu items are installed
    rip_music,    \* setting "Read RIP Music"
    automount,    \* setting "Automount"
    eject_dialog  \* do_eject() waits in its modal dialog

kernelVars == <<attached, sbp2, mount>>
statusVars == <<rip_status, remote_ipod, menus>>
settingVars == <<rip_music, automount>>
vars == <<attached, sbp2, mount, children, rip_status, remote_ipod, menus,
          rip_music, automount, eject_dialog>>

DISCONNECTED == "disconnected"
UNMOUNTED    == "unmounted"
MOUNTED      == "mounted"
TRANSFERRING == "transferring"
EJECTED      == "ejected"
Statuses == {DISCONNECTED, UNMOUNTED, MOUNTED, TRANSFERRING, EJECTED}

Programs == {"mount", "umount", "eject", "rmmod", "modprobe"}

\* "remote" stands for /Remote iPod and the five items ipod_status_connected()
\* adds under it, "music" for /Remote iPod/Music and its four items.
MenuGroups == {"remote", "music"}

TypeOK ==
    /\ attached \in BOOLEAN
    /\ sbp2 \in BOOLEAN
    /\ mount \in {"no", "here", "elsewhere"}
    /\ children \in [Programs -> 0..MaxChildren]
    /\ rip_status \in Statuses
    /\ remote_ipod \in Handles \cup {NULL}
    /\ menus \subseteq MenuGroups
    /\ rip_music \in BOOLEAN
    /\ automount \in BOOLEAN
    /\ eject_dialog \in BOOLEAN

-----------------------------------------------------------------------------
(* connect.c                                                               *)

\* The values poll_connection() can return now.  Only the iPod build returns
\* -1 for an unreadable /proc/scsi/scsi, and its callers read it as a yes.  The
\* desktop build follows a null pointer if /sys/bus/scsi/devices cannot be opened,
\* and never closes it: neither is modelled.
poll_connection ==
    {IF attached /\ sbp2 THEN 1 ELSE 0}
        \cup (IF PollErrors /\ IpodBuild THEN {-1} ELSE {})

\* The values poll_mount() can return: 2 is a mount at the wrong place, -1 an
\* unreadable /proc/mounts, and the callers read both as a yes.
poll_mount ==
    {CASE mount = "no" -> 0 [] mount = "here" -> 1 [] mount = "elsewhere" -> 2}
        \cup (IF PollErrors THEN {-1} ELSE {})

CanSpawn(p) == children[p] < MaxChildren
Spawned(p) == [children EXCEPT ![p] = @ + 1]

\* vfork() and execl(): the parent goes on when the child has become umount.
do_unmount ==
    \E m \in poll_mount :
        IF m = 0 THEN children' = children
        ELSE CanSpawn("umount") /\ children' = Spawned("umount")

-----------------------------------------------------------------------------
(* Status transitions.  They nest (a connection may already be a mount, a  *)
(* disconnection unmounts first), so each takes what its caller did so far *)
(* or states the effect of the whole call.                                 *)

is_connected == rip_status \notin {DISCONNECTED, EJECTED}
is_mounted   == rip_status \in {MOUNTED, TRANSFERRING}
is_unmounted == rip_status = UNMOUNTED

\* The database is there to be found only if the device is mounted at
\* RIP_MOUNTPOINT; even then stat() may fail.
load_rip_music(items) ==
    \/ /\ menus' = items
       /\ UNCHANGED remote_ipod
    \/ /\ remote_ipod = NULL
       /\ mount = "here"
       /\ remote_ipod' \in Handles
       /\ menus' = items \cup {"music"}

\* Mutant: the Music items stay behind.
close_keeps_menu ==
    remote_ipod' = NULL /\ UNCHANGED menus

close_rip_music ==
    /\ remote_ipod' = NULL
    /\ menus' = IF remote_ipod = NULL THEN menus ELSE menus \ {"music"}

ipod_status_mounted(items) ==
    /\ rip_status' = MOUNTED
    /\ IF rip_music THEN load_rip_music(items)
       ELSE menus' = items /\ UNCHANGED remote_ipod

\* Mutant: the database stays open.
unmounted_keeps_database ==
    rip_status' = UNMOUNTED /\ UNCHANGED <<remote_ipod, menus>>

\* Mutant: a transfer in progress keeps its status.
unmounted_still_transferring ==
    /\ rip_status' = IF rip_status = TRANSFERRING THEN TRANSFERRING ELSE UNMOUNTED
    /\ close_rip_music

ipod_status_unmounted ==
    /\ rip_status' = UNMOUNTED
    /\ close_rip_music

\* With "Automount" a mount is started and the mount table polled again.  A
\* child that beats this second poll to it leads where one that finishes just
\* after it and the next tick lead; an error on the second poll is a "yes".
ipod_status_connected ==
    LET items == menus \cup {"remote"} IN
    \E m \in poll_mount :
        \/ /\ m # 0
           /\ ipod_status_mounted(items)
           /\ UNCHANGED children
        \/ /\ m = 0
           /\ rip_status' = UNMOUNTED
           /\ menus' = items
           /\ UNCHANGED remote_ipod
           /\ IF automount
              THEN CanSpawn("mount") /\ children' = Spawned("mount")
              ELSE UNCHANGED children
        \/ /\ m = 0
           /\ automount /\ CanSpawn("mount")
           /\ -1 \in poll_mount
           /\ ipod_status_mounted(items)
           /\ children' = Spawned("mount")

\* ipod_status_disconnected() as a whole, ending in status "final":
\* ipod_status_ejected() is the same call with one more assignment.
LeaveBus(final) ==
    /\ rip_status' = final
    /\ IF rip_status \in {UNMOUNTED, EJECTED}
       THEN /\ menus' = menus \ {"remote"}
            /\ UNCHANGED remote_ipod
       ELSE /\ menus' = menus \ (IF remote_ipod = NULL THEN {"remote"} ELSE MenuGroups)
            /\ remote_ipod' = NULL

ipod_status_disconnected == LeaveBus(DISCONNECTED)
\* Mutant: a status nobody tests for.
ejected_to_nowhere == LeaveBus("removed")

ipod_status_ejected == LeaveBus(EJECTED)

-----------------------------------------------------------------------------
(* Event handlers                                                          *)

\* rip_icon_timer_handler(): every 500 ms and on every redraw of the header.
PollDisconnected ==
    /\ rip_status = DISCONNECTED
    /\ \E c \in poll_connection : c # 0
    /\ ipod_status_connected

\* Mutant: EJECTED is forgotten.
PollLostConnection_unless_ejected ==
    /\ rip_status \in {UNMOUNTED, MOUNTED, TRANSFERRING}
    /\ 0 \in poll_connection
    /\ ipod_status_disconnected
    /\ UNCHANGED children

PollLostConnection ==
    /\ rip_status # DISCONNECTED
    /\ 0 \in poll_connection
    /\ ipod_status_disconnected
    /\ UNCHANGED children

\* Mutants: an ejected iPod is mounted again; the result of poll_mount() is
\* read as its comment has it (connect.c:158-162), 0 for mounted.
PollMount_ejected ==
    /\ rip_status \in {UNMOUNTED, EJECTED}
    /\ \E c \in poll_connection : c # 0
    /\ \E m \in poll_mount : m # 0
    /\ ipod_status_mounted(menus)
    /\ UNCHANGED children

PollMount_inverted ==
    /\ rip_status = UNMOUNTED
    /\ \E c \in poll_connection : c # 0
    /\ 0 \in poll_mount
    /\ ipod_status_mounted(menus)
    /\ UNCHANGED children

PollMount ==
    /\ rip_status = UNMOUNTED
    /\ \E c \in poll_connection : c # 0
    /\ \E m \in poll_mount : m # 0
    /\ ipod_status_mounted(menus)
    /\ UNCHANGED children

\* A transfer in progress gets no different treatment ("These are trouble").
PollUnmount ==
    /\ rip_status \in {MOUNTED, TRANSFERRING}
    /\ \E c \in poll_connection : c # 0
    /\ 0 \in poll_mount
    /\ ipod_status_unmounted
    /\ UNCHANGED children

rip_icon_timer_handler ==
    /\ PollDisconnected \/ PollLostConnection \/ PollMount \/ PollUnmount
    /\ UNCHANGED <<kernelVars, settingVars, eject_dialog>>

\* Items of /Remote iPod.
MenuUsable == "remote" \in menus /\ ~eject_dialog

new_domount_window ==
    /\ MenuUsable /\ is_unmounted
    /\ CanSpawn("mount") /\ children' = Spawned("mount")
    /\ UNCHANGED <<kernelVars, statusVars, settingVars, eject_dialog>>

new_dounmount_window ==
    /\ MenuUsable /\ is_mounted
    /\ do_unmount
    /\ UNCHANGED <<kernelVars, statusVars, settingVars, eject_dialog>>

\* On the iPod: the item shows only while unmounted, rmmod is started and a
\* dialog asks to pull the cable.  No status is MOUNTED then, so the call of
\* do_unmount() is dead.
new_eject_window_ipod ==
    /\ MenuUsable /\ is_unmounted
    /\ CanSpawn("rmmod") /\ children' = Spawned("rmmod")
    /\ eject_dialog' = TRUE
    /\ UNCHANGED <<kernelVars, statusVars, settingVars>>

\* The dialog is answered and do_eject() goes on, whatever happened meanwhile.
do_eject_resume ==
    /\ eject_dialog
    /\ eject_dialog' = FALSE
    /\ CanSpawn("modprobe") /\ children' = Spawned("modprobe")
    /\ ipod_status_ejected
    /\ UNCHANGED <<kernelVars, settingVars>>

new_eject_window_desktop ==
    /\ MenuUsable /\ is_connected
    /\ CanSpawn("eject") /\ CanSpawn("umount")
    /\ \E m \in poll_mount :
          children' = IF rip_status = MOUNTED /\ m # 0
                      THEN [Spawned("eject") EXCEPT !["umount"] = @ + 1]
                      ELSE Spawned("eject")
    /\ ipod_status_ejected
    /\ UNCHANGED <<kernelVars, settingVars, eject_dialog>>

new_eject_window == IF IpodBuild THEN new_eject_window_ipod ELSE new_eject_window_desktop

new_cycle_status_window ==
    /\ CycleMenu /\ ~eject_dialog
    /\ \/ /\ rip_status = DISCONNECTED
          /\ ipod_status_connected
       \/ /\ rip_status = UNMOUNTED
          /\ ipod_status_mounted(menus)
          /\ UNCHANGED children
       \/ /\ rip_status = MOUNTED
          /\ rip_status' = TRANSFERRING
          /\ UNCHANGED <<remote_ipod, menus, children>>
       \/ /\ rip_status = TRANSFERRING
          /\ ipod_status_disconnected
          /\ UNCHANGED children
    /\ UNCHANGED <<kernelVars, settingVars, eject_dialog>>

\* The settings menu changes a setting at once; leaving it with the MENU
\* button (settings_button) makes the database follow "Read RIP Music".
ChangeSetting ==
    /\ ~eject_dialog
    /\ \/ rip_music' = ~rip_music /\ UNCHANGED automount
       \/ automount' = ~automount /\ UNCHANGED rip_music
    /\ UNCHANGED <<kernelVars, statusVars, children, eject_dialog>>

settings_button ==
    /\ ~eject_dialog
    /\ rip_status = MOUNTED
    /\ \/ /\ rip_music /\ remote_ipod = NULL
          /\ load_rip_music(menus)
       \/ /\ ~rip_music /\ remote_ipod # NULL
          /\ close_rip_music
    /\ UNCHANGED <<rip_status, kernelVars, settingVars, children, eject_dialog>>

-----------------------------------------------------------------------------
(* The machine around the program                                          *)

Attach == /\ ~attached /\ attached' = TRUE
          /\ UNCHANGED <<sbp2, mount, children, statusVars, settingVars, eject_dialog>>

\* Pulling the cable takes the SCSI device away; the mount table keeps its
\* line until somebody unmounts it.
Detach == /\ attached /\ attached' = FALSE
          /\ UNCHANGED <<sbp2, mount, children, statusVars, settingVars, eject_dialog>>

Exit(p) == children[p] > 0 /\ children' = [children EXCEPT ![p] = @ - 1]

\* A child finishes, having done its work or failed (no device, busy, ...).
ChildExits ==
    /\ \/ /\ Exit("mount")
          /\ \/ /\ attached /\ sbp2 /\ mount = "no"
                /\ mount' = "here"
             \/ UNCHANGED mount
          /\ UNCHANGED sbp2
       \/ /\ Exit("umount") \/ Exit("eject")
          /\ mount' \in {mount, "no"}
          /\ UNCHANGED sbp2
       \/ /\ Exit("rmmod")
          /\ sbp2' \in IF mount = "no" THEN {sbp2, FALSE} ELSE {sbp2}
          /\ UNCHANGED mount
       \/ /\ Exit("modprobe")
          /\ sbp2' \in {sbp2, TRUE}
          /\ UNCHANGED mount
    /\ UNCHANGED <<attached, statusVars, settingVars, eject_dialog>>

OtherMount ==
    /\ OtherUsers
    /\ attached /\ sbp2 /\ mount = "no"
    /\ mount' \in {"here", "elsewhere"}
    /\ UNCHANGED <<attached, sbp2, children, statusVars, settingVars, eject_dialog>>

OtherUnmount ==
    /\ OtherUsers
    /\ mount # "no" /\ mount' = "no"
    /\ UNCHANGED <<attached, sbp2, children, statusVars, settingVars, eject_dialog>>

-----------------------------------------------------------------------------
\* init_podtopod(), with the cable and the mount table in any state.
Init ==
    /\ attached \in BOOLEAN
    /\ sbp2 = TRUE
    /\ mount \in {"no", "here", "elsewhere"}
    /\ mount = "no" \/ attached
    /\ children = [p \in Programs |-> 0]
    /\ rip_status = DISCONNECTED
    /\ remote_ipod = NULL
    /\ menus = {}
    /\ rip_music \in BOOLEAN
    /\ automount \in BOOLEAN
    /\ eject_dialog = FALSE

Handlers ==
    \/ rip_icon_timer_handler
    \/ new_domount_window
    \/ new_dounmount_window
    \/ new_eject_window
    \/ do_eject_resume
    \/ new_cycle_status_window
    \/ ChangeSetting
    \/ settings_button

Environment == Attach \/ Detach \/ ChildExits \/ OtherMount \/ OtherUnmount

Next == Handlers \/ Environment

Spec == Init /\ [][Next]_vars

-----------------------------------------------------------------------------
(* Properties                                                              *)

\* The menus show what the status says: /Remote iPod is there exactly while an
\* iPod counts as connected, its Music menu exactly while a database is open.
\* Every transition adds or removes items by hand (podtopod.c:509-602), some
\* of them through another transition.
MenusFollowStatus ==
    /\ "remote" \in menus <=> is_connected
    /\ "music" \in menus <=> remote_ipod # NULL

\* A remote database is open only while its file system counts as mounted:
\* each way out of MOUNTED or TRANSFERRING, expected or not, closes it
\* (podtopod.c:581-602).
OpenOnlyWhileMounted == remote_ipod # NULL => is_mounted

\* An ejected iPod is not taken back while it is still on the bus: EJECTED is
\* left only after the connection was seen to be gone (podtopod.c:428-431), so
\* that what eject unmounted is not mounted again before the cable is pulled.
\* (An error on the poll reads as "connected" and keeps the status too.)
EjectedUntilUnplugged ==
    [][rip_status = EJECTED /\ rip_status' # EJECTED => ~(attached /\ sbp2)]_vars
=============================================================================
