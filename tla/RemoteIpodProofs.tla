-------------------------- MODULE RemoteIpodProofs --------------------------
(***************************************************************************)
(* For any addresses the allocator may hand out and any bound on running   *)
(* children: the type invariant of RemoteIpod, the two invariants that tie *)
(* the menus and the database handle to the status, and that an ejected    *)
(* iPod stays so until it is unplugged.                                    *)
(***************************************************************************)
EXTENDS RemoteIpod, TLAPS

\* The part of TypeOK that is about the children, opaque where it need not be
\* looked into.
ChildrenOK(c) == c \in [Programs -> 0..MaxChildren]

\* No child runs at the start.
LEMMA NoChildren == ChildrenOK([p \in Programs |-> 0])
  BY RemoteIpodAssumption DEF ChildrenOK

\* Starting a child keeps to the bound.
LEMMA SpawnedOK ==
    ASSUME NEW p \in Programs, ChildrenOK(children), CanSpawn(p)
    PROVE  ChildrenOK(Spawned(p))
<1>1. children[p] + 1 \in 0..MaxChildren
  BY RemoteIpodAssumption DEF ChildrenOK, CanSpawn
<1> QED BY <1>1 DEF ChildrenOK, Spawned

\* Eject on the desktop may start two.
LEMMA SpawnedTwoOK ==
    ASSUME ChildrenOK(children), CanSpawn("eject"), CanSpawn("umount")
    PROVE  ChildrenOK([Spawned("eject") EXCEPT !["umount"] = @ + 1])
<1>1. ChildrenOK(Spawned("eject"))
  BY SpawnedOK DEF Programs
<1>2. Spawned("eject")["umount"] = children["umount"]
  BY DEF ChildrenOK, Spawned, Programs
<1>3. children["umount"] + 1 \in 0..MaxChildren
  BY RemoteIpodAssumption DEF ChildrenOK, CanSpawn, Programs
<1> QED BY <1>1, <1>2, <1>3 DEF ChildrenOK

\* Neither does the end of a child break the bound.
LEMMA ExitOK ==
    ASSUME NEW p \in Programs, ChildrenOK(children), Exit(p)
    PROVE  ChildrenOK(children')
<1>1. children[p] - 1 \in 0..MaxChildren
  BY RemoteIpodAssumption DEF ChildrenOK, Exit
<1> QED BY <1>1 DEF ChildrenOK, Exit

\* The variables that the status transitions write.
StatusOK ==
    /\ rip_status \in Statuses
    /\ remote_ipod \in Handles \cup {NULL}
    /\ menus \subseteq MenuGroups

RestOK ==
    /\ attached \in BOOLEAN
    /\ sbp2 \in BOOLEAN
    /\ mount \in {"no", "here", "elsewhere"}
    /\ rip_music \in BOOLEAN
    /\ automount \in BOOLEAN
    /\ eject_dialog \in BOOLEAN

\* TypeOK in the parts that different actions can disturb.
LEMMA TypeParts == TypeOK <=> StatusOK /\ RestOK /\ ChildrenOK(children)
  BY DEF TypeOK, StatusOK, RestOK, ChildrenOK

\* One step of the program or its environment keeps the children in bounds.
LEMMA ChildrenStep ==
    ASSUME ChildrenOK(children), [Next]_vars
    PROVE  ChildrenOK(children')
<1>0. {"mount", "umount", "eject", "rmmod", "modprobe"} \subseteq Programs
  BY DEF Programs
<1>1. ASSUME ipod_status_connected PROVE ChildrenOK(children')
  BY <1>0, <1>1, SpawnedOK DEF ipod_status_connected
<1>2. CASE rip_icon_timer_handler
  BY <1>1, <1>2 DEF rip_icon_timer_handler, PollDisconnected, PollLostConnection,
                    PollMount, PollUnmount
<1>3. CASE new_domount_window
  BY <1>0, <1>3, SpawnedOK DEF new_domount_window
<1>4. CASE new_dounmount_window
  BY <1>0, <1>4, SpawnedOK DEF new_dounmount_window, do_unmount
<1>5. CASE new_eject_window_ipod
  BY <1>0, <1>5, SpawnedOK DEF new_eject_window_ipod
<1>6. CASE do_eject_resume
  BY <1>0, <1>6, SpawnedOK DEF do_eject_resume
<1>7. CASE new_eject_window_desktop
  BY <1>0, <1>7, SpawnedOK, SpawnedTwoOK DEF new_eject_window_desktop
<1>8. CASE new_cycle_status_window
  BY <1>1, <1>8 DEF new_cycle_status_window
<1>9. CASE ChildExits
  BY <1>0, <1>9, ExitOK DEF ChildExits
<1>10. CASE UNCHANGED children
  BY <1>10
<1> QED
  BY <1>2, <1>3, <1>4, <1>5, <1>6, <1>7, <1>8, <1>9, <1>10
  DEF Next, Handlers, Environment, new_eject_window, ChangeSetting, settings_button,
      Attach, Detach, OtherMount, OtherUnmount, vars

-----------------------------------------------------------------------------
\* The menus and the handle agree with the status: with their types this is
\* inductive, because each transition is judged by the state it starts from.
StatusInv == StatusOK /\ MenusFollowStatus /\ OpenOnlyWhileMounted

\* The induction step for the status, the menus and the handle.
LEMMA StatusStep ==
    ASSUME StatusInv, [Next]_vars
    PROVE  StatusInv'
<1> USE RemoteIpodAssumption
    DEF StatusInv, StatusOK, MenusFollowStatus, OpenOnlyWhileMounted,
        is_connected, is_mounted, Statuses, MenuGroups,
        DISCONNECTED, UNMOUNTED, MOUNTED, TRANSFERRING, EJECTED
<1> USE DEF load_rip_music, close_rip_music, ipod_status_mounted
<1>1. ASSUME rip_status = DISCONNECTED, ipod_status_connected PROVE StatusInv'
  BY <1>1 DEF ipod_status_connected
<1>2. ASSUME NEW final \in {DISCONNECTED, EJECTED}, LeaveBus(final) PROVE StatusInv'
  BY <1>2 DEF LeaveBus
<1>3. ASSUME rip_status = UNMOUNTED, ipod_status_mounted(menus) PROVE StatusInv'
  BY <1>3
<1>4. CASE rip_icon_timer_handler
  <2>1. CASE PollDisconnected
    BY <1>1, <2>1 DEF PollDisconnected
  <2>2. CASE PollLostConnection
    BY <1>2, <2>2 DEF PollLostConnection, ipod_status_disconnected
  <2>3. CASE PollMount
    BY <1>3, <2>3 DEF PollMount
  <2>4. CASE PollUnmount
    BY <2>4 DEF PollUnmount, ipod_status_unmounted
  <2> QED BY <1>4, <2>1, <2>2, <2>3, <2>4 DEF rip_icon_timer_handler
<1>5. CASE do_eject_resume \/ new_eject_window_desktop
  BY <1>2, <1>5 DEF do_eject_resume, new_eject_window_desktop, ipod_status_ejected
<1>6. CASE new_cycle_status_window
  BY <1>1, <1>2, <1>3, <1>6 DEF new_cycle_status_window, ipod_status_disconnected
<1>7. CASE settings_button
  BY <1>7 DEF settings_button
<1>8. CASE UNCHANGED statusVars
  BY <1>8 DEF statusVars
<1> QED
  BY <1>4, <1>5, <1>6, <1>7, <1>8
  DEF Next, Handlers, Environment, ChangeSetting, new_domount_window,
      new_dounmount_window, new_eject_window, new_eject_window_ipod, ChildExits,
      Attach, Detach, OtherMount, OtherUnmount, vars, statusVars

\* The other variables are flags and the mount table.
LEMMA RestStep ==
    ASSUME RestOK, [Next]_vars
    PROVE  RestOK'
<1> USE DEF RestOK, kernelVars, settingVars
<1>1. CASE Environment
  BY <1>1 DEF Environment, Attach, Detach, ChildExits, OtherMount, OtherUnmount
<1>2. CASE Handlers
  BY <1>2 DEF Handlers, rip_icon_timer_handler, new_domount_window,
      new_dounmount_window, new_eject_window, new_eject_window_ipod, do_eject_resume,
      new_eject_window_desktop, new_cycle_status_window, ChangeSetting, settings_button
<1>3. CASE UNCHANGED vars
  BY <1>3 DEF vars
<1> QED BY <1>1, <1>2, <1>3 DEF Next

-----------------------------------------------------------------------------
\* The handle alone agrees with the status whatever the menus show, which a
\* transfer that sets the status by itself can leave behind.
HandleInv ==
    /\ rip_status \in Statuses /\ remote_ipod \in Handles \cup {NULL}
    /\ OpenOnlyWhileMounted

\* The induction step for the handle.
LEMMA HandleStep ==
    ASSUME HandleInv, [Next]_vars
    PROVE  HandleInv'
<1> USE RemoteIpodAssumption
    DEF HandleInv, OpenOnlyWhileMounted, is_mounted, Statuses,
        DISCONNECTED, UNMOUNTED, MOUNTED, TRANSFERRING, EJECTED
<1> USE DEF load_rip_music, close_rip_music, ipod_status_mounted
<1>1. ASSUME rip_status = DISCONNECTED, ipod_status_connected PROVE HandleInv'
  BY <1>1 DEF ipod_status_connected
<1>2. ASSUME NEW final \in {DISCONNECTED, EJECTED}, LeaveBus(final) PROVE HandleInv'
  BY <1>2 DEF LeaveBus
<1>3. ASSUME ipod_status_mounted(menus) PROVE HandleInv'
  BY <1>3
<1>4. CASE rip_icon_timer_handler
  <2>1. CASE PollDisconnected
    BY <1>1, <2>1 DEF PollDisconnected
  <2>2. CASE PollLostConnection
    BY <1>2, <2>2 DEF PollLostConnection, ipod_status_disconnected
  <2>3. CASE PollMount
    BY <1>3, <2>3 DEF PollMount
  <2>4. CASE PollUnmount
    BY <2>4 DEF PollUnmount, ipod_status_unmounted
  <2> QED BY <1>4, <2>1, <2>2, <2>3, <2>4 DEF rip_icon_timer_handler
<1>5. CASE do_eject_resume \/ new_eject_window_desktop
  BY <1>2, <1>5 DEF do_eject_resume, new_eject_window_desktop, ipod_status_ejected
<1>6. CASE new_cycle_status_window
  BY <1>1, <1>2, <1>3, <1>6 DEF new_cycle_status_window, ipod_status_disconnected
<1>7. CASE settings_button
  BY <1>7 DEF settings_button
<1>8. CASE UNCHANGED statusVars
  BY <1>8 DEF statusVars
<1> QED
  BY <1>4, <1>5, <1>6, <1>7, <1>8
  DEF Next, Handlers, Environment, ChangeSetting, new_domount_window,
      new_dounmount_window, new_eject_window, new_eject_window_ipod, ChildExits,
      Attach, Detach, OtherMount, OtherUnmount, vars, statusVars

\* Only the poll leaves EJECTED, and only for DISCONNECTED.
LEMMA EjectedStep ==
    ASSUME [Next]_vars, rip_status = EJECTED, rip_status' # EJECTED
    PROVE  ~(attached /\ sbp2)
<1> USE DEF DISCONNECTED, UNMOUNTED, MOUNTED, TRANSFERRING, EJECTED
<1>1. CASE rip_icon_timer_handler
  <2>1. 0 \in poll_connection
    BY <1>1 DEF rip_icon_timer_handler, PollDisconnected, PollLostConnection, PollMount,
                PollUnmount
  <2> QED BY <2>1 DEF poll_connection
<1>2. ~new_cycle_status_window /\ ~settings_button
  BY DEF new_cycle_status_window, settings_button
<1>3. ~do_eject_resume /\ ~new_eject_window_desktop
  BY DEF do_eject_resume, new_eject_window_desktop, ipod_status_ejected, LeaveBus
<1> QED
  BY <1>1, <1>2, <1>3
  DEF Next, Handlers, Environment, ChangeSetting, new_domount_window,
      new_dounmount_window, new_eject_window, new_eject_window_ipod, ChildExits,
      Attach, Detach, OtherMount, OtherUnmount, vars, statusVars

-----------------------------------------------------------------------------
\* What the program shows of the remote iPod agrees with its status, in every
\* reachable state: /Remote iPod and its Music menu follow the status and the
\* open database (podtopod.c:509-602).
THEOREM MenusCorrect == Spec => []MenusFollowStatus
<1>1. Init => StatusInv
  BY DEF Init, StatusInv, StatusOK, Statuses, MenuGroups, MenusFollowStatus,
         OpenOnlyWhileMounted, is_connected, is_mounted, DISCONNECTED, EJECTED
<1>2. StatusInv /\ [Next]_vars => StatusInv'
  BY StatusStep
<1>3. StatusInv => MenusFollowStatus
  BY DEF StatusInv
<1> QED BY <1>1, <1>2, <1>3, PTL DEF Spec

\* No way out of MOUNTED or TRANSFERRING leaves the database open.
THEOREM HandleCorrect == Spec => []OpenOnlyWhileMounted
<1>1. Init => StatusInv
  BY DEF Init, StatusInv, StatusOK, Statuses, MenuGroups, MenusFollowStatus,
         OpenOnlyWhileMounted, is_connected, is_mounted, DISCONNECTED, EJECTED
<1>2. StatusInv /\ [Next]_vars => StatusInv'
  BY StatusStep
<1>3. StatusInv => OpenOnlyWhileMounted
  BY DEF StatusInv
<1> QED BY <1>1, <1>2, <1>3, PTL DEF Spec

\* Every variable keeps to its type, with any number of children in flight.
THEOREM TypeCorrect == Spec => []TypeOK
<1> DEFINE Inv == StatusInv /\ RestOK /\ ChildrenOK(children)
<1>1. Init => Inv
  BY NoChildren
  DEF Init, RestOK, StatusInv, StatusOK, Statuses, MenuGroups, MenusFollowStatus,
      OpenOnlyWhileMounted, is_connected, is_mounted, DISCONNECTED, EJECTED
<1>2. Inv /\ [Next]_vars => Inv'
  BY StatusStep, RestStep, ChildrenStep
<1>3. Inv => TypeOK
  BY TypeParts DEF StatusInv
<1> QED BY <1>1, <1>2, <1>3, PTL DEF Spec

\* An iPod that was ejected is not taken back before its connection was gone,
\* on the iPod and on the desktop, whatever settings, menus and other processes
\* do meanwhile (podtopod.c:428-431).
THEOREM EjectedStays == Spec => EjectedUntilUnplugged
<1>1. [Next]_vars =>
         [rip_status = EJECTED /\ rip_status' # EJECTED => ~(attached /\ sbp2)]_vars
  BY EjectedStep
<1> QED BY <1>1, PTL DEF Spec, EjectedUntilUnplugged
=============================================================================
