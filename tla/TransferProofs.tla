--------------------------- MODULE TransferProofs ---------------------------
(***************************************************************************)
(* For any tracks, sizes, chunk size and track lists, and whatever system  *)
(* calls fail: the type invariant of Transfer, that no step of a transfer  *)
(* puts a track into a database without its complete file, and that with   *)
(* inputs it can deal with nothing but the loss of a database leads to     *)
(* undefined behaviour.                                                    *)
(***************************************************************************)
EXTENDS Transfer, SequenceTheorems, TLAPS

\* OnlyCompleteFilesAdded of a list of items.
Complete(items) ==
    \A i \in DOMAIN items :
        items[i].entry # "none" => items[i].named /\ items[i].written = Size[items[i].track]

\* What makes it inductive: from the current item on, nothing was added yet.
AheadIsNew ==
    timer /\ cur_file # 0 =>
        \A i \in DOMAIN list : i >= cur_file => list[i].entry = "none"

-----------------------------------------------------------------------------
(* Lists of items                                                          *)

\* A function over 1..n is a sequence.
LEMMA FunIsSeq ==
    ASSUME NEW S, NEW n \in Nat, NEW f \in [1..n -> S]
    PROVE  f \in Seq(S) /\ Len(f) = n
  OBVIOUS

\* Setting a field of an item.
LEMMA ItemFields ==
    ASSUME NEW it \in Items, NEW n \in Nat, NEW e \in {"none", "added", "saved"}
    PROVE  /\ [it EXCEPT !.entry = e] \in Items
           /\ [it EXCEPT !.entry = e].entry = e
           /\ [it EXCEPT !.entry = e].named = it.named
           /\ [it EXCEPT !.entry = e].written = it.written
           /\ [it EXCEPT !.entry = e].track = it.track
           /\ [it EXCEPT !.named = TRUE] \in Items
           /\ [it EXCEPT !.named = TRUE].entry = it.entry
           /\ [it EXCEPT !.written = n] \in Items
           /\ [it EXCEPT !.written = n].entry = it.entry
           /\ [it EXCEPT !.written = n].named = it.named
           /\ [it EXCEPT !.written = n].track = it.track
           /\ [it EXCEPT !.written = n].written = n
           /\ it.track \in Tracks
  BY DEF Items

\* Saved() keeps the list, its length and what makes an item complete.
LEMMA SavedType ==
    ASSUME NEW items \in Seq(Items)
    PROVE  /\ Saved(items) \in Seq(Items)
           /\ Len(Saved(items)) = Len(items)
           /\ Complete(items) => Complete(Saved(items))
<1>1. \A i \in DOMAIN items : items[i] \in Items
  OBVIOUS
<1>2. Saved(items) \in [1..Len(items) -> Items]
  <2> SUFFICES ASSUME NEW i \in 1..Len(items) PROVE Saved(items)[i] \in Items
    BY LenProperties DEF Saved
  <2>1. items[i] \in Items /\ DOMAIN items = 1..Len(items)
    OBVIOUS
  <2>2. CASE items[i].entry = "added"
    BY <2>1, <2>2, ItemFields DEF Saved
  <2>3. CASE items[i].entry # "added"
    BY <2>1, <2>3 DEF Saved
  <2> QED BY <2>2, <2>3
<1>3. Saved(items) \in Seq(Items) /\ Len(Saved(items)) = Len(items)
  BY <1>2, FunIsSeq, LenProperties
<1>4. ASSUME NEW i \in DOMAIN items
      PROVE  /\ Saved(items)[i].entry # "none" => items[i].entry # "none"
             /\ Saved(items)[i].named = items[i].named
             /\ Saved(items)[i].written = items[i].written
             /\ Saved(items)[i].track = items[i].track
  BY <1>1, ItemFields DEF Saved
<1>5. DOMAIN Saved(items) = DOMAIN items
  BY DEF Saved
<1> QED BY <1>3, <1>4, <1>5 DEF Complete

\* Written() changes the current item only, and not its entry.
LEMMA WrittenType ==
    ASSUME NEW items \in Seq(Items), cur_file \in 1..Len(items), NEW n \in Nat
    PROVE  /\ Started(items) \in Seq(Items)
           /\ Len(Started(items)) = Len(items)
           /\ \A i \in DOMAIN items : i # cur_file => Started(items)[i] = items[i]
           /\ Started(items)[cur_file].entry = items[cur_file].entry
           /\ Written(items, n) \in Seq(Items)
           /\ Len(Written(items, n)) = Len(items)
           /\ \A i \in DOMAIN items : i # cur_file => Written(items, n)[i] = items[i]
           /\ Written(items, n)[cur_file].entry = items[cur_file].entry
           /\ Written(items, n)[cur_file].named
           /\ Written(items, n)[cur_file].written = n
           /\ Written(items, n)[cur_file].track = items[cur_file].track
<1> DEFINE it == items[cur_file]
<1> DEFINE it1 == [it EXCEPT !.named = TRUE]
<1> DEFINE it2 == [it1 EXCEPT !.written = n]
<1>1. it \in Items /\ it1 \in Items /\ it2 \in Items
  BY ItemFields, ElementOfSeq
<1>2. /\ it1.entry = it.entry /\ it1.named /\ it1.track = it.track
      /\ it2.entry = it.entry /\ it2.named /\ it2.track = it.track /\ it2.written = n
  BY <1>1 DEF Items
<1>3. Started(items) = [items EXCEPT ![cur_file] = it1]
  BY DEF Started
<1> HIDE DEF it1
<1>4. /\ Started(items) \in Seq(Items)
      /\ Len(Started(items)) = Len(items)
      /\ \A i \in 1..Len(items) : Started(items)[i] = IF i = cur_file THEN it1 ELSE items[i]
  BY <1>1, <1>3, ExceptSeq
<1>5. Written(items, n) = [Started(items) EXCEPT ![cur_file] = it2]
  BY <1>4 DEF Written, it1
<1> HIDE DEF it2
<1>6. /\ Written(items, n) \in Seq(Items)
      /\ Len(Written(items, n)) = Len(items)
      /\ \A i \in 1..Len(items) :
            Written(items, n)[i] = IF i = cur_file THEN it2 ELSE Started(items)[i]
  BY <1>1, <1>4, <1>5, ExceptSeq
<1>7. DOMAIN items = 1..Len(items)
  BY LenProperties
<1> QED BY <1>2, <1>4, <1>6, <1>7

\* TypeOK in two parts, so that most steps need not look at the list.
ListOK == list \in Seq(Items) /\ cur_file \in 0..Len(list)

OtherOK ==
    /\ rip_status \in Statuses
    /\ remote_ipod \in Handles \cup {NULL}
    /\ screen \in {"main", "songs", "alt", "transfer", "dialog"}
    /\ songs \in BOOLEAN
    /\ alt \in TransferMenu \cup {NULL}
    /\ trans_list_src_ipod \in Ipods \cup {NULL}
    /\ trans_list_dst_ipod \in Ipods \cup {NULL}
    /\ total_files_transferred \in Nat
    /\ total_bytes_transferred \in Nat
    /\ file_bytes_transferred \in Nat
    /\ dst_ipod_dirty \in BOOLEAN
    /\ srcFile \in BOOLEAN /\ dstFile \in BOOLEAN
    /\ transfer_buffer \in {"null", "live", "freed"}
    /\ timer \in BOOLEAN
    /\ db_dirty \subseteq Ipods
    /\ mpd_dirty \in BOOLEAN /\ mpd_behind \in BOOLEAN
    /\ fault \in Faults

\* TypeOK in two parts: the list, and everything that is not a sequence.
LEMMA TypeParts ==
    /\ TypeOK <=> ListOK /\ OtherOK
    /\ TypeOK' <=> ListOK' /\ OtherOK'
  BY DEF TypeOK, ListOK, OtherOK

-----------------------------------------------------------------------------
(* Steps                                                                   *)

Inv == TypeOK /\ OnlyCompleteFilesAdded /\ AheadIsNew

\* transfer_finished() and the list it leaves.
LEMMA FinishedStep ==
    ASSUME TypeOK, NEW items \in Seq(Items), Complete(items), NEW dirty,
           NEW dbs \in SUBSET Ipods, transfer_finished(items, dirty, dbs)
    PROVE  /\ list' \in Seq(Items) /\ Len(list') = Len(items)
           /\ Complete(list')
           /\ db_dirty' \in SUBSET Ipods
           /\ mpd_dirty' \in BOOLEAN
           /\ rip_status' \in Statuses
           /\ transfer_buffer' = "freed" /\ srcFile' = FALSE /\ dstFile' = FALSE
           /\ timer' = FALSE
<1>1. mpd_dirty \in BOOLEAN
  BY DEF TypeOK
<1>2. rip_status' \in Statuses
  BY DEF transfer_finished, Statuses, MOUNTED
<1>3. CASE list' = items
  BY <1>1, <1>2, <1>3 DEF transfer_finished, flush_destination
<1>4. CASE list' = Saved(items)
  BY <1>1, <1>2, <1>4, SavedType DEF transfer_finished, flush_destination
<1> QED BY <1>3, <1>4 DEF transfer_finished, flush_destination

\* What a step leaves alone if it is none of the transfer's own.
LEMMA Unchanged ==
    ASSUME Inv, UNCHANGED <<listVars, cur_file, timer>>, OtherOK'
    PROVE  Inv'
<1>1. TypeOK'
  BY TypeParts DEF Inv, ListOK, listVars
<1> QED BY <1>1 DEF Inv, OnlyCompleteFilesAdded, AheadIsNew, listVars

\* Undefined behaviour changes nothing that the invariant is about.
LEMMA FailStep ==
    ASSUME Inv, NEW kind \in Faults, Fail(kind)
    PROVE  Inv'
<1>1. OtherOK'
  BY TypeParts DEF Inv, OtherOK, Fail, menuVars, listVars, countVars, streamVars, dbVars
<1> QED BY <1>1, Unchanged DEF Fail

\* The current item is one of the list.
LEMMA CurType ==
    ASSUME TypeOK, cur_file # 0
    PROVE  /\ cur_file \in 1..Len(list) /\ list[cur_file] \in Items
           /\ filesize \in Nat /\ Length[Cur.track] \in Nat
           /\ bytesRead \in Int
<1>1. cur_file \in 1..Len(list) /\ Len(list) \in Nat /\ list \in Seq(Items)
  BY DEF TypeOK
<1>2. list[cur_file] \in Items
  BY <1>1, ElementOfSeq
<1>3. Cur.track \in Tracks
  BY <1>2, ItemFields DEF Cur
<1>4. filesize \in Nat /\ Length[Cur.track] \in Nat
  BY <1>3, TransferAssumption DEF filesize
<1> QED BY <1>1, <1>2, <1>4, TransferAssumption DEF TypeOK, bytesRead, Unread

\* The part of TypeOK that the copying steps leave alone.
StillTyped ==
    UNCHANGED <<remote_ipod, menuVars, trans_list_src_ipod, trans_list_dst_ipod>>

\* An aborted copy: the current item gets a name, no item gets an entry.
LEMMA AbortStep ==
    ASSUME Inv, timer, cur_file # 0, abort_transfer(Started(list)), StillTyped,
           fault' \in Faults
    PROVE  Inv'
<1>1. cur_file \in 1..Len(list) /\ list \in Seq(Items) /\ Len(list) \in Nat
  BY CurType DEF Inv, TypeOK
<1> DEFINE items == Started(list)
<1>2. /\ items \in Seq(Items) /\ Len(items) = Len(list)
      /\ \A i \in DOMAIN list : i # cur_file => items[i] = list[i]
      /\ items[cur_file].entry = list[cur_file].entry
  BY <1>1, WrittenType, Zenon
<1>3. list[cur_file].entry = "none"
  BY <1>1 DEF Inv, AheadIsNew
<1>4. Complete(items)
  BY <1>1, <1>2, <1>3 DEF Inv, OnlyCompleteFilesAdded, Complete
<1> HIDE DEF items
<1>5. /\ db_dirty \in SUBSET Ipods /\ TypeOK
      /\ transfer_finished(items, dst_ipod_dirty, db_dirty)
      /\ UNCHANGED <<cur_file, countVars, dst_ipod_dirty, mpd_behind>>
  BY DEF Inv, TypeOK, abort_transfer, items
<1>6. /\ list' \in Seq(Items) /\ Len(list') = Len(items) /\ Complete(list')
      /\ db_dirty' \in SUBSET Ipods /\ mpd_dirty' \in BOOLEAN
      /\ rip_status' \in Statuses /\ transfer_buffer' = "freed"
      /\ srcFile' = FALSE /\ dstFile' = FALSE /\ timer' = FALSE
  BY <1>2, <1>4, <1>5, FinishedStep
<1>7. TypeOK'
  BY <1>1, <1>2, <1>5, <1>6 DEF TypeOK, StillTyped, menuVars, countVars
<1>8. (OnlyCompleteFilesAdded /\ AheadIsNew)'
  BY <1>6 DEF OnlyCompleteFilesAdded, Complete, AheadIsNew
<1> QED BY <1>7, <1>8 DEF Inv

\* A chunk that is not the file's last one.
LEMMA ChunkStep ==
    ASSUME Inv, timer, cur_file # 0, NEW n \in Nat, copy_chunk(n), StillTyped,
           fault' \in Faults
    PROVE  Inv'
<1>1. cur_file \in 1..Len(list) /\ list \in Seq(Items) /\ Len(list) \in Nat
  BY CurType DEF Inv, TypeOK
<1>2. file_bytes_transferred + n \in Nat /\ total_bytes_transferred + n \in Nat
  BY DEF Inv, TypeOK
<1>3. /\ list' \in Seq(Items) /\ Len(list') = Len(list)
      /\ \A i \in DOMAIN list : i # cur_file => list'[i] = list[i]
      /\ list'[cur_file].entry = list[cur_file].entry
  BY <1>1, <1>2, WrittenType DEF copy_chunk, Copied, FileDone
<1>4. list[cur_file].entry = "none"
  BY <1>1 DEF Inv, AheadIsNew
<1>5. TypeOK'
  BY <1>1, <1>2, <1>3 DEF Inv, TypeOK, copy_chunk, Copied, FileDone, StillTyped, menuVars, dbVars
<1>6. AheadIsNew'
  BY <1>1, <1>3 DEF Inv, AheadIsNew, copy_chunk, Copied, FileDone
<1>7. OnlyCompleteFilesAdded'
  BY <1>1, <1>3, <1>4 DEF Inv, OnlyCompleteFilesAdded
<1> QED BY <1>5, <1>6, <1>7 DEF Inv

\* The last chunk of a file: what is written is what the database states.
LEMMA FinishStep ==
    ASSUME Inv, timer, cur_file # 0, NEW n \in Nat, finish_file(n), StillTyped,
           fault' \in Faults
    PROVE  Inv'
<1>1. cur_file \in 1..Len(list) /\ list \in Seq(Items) /\ Len(list) \in Nat
  BY CurType DEF Inv, TypeOK
<1> DEFINE bytes == file_bytes_transferred + n
<1> DEFINE written == Written(list, bytes)
<1> DEFINE items == WithEntry(written)
<1>2. bytes \in Nat /\ total_bytes_transferred + n \in Nat /\ total_files_transferred + 1 \in Nat
  BY DEF Inv, TypeOK
<1> HIDE DEF bytes
<1>3. /\ written \in Seq(Items) /\ Len(written) = Len(list)
      /\ \A i \in DOMAIN list : i # cur_file => written[i] = list[i]
      /\ written[cur_file].entry = list[cur_file].entry
      /\ written[cur_file].named /\ written[cur_file].written = bytes
      /\ written[cur_file].track = list[cur_file].track
  BY <1>1, <1>2, WrittenType
<1> HIDE DEF written
<1>4. /\ items \in Seq(Items) /\ Len(items) = Len(list) /\ Complete(items)
      /\ \A i \in 1..Len(list) : i # cur_file => items[i] = list[i]
  <2> DEFINE it == [written[cur_file] EXCEPT !.entry = "added"]
  <2>1. bytes = Size[list[cur_file].track]
    BY DEF finish_file, Copied, FileDone, MoreFiles, filesize, Cur, bytes
  <2>2. written[cur_file] \in Items /\ DOMAIN written = 1..Len(list) /\ DOMAIN list = 1..Len(list)
    BY <1>1, <1>3, ElementOfSeq, LenProperties
  <2>3. /\ it \in Items
        /\ it.named /\ it.written = bytes /\ it.track = list[cur_file].track
    BY <1>3, <2>2 DEF Items
  <2>4. list[cur_file].entry = "none"
    BY <1>1 DEF Inv, AheadIsNew
  <2>5. Complete(written)
    BY <1>1, <1>3, <2>2, <2>4 DEF Inv, OnlyCompleteFilesAdded, Complete
  <2> HIDE DEF it
  <2>6. /\ [written EXCEPT ![cur_file] = it] \in Seq(Items)
        /\ Len([written EXCEPT ![cur_file] = it]) = Len(written)
        /\ \A j \in 1..Len(written) :
              [written EXCEPT ![cur_file] = it][j] = IF j = cur_file THEN it ELSE written[j]
    BY <1>1, <1>3, <2>3, ExceptSeq
  <2>7. DOMAIN [written EXCEPT ![cur_file] = it] = 1..Len(list)
    BY <2>2
  <2>8. Complete([written EXCEPT ![cur_file] = it])
    BY <1>1, <1>3, <2>1, <2>2, <2>3, <2>5, <2>6, <2>7 DEF Complete
  <2>9. items = [written EXCEPT ![cur_file] = it] \/ items = written
    BY DEF WithEntry, it
  <2> HIDE DEF items
  <2> QED BY <1>3, <2>5, <2>6, <2>8, <2>9
<1>7. Dirtied \in SUBSET Ipods
  BY DEF Inv, TypeOK, Dirtied, Live, Ipods
<1>8. /\ dst_ipod_dirty' = TRUE
      /\ total_files_transferred' \in Nat /\ total_bytes_transferred' \in Nat
      /\ file_bytes_transferred' = 0 /\ mpd_behind' \in BOOLEAN
  BY <1>2 DEF finish_file, Copied, FileDone, MoreFiles, Inv, TypeOK
<1>9. CASE cur_file < Len(list)
  <2>1. /\ cur_file' = cur_file + 1 /\ list' = items /\ db_dirty' = Dirtied
        /\ srcFile' = FALSE /\ dstFile' = FALSE
        /\ UNCHANGED <<rip_status, transfer_buffer, timer, mpd_dirty>>
    BY <1>9 DEF finish_file, Copied, FileDone, MoreFiles, items, written, bytes
  <2> HIDE DEF items
  <2>2. TypeOK'
    <3>1. cur_file + 1 \in 0..Len(list')
      BY <1>1, <1>4, <1>9, <2>1
    <3>2. list' \in Seq(Items) /\ db_dirty' \subseteq Ipods
      BY <1>4, <1>7, <2>1
    <3> QED BY <1>8, <2>1, <3>1, <3>2 DEF Inv, TypeOK, StillTyped, menuVars
  <2>3. OnlyCompleteFilesAdded' /\ AheadIsNew'
    BY <1>1, <1>4, <1>9, <2>1 DEF Inv, OnlyCompleteFilesAdded, Complete, AheadIsNew
  <2> QED BY <2>2, <2>3 DEF Inv
<1>10. CASE ~(cur_file < Len(list))
  <2>1. cur_file' = 0 /\ transfer_finished(items, TRUE, Dirtied)
    BY <1>10 DEF finish_file, Copied, FileDone, MoreFiles, items, written, bytes
  <2> HIDE DEF items
  <2>2. /\ list' \in Seq(Items) /\ Len(list') = Len(items) /\ Complete(list')
        /\ db_dirty' \in SUBSET Ipods /\ mpd_dirty' \in BOOLEAN
        /\ rip_status' \in Statuses /\ transfer_buffer' = "freed"
        /\ srcFile' = FALSE /\ dstFile' = FALSE /\ timer' = FALSE
    BY <1>4, <1>7, <2>1, FinishedStep DEF Inv
  <2>3. TypeOK'
    <3>1. cur_file' \in 0..Len(list')
      BY <1>1, <1>4, <2>1, <2>2
    <3>2. list' \in Seq(Items) /\ db_dirty' \subseteq Ipods
      BY <2>2
    <3>3. /\ mpd_dirty' \in BOOLEAN /\ rip_status' \in Statuses /\ transfer_buffer' = "freed"
          /\ srcFile' = FALSE /\ dstFile' = FALSE /\ timer' = FALSE
      BY <2>2
    <3> QED BY <1>8, <3>1, <3>2, <3>3 DEF Inv, TypeOK, StillTyped, menuVars
  <2>4. OnlyCompleteFilesAdded' /\ AheadIsNew'
    BY <2>2 DEF OnlyCompleteFilesAdded, Complete, AheadIsNew
  <2> QED BY <2>3, <2>4 DEF Inv
<1> QED BY <1>9, <1>10

\* A tick of the transfer timer keeps the invariant.
LEMMA TimerStep ==
    ASSUME Inv, transfer_widget_timer_handler
    PROVE  Inv'
<1>1. timer /\ fault = "none"
  BY DEF transfer_widget_timer_handler
<1>2. {"null", "stale", "zero", "none"} \subseteq Faults
  BY DEF Faults
<1>3. ASSUME cur_file # 0, do_copy, StillTyped, fault' \in Faults PROVE Inv'
  <2>1. CASE bytesRead > 0 /\ copy_chunk(bytesRead)
    <3>1. bytesRead \in Nat
      BY <1>3, <2>1, CurType DEF Inv
    <3> QED BY <1>1, <1>3, <2>1, <3>1, ChunkStep
  <2>2. CASE bytesRead > 0 /\ finish_file(bytesRead)
    <3>1. bytesRead \in Nat
      BY <1>3, <2>2, CurType DEF Inv
    <3> QED BY <1>1, <1>3, <2>2, <3>1, FinishStep
  <2>3. CASE abort_transfer(Started(list))
    BY <1>1, <1>3, <2>3, AbortStep
  <2> QED BY <1>3, <2>1, <2>2, <2>3 DEF do_copy
<1>4. CASE \E kind \in Faults : Fail(kind)
  BY <1>4, FailStep
<1>5. CASE cur_file # 0 /\ abort_transfer(Started(list)) /\ fault' \in Faults /\ StillTyped
  BY <1>1, <1>5, AbortStep
<1>6. CASE /\ cur_file # 0 /\ StillTyped
           /\ do_copy /\ (UNCHANGED fault \/ fault' = "stale")
  BY <1>1, <1>2, <1>3, <1>6
<1> QED
  BY <1>2, <1>4, <1>5, <1>6
  DEF transfer_widget_timer_handler, start_next_file_fails, finish_after_abort, StillTyped

\* So does the answer to the abort dialog.
LEMMA DialogStep ==
    ASSUME Inv, answer_dialog
    PROVE  Inv'
<1> USE DEF answer_dialog
<1>1. list \in Seq(Items) /\ Complete(list) /\ db_dirty \in SUBSET Ipods
  BY DEF Inv, TypeOK, OnlyCompleteFilesAdded, Complete
<1>2. fault' \in Faults
  BY DEF Faults, Inv, TypeOK
<1>3. CASE UNCHANGED <<rip_status, list, streamVars, timer, dbVars, fault>>
  <2>1. OtherOK'
    BY <1>3, TypeParts DEF Inv, OtherOK, countVars, streamVars, dbVars
  <2> QED BY <1>3, <2>1, Unchanged DEF listVars
<1>4. CASE transfer_finished(list, dst_ipod_dirty, db_dirty) /\ UNCHANGED mpd_behind
  <2>1. /\ list' \in Seq(Items) /\ Len(list') = Len(list) /\ Complete(list')
        /\ db_dirty' \in SUBSET Ipods /\ mpd_dirty' \in BOOLEAN
        /\ rip_status' \in Statuses /\ transfer_buffer' = "freed"
        /\ srcFile' = FALSE /\ dstFile' = FALSE /\ timer' = FALSE
    BY <1>1, <1>4, FinishedStep DEF Inv
  <2>2. cur_file' \in 0..Len(list') /\ list' \in Seq(Items) /\ db_dirty' \subseteq Ipods
    BY <2>1 DEF Inv, TypeOK
  <2>3. /\ mpd_dirty' \in BOOLEAN /\ rip_status' \in Statuses /\ transfer_buffer' = "freed"
        /\ srcFile' = FALSE /\ dstFile' = FALSE /\ timer' = FALSE
    BY <2>1
  <2>4. TypeOK'
    BY <1>2, <1>4, <2>2, <2>3 DEF Inv, TypeOK, countVars
  <2>5. OnlyCompleteFilesAdded' /\ AheadIsNew'
    BY <2>1 DEF OnlyCompleteFilesAdded, Complete, AheadIsNew
  <2> QED BY <2>4, <2>5 DEF Inv
<1> QED BY <1>3, <1>4

\* A new list: every item is new.
LEMMA TransferTracksStep ==
    ASSUME Inv, transfer_tracks
    PROVE  Inv'
<1>1. PICK f \in FoundIn(alt.ids, alt.sure) : list' = transfer_list_of(alt.ids, f)
  BY DEF transfer_tracks
<1>2. alt \in TransferMenu
  BY TransferAssumption DEF transfer_tracks, Inv, TypeOK, Live, TransferMenu
<1>3. PICK n \in 0..Len(alt.ids) : f \in [1..n -> DOMAIN alt.ids]
  BY <1>1 DEF FoundIn
<1>4. alt.ids \in Seq(Tracks) /\ Len(alt.ids) \in Nat /\ n \in Nat
  BY <1>2, <1>3 DEF TransferMenu
<1>5. \A t \in Tracks : NewItem(t) \in Items /\ NewItem(t).entry = "none"
  BY DEF NewItem, Items
<1>6. ASSUME NEW i \in 1..n
      PROVE  list'[i] \in Items /\ list'[i].entry = "none"
  BY <1>1, <1>3, <1>4, <1>5 DEF transfer_list_of
<1>7. list' \in [1..n -> Items]
  BY <1>1, <1>3, <1>6 DEF transfer_list_of
<1>8. list' \in Seq(Items) /\ Len(list') = n /\ DOMAIN list' = 1..n
  BY <1>4, <1>7, FunIsSeq
<1>9. OnlyCompleteFilesAdded' /\ AheadIsNew'
  BY <1>6, <1>8 DEF OnlyCompleteFilesAdded, AheadIsNew
<1>10. cur_file' \in 0..Len(list')
  BY <1>4, <1>8 DEF transfer_tracks, start_copy, start_copy_no_buffer
<1>11. alt.ipod \in Ipods /\ remote_ipod \in Ipods \cup {NULL} /\ local_ipod \in Ipods
  BY <1>2 DEF TransferMenu, Inv, TypeOK, Ipods
<1>12. OtherOK
  BY TypeParts DEF Inv
<1>13. OtherOK'
  <2>1. CASE start_copy
    BY <1>11, <1>12, <2>1
    DEF transfer_tracks, start_copy, OtherOK, dbVars, Statuses, TRANSFERRING
  <2>2. CASE start_copy_no_buffer
    BY <1>11, <1>12, <2>2
    DEF transfer_tracks, start_copy_no_buffer, OtherOK, countVars, dbVars
  <2> QED BY <2>1, <2>2 DEF transfer_tracks
<1> QED BY <1>8, <1>9, <1>10, <1>13, TypeParts DEF Inv, ListOK

\* Opening and leaving menus.
LEMMA MenuStep ==
    ASSUME Inv, open_music_menu \/ open_song \/ local_transfer_alt_menu \/ leave_menu
    PROVE  Inv'
<1> USE DEF menuVars, listVars, countVars, streamVars, dbVars
<1>0. OtherOK
  BY TypeParts DEF Inv
<1>1. ASSUME NEW ipod \in Ipods, transfer_alt_menu(ipod) PROVE Inv'
  <2>1. PICK ids \in Selections :
          alt' = [ipod |-> ipod, ids |-> ids, item |-> remote_ipod # NULL, sure |-> TRUE]
    BY <1>1 DEF transfer_alt_menu
  <2>2. alt' \in TransferMenu
    BY <2>1, TransferAssumption DEF TransferMenu
  <2>3. OtherOK'
    BY <1>1, <2>2, <1>0 DEF transfer_alt_menu, OtherOK
  <2> QED BY <1>1, <2>3, Unchanged DEF transfer_alt_menu
<1>2. CASE open_music_menu \/ leave_menu
  <2>1. OtherOK'
    <3>1. CASE open_music_menu
      BY <1>0, <3>1 DEF open_music_menu, OtherOK
    <3>2. CASE leave_menu
      <4>1. screen' \in {"main", "songs"} /\ songs' \in BOOLEAN /\ alt' \in TransferMenu \cup {NULL}
        BY <1>0, <3>2 DEF leave_menu, Back, OtherOK
      <4>2. UNCHANGED <<rip_status, remote_ipod, listVars, countVars, dst_ipod_dirty,
                        streamVars, timer, dbVars, fault>>
        BY <3>2 DEF leave_menu
      <4> QED BY <1>0, <4>1, <4>2 DEF OtherOK
    <3> QED BY <1>2, <3>1, <3>2
  <2>2. UNCHANGED <<listVars, cur_file, timer>>
    BY <1>2 DEF open_music_menu, leave_menu
  <2> QED BY <2>1, <2>2, Unchanged
<1>3. CASE open_song
  <2>1. CASE remote_ipod = NULL
    BY <1>3, <2>1, FailStep DEF open_song, Faults
  <2>2. CASE remote_ipod # NULL
    BY <1>1, <1>3, <2>2, <1>0 DEF open_song, OtherOK, Ipods
  <2> QED BY <2>1, <2>2
<1>4. CASE local_transfer_alt_menu
  BY <1>1, <1>4 DEF local_transfer_alt_menu, Ipods
<1> QED BY <1>2, <1>3, <1>4

\* Drawing, leaving the window, removing tracks, telling mpd.
LEMMA OtherStep ==
    ASSUME Inv, draw_transfer_widget \/ menu_button \/ remove_tracks \/ mpd_is_dirty
    PROVE  Inv'
<1> USE DEF menuVars, listVars, countVars, streamVars, dbVars
<1>0. OtherOK
  BY TypeParts DEF Inv
<1>1. CASE draw_transfer_widget
  BY <1>1, FailStep DEF draw_transfer_widget, Faults
<1>2. CASE menu_button
  <2>1. CASE transfer_list_reset
    <3>1. list' = <<>> /\ cur_file' = 0 /\ list' \in Seq(Items) /\ Len(list') = 0
      BY <2>1 DEF transfer_list_reset
    <3>2. OtherOK'
      BY <1>2, <2>1, <1>0 DEF menu_button, transfer_list_reset, Back, OtherOK
    <3>3. TypeOK'
      BY <3>1, <3>2, TypeParts DEF ListOK
    <3> QED BY <3>1, <3>3 DEF Inv, OnlyCompleteFilesAdded, AheadIsNew
  <2>2. CASE UNCHANGED <<listVars, cur_file, timer>> /\ screen' = "dialog"
    <3>1. OtherOK'
      BY <1>2, <2>2, <1>0 DEF menu_button, OtherOK
    <3> QED BY <2>2, <3>1, Unchanged
  <2> QED BY <1>2, <2>1, <2>2 DEF menu_button
<1>3. CASE remove_tracks
  <2>1. OtherOK'
    <3>1. /\ screen' = "main" /\ songs' = FALSE /\ alt' = NULL
          /\ UNCHANGED <<rip_status, remote_ipod, listVars, countVars,
                         dst_ipod_dirty, streamVars, timer>>
      BY <1>3 DEF remove_tracks
    <3>2. mpd_dirty' \in BOOLEAN /\ mpd_behind' \in BOOLEAN
      BY <1>0, <1>3 DEF remove_tracks, OtherOK
    <3>3. db_dirty' \subseteq Ipods
      BY <1>0, <1>3 DEF remove_tracks, OtherOK
    <3>4. fault' \in Faults
      BY <1>0, <1>3 DEF remove_tracks, OtherOK, Faults
    <3> QED BY <1>0, <3>1, <3>2, <3>3, <3>4 DEF OtherOK
  <2>2. UNCHANGED <<listVars, cur_file, timer>>
    BY <1>3 DEF remove_tracks
  <2> QED BY <2>1, <2>2, Unchanged
<1>4. CASE mpd_is_dirty
  <2>1. OtherOK'
    <3>1. mpd_dirty' \in BOOLEAN /\ mpd_behind' \in BOOLEAN
      BY <1>0, <1>4 DEF mpd_is_dirty, OtherOK
    <3>2. UNCHANGED <<rip_status, remote_ipod, menuVars, listVars, countVars,
                      dst_ipod_dirty, streamVars, timer, db_dirty, fault>>
      BY <1>4 DEF mpd_is_dirty
    <3> QED BY <1>0, <3>1, <3>2 DEF OtherOK
  <2>2. UNCHANGED <<listVars, cur_file, timer>>
    BY <1>4 DEF mpd_is_dirty
  <2> QED BY <2>1, <2>2, Unchanged
<1> QED BY <1>1, <1>2, <1>3, <1>4

\* The invariant holds before the first transfer, whatever the iPod's status.
LEMMA NothingInv ==
    ASSUME NothingTransferred, rip_status \in Statuses, remote_ipod \in Handles \cup {NULL}
    PROVE  Inv
<1>1. list = <<>> /\ list \in Seq(Items) /\ Len(list) = 0
  BY DEF NothingTransferred
<1>2. OtherOK
  BY DEF NothingTransferred, OtherOK, Faults
<1>3. TypeOK
  BY <1>1, <1>2, TypeParts DEF ListOK, NothingTransferred
<1> QED BY <1>1, <1>3 DEF NothingTransferred, Inv, OnlyCompleteFilesAdded, AheadIsNew

\* So it does where the engine starts alone.
LEMMA InitInv == Init => Inv
  BY NothingInv DEF Init, Statuses, MOUNTED

\* The invariant is inductive.
LEMMA InvStep == Inv /\ [Next]_vars => Inv'
<1> SUFFICES ASSUME Inv, [Next]_vars PROVE Inv'
  OBVIOUS
<1>1. CASE Menus
  BY <1>1, MenuStep, TransferTracksStep DEF Menus
<1>2. CASE UNCHANGED vars
  <2>1. OtherOK'
    BY <1>2, TypeParts DEF Inv, OtherOK, vars, menuVars, listVars, countVars, streamVars, dbVars
  <2> QED BY <1>2, <2>1, Unchanged DEF vars
<1> QED BY <1>1, <1>2, TimerStep, DialogStep, OtherStep DEF Next

-----------------------------------------------------------------------------
\* The variables of the transfer engine keep to their types; in particular
\* cur_file never points outside the list.
THEOREM TransferTyped == Spec => []TypeOK
<1>1. Inv => TypeOK
  BY DEF Inv
<1> QED BY <1>1, InitInv, InvStep, PTL DEF Spec

\* No step of any transfer, failed, aborted or completed, leaves a database
\* entry for a file that is not there in the length the database states
\* (transfer.c:388-410, 494-510).
THEOREM NoPartialFile == Spec => []OnlyCompleteFilesAdded
<1>1. Inv => OnlyCompleteFilesAdded
  BY DEF Inv
<1> QED BY <1>1, InitInv, InvStep, PTL DEF Spec

-----------------------------------------------------------------------------
(* Undefined behaviour                                                     *)

\* What the engine can be given without running into a trap of its own: no
\* call fails where start_next_file() and start_copy() do not expect it, no
\* track is of size 0, and a dialog stops the timers.
SoundInputs ==
    /\ Failures \cap {"malloc", "stat", "folders", "open"} = {}
    /\ \A t \in Tracks : Size[t] > 0
    /\ ~ModalTimers

\* A Transfer menu is the window on top as long as there is one.
MenuOnTop == alt # NULL => screen = "alt"

WindowOpen == screen \in {"transfer", "dialog"}

\* A transfer with items has a current one, whose end is not reached yet.
TimerCopies ==
    timer =>
        /\ WindowOpen /\ transfer_buffer = "live"
        /\ cur_file = 0 => list = <<>>
        /\ cur_file # 0 => file_bytes_transferred # filesize

\* The window shows a transfer, one end of which is the local iPod.
WindowShowsTransfer ==
    /\ WindowOpen /\ rip_status = TRANSFERRING => timer
    /\ screen = "dialog" => timer
    /\ WindowOpen =>
          \/ trans_list_src_ipod = local_ipod /\ trans_list_dst_ipod # local_ipod
          \/ trans_list_dst_ipod = local_ipod /\ trans_list_src_ipod # local_ipod

SoundCore == MenuOnTop /\ TimerCopies /\ WindowShowsTransfer

\* What the window on top works on has gone: LostDatabase of PodToPod.
Lost ==
    \/ screen = "songs" /\ remote_ipod = NULL
    \/ screen = "alt" /\ ~Live(alt.ipod)
    \/ /\ screen \in {"transfer", "dialog"}
       /\ \/ list = <<>>
          \/ remote_ipod = NULL
          \/ remote_ipod \notin {trans_list_src_ipod, trans_list_dst_ipod}

\* A dangling end of a transfer is the remote one.
LEMMA DanglingIsLost ==
    ASSUME TypeOK, SoundCore, WindowOpen,
           NEW h \in {trans_list_src_ipod, trans_list_dst_ipod}, ~Live(h)
    PROVE  Lost
<1>1. remote_ipod # local_ipod
  BY TransferAssumption DEF TypeOK
<1> QED BY <1>1 DEF SoundCore, WindowShowsTransfer, Live, Lost, WindowOpen

\* The tracks of the list have sizes.
LEMMA SizeOfItem ==
    ASSUME SoundInputs, TypeOK, NEW i \in DOMAIN list
    PROVE  Size[list[i].track] \in Nat /\ Size[list[i].track] > 0
<1>1. list[i] \in Items
  BY ElementOfSeq, LenProperties DEF TypeOK
<1> QED BY <1>1, ItemFields, TransferAssumption DEF SoundInputs

\* ... after a step as well.
LEMMA SizeOfNextItem ==
    ASSUME SoundInputs, TypeOK', NEW i \in DOMAIN list'
    PROVE  Size[list'[i].track] \in Nat /\ Size[list'[i].track] > 0
<1>1. list'[i] \in Items
  BY ElementOfSeq, LenProperties DEF TypeOK
<1> QED BY <1>1, ItemFields, TransferAssumption DEF SoundInputs

\* The timer runs into undefined behaviour only at a lost destination.
LEMMA TimerFault ==
    ASSUME SoundInputs, TypeOK, SoundCore, transfer_widget_timer_handler, fault' # "none"
    PROVE  Lost
<1>1. timer /\ WindowOpen /\ fault = "none"
  BY DEF transfer_widget_timer_handler, SoundInputs, WindowOpen
<1>2. CASE cur_file = 0
  BY <1>1, <1>2 DEF SoundCore, TimerCopies, Lost, WindowOpen
<1>3. CASE cur_file # 0 /\ start_next_file_fails
  <2>1. ~Live(trans_list_dst_ipod)
    BY <1>3 DEF start_next_file_fails, SoundInputs, MayFail
  <2> QED BY <1>1, <2>1, DanglingIsLost
<1>4. CASE cur_file # 0 /\ finish_after_abort
  BY <1>1, <1>4 DEF finish_after_abort, SoundCore, TimerCopies
<1>5. CASE Dangling(trans_list_dst_ipod)
  BY <1>1, <1>5, DanglingIsLost DEF Dangling
<1> QED BY <1>1, <1>2, <1>3, <1>4, <1>5 DEF transfer_widget_timer_handler

\* So does drawing, at a lost source.
LEMMA DrawFault ==
    ASSUME SoundInputs, TypeOK, SoundCore, draw_transfer_widget
    PROVE  Lost
<1>1. WindowOpen
  BY DEF draw_transfer_widget, WindowOpen
<1>2. CASE rip_status = TRANSFERRING /\ cur_file = 0
  BY <1>1, <1>2 DEF SoundCore, TimerCopies, WindowShowsTransfer, Lost, WindowOpen
<1>3. CASE Dangling(trans_list_src_ipod)
  BY <1>1, <1>3, DanglingIsLost DEF Dangling
<1>4. ASSUME cur_file # 0, filesize = 0 PROVE FALSE
  <2>1. cur_file \in DOMAIN list
    BY <1>4, CurType, LenProperties DEF TypeOK
  <2> QED BY <1>4, <2>1, SizeOfItem DEF filesize, Cur
<1>5. ASSUME Len(list) > 1, total_bytes_is_0 PROVE FALSE
  <2>1. 1 \in DOMAIN list
    BY <1>5, LenProperties DEF TypeOK
  <2> QED BY <1>5, <2>1, SizeOfItem DEF total_bytes_is_0
<1> QED BY <1>2, <1>3, <1>4, <1>5 DEF draw_transfer_widget

\* No step of the engine reaches undefined behaviour unless what its window
\* works on is lost.
LEMMA FaultMeansLost ==
    ASSUME SoundInputs, TypeOK, SoundCore, Next, fault = "none", fault' # "none"
    PROVE  Lost
<1>1. CASE Menus
  <2>1. open_song /\ remote_ipod = NULL
    BY <1>1 DEF Menus, open_music_menu, open_song, local_transfer_alt_menu, leave_menu,
                transfer_alt_menu, transfer_tracks
  <2> QED BY <2>1 DEF open_song, Lost
<1>2. CASE answer_dialog
  <2>1. WindowOpen /\ timer
    BY <1>2 DEF answer_dialog, WindowOpen, SoundCore, WindowShowsTransfer
  <2>2. Dangling(trans_list_dst_ipod)
    BY <1>2, <2>1 DEF answer_dialog, SoundCore, TimerCopies
  <2> QED BY <2>1, <2>2, DanglingIsLost DEF Dangling
<1>3. CASE remove_tracks
  BY <1>3 DEF remove_tracks, Dangling, SoundCore, MenuOnTop, Lost
<1> QED BY <1>1, <1>2, <1>3, TimerFault, DrawFault DEF Next, menu_button, mpd_is_dirty

\* A tick keeps the transfer one that copies.
LEMMA TimerSound ==
    ASSUME SoundInputs, Inv, Inv', SoundCore, transfer_widget_timer_handler, fault' = "none"
    PROVE  SoundCore'
<1>1. timer /\ screen = "transfer" /\ fault = "none"
  BY DEF transfer_widget_timer_handler, SoundInputs
<1>2. cur_file # 0 /\ do_copy /\ StillTyped
  BY <1>1 DEF transfer_widget_timer_handler, start_next_file_fails,
              finish_after_abort, Fail, StillTyped
<1>3. /\ screen' = screen /\ alt' = alt /\ trans_list_src_ipod' = trans_list_src_ipod
      /\ trans_list_dst_ipod' = trans_list_dst_ipod
  BY <1>2 DEF StillTyped, menuVars
<1>4. ASSUME NEW items, NEW dirty, NEW dbs, transfer_finished(items, dirty, dbs) PROVE SoundCore'
  <2>1. ~timer' /\ rip_status' # TRANSFERRING
    BY <1>4 DEF transfer_finished, MOUNTED, TRANSFERRING
  <2> QED BY <1>1, <1>3, <2>1
          DEF SoundCore, MenuOnTop, TimerCopies, WindowShowsTransfer, WindowOpen
<1>5. ASSUME bytesRead > 0, copy_chunk(bytesRead) PROVE SoundCore'
  <2>1. cur_file \in 1..Len(list) /\ list \in Seq(Items) /\ bytesRead \in Nat /\ Len(list) \in Nat
        /\ DOMAIN list = 1..Len(list)
    BY <1>2, <1>5, CurType, LenProperties DEF Inv, TypeOK
  <2>2. Copied(bytesRead) \in Nat
    BY <2>1 DEF Inv, TypeOK, Copied
  <2>3. list'[cur_file].track = list[cur_file].track
    BY <1>5, <2>1, <2>2, WrittenType DEF copy_chunk
  <2>4. /\ file_bytes_transferred' # filesize /\ cur_file' = cur_file /\ timer' = timer
        /\ transfer_buffer' = transfer_buffer /\ rip_status' = rip_status
    BY <1>5 DEF copy_chunk, FileDone
  <2> QED BY <1>1, <1>2, <1>3, <2>3, <2>4
          DEF SoundCore, MenuOnTop, TimerCopies, WindowShowsTransfer, WindowOpen, filesize, Cur
<1>6. ASSUME finish_file(bytesRead) PROVE SoundCore'
  <2>1. CASE cur_file < Len(list)
    <3>1. /\ cur_file' = cur_file + 1 /\ file_bytes_transferred' = 0 /\ timer' = timer
          /\ transfer_buffer' = transfer_buffer /\ rip_status' = rip_status
      BY <1>6, <2>1 DEF finish_file, MoreFiles
    <3>2. cur_file' # 0
      BY <3>1 DEF Inv, TypeOK
    <3>3. cur_file' \in DOMAIN list'
      BY <3>2, LenProperties DEF Inv, TypeOK
    <3>4. filesize' > 0 /\ filesize' \in Nat
      BY <3>3, SizeOfNextItem DEF filesize, Cur, Inv
    <3> QED BY <1>1, <1>3, <3>1, <3>2, <3>4
            DEF SoundCore, MenuOnTop, TimerCopies, WindowShowsTransfer, WindowOpen
  <2>2. CASE ~(cur_file < Len(list))
    BY <1>4, <1>6, <2>2 DEF finish_file, MoreFiles
  <2> QED BY <2>1, <2>2
<1> QED BY <1>2, <1>4, <1>5, <1>6 DEF do_copy, abort_transfer

\* A transfer starts as one that copies, unless it found nothing.
LEMMA TransferTracksSound ==
    ASSUME SoundInputs, Inv, Inv', SoundCore, transfer_tracks
    PROVE  SoundCore'
<1>1. start_copy /\ ~(MayFail("malloc"))
  BY DEF transfer_tracks, start_copy_no_buffer, SoundInputs, MayFail
<1>2. /\ transfer_buffer' = "live" /\ file_bytes_transferred' = 0 /\ timer' = TRUE
      /\ cur_file' = IF list' = <<>> THEN 0 ELSE 1
      /\ alt' = NULL /\ screen' = "transfer"
  BY <1>1 DEF start_copy, transfer_tracks
<1>3. ASSUME cur_file' # 0 PROVE file_bytes_transferred' # filesize'
  <2>1. cur_file' \in DOMAIN list'
    BY <1>3, LenProperties DEF Inv, TypeOK
  <2> QED BY <1>2, <2>1, SizeOfNextItem DEF filesize, Cur, Inv
<1>4. \/ trans_list_src_ipod' = local_ipod /\ trans_list_dst_ipod' # local_ipod
      \/ trans_list_dst_ipod' = local_ipod /\ trans_list_src_ipod' # local_ipod
  BY TransferAssumption DEF transfer_tracks, Inv, TypeOK
<1> QED BY <1>2, <1>3, <1>4
        DEF SoundCore, MenuOnTop, TimerCopies, WindowShowsTransfer, WindowOpen

\* Every step of the engine keeps it sound.
LEMMA SoundStep ==
    ASSUME SoundInputs, Inv, SoundCore, Next, fault' = "none"
    PROVE  SoundCore'
<1>0. Inv' /\ timer \in BOOLEAN
  BY InvStep DEF Inv, TypeOK
<1> USE DEF SoundCore, MenuOnTop, TimerCopies, WindowShowsTransfer, WindowOpen
<1>1. CASE open_music_menu \/ open_song \/ local_transfer_alt_menu \/ leave_menu
  <2>1. ~timer /\ timer' = timer
    BY <1>1 DEF open_music_menu, open_song, local_transfer_alt_menu, leave_menu,
                transfer_alt_menu, Fail
  <2>2. screen' \in {"songs", "alt", "main"} /\ (alt' # NULL => screen' = "alt")
    <3>1. CASE open_music_menu \/ leave_menu
      BY <3>1 DEF open_music_menu, leave_menu, Back
    <3>2. CASE open_song \/ local_transfer_alt_menu
      BY <3>2 DEF open_song, local_transfer_alt_menu, transfer_alt_menu, Fail
    <3> QED BY <1>1, <3>1, <3>2
  <2> QED BY <2>1, <2>2
<1>2. CASE menu_button
  BY <1>2 DEF menu_button, transfer_list_reset, listVars, Back, countVars, streamVars, filesize, Cur
<1>3. CASE answer_dialog
  <2>1. CASE UNCHANGED <<rip_status, list, streamVars, timer, dbVars, fault>>
    BY <1>3, <2>1 DEF answer_dialog, countVars, streamVars, filesize, Cur
  <2>2. CASE transfer_finished(list, dst_ipod_dirty, db_dirty)
    <3>1. ~timer' /\ rip_status' # TRANSFERRING
      BY <2>2 DEF transfer_finished, MOUNTED, TRANSFERRING
    <3> QED BY <1>3, <3>1 DEF answer_dialog
  <2> QED BY <1>3, <2>1, <2>2 DEF answer_dialog
<1>4. CASE remove_tracks
  BY <1>4 DEF remove_tracks
<1>5. CASE mpd_is_dirty
  BY <1>5 DEF mpd_is_dirty, menuVars, listVars, countVars, streamVars, filesize, Cur
<1>6. ~draw_transfer_widget
  BY DEF draw_transfer_widget, Fail
<1> QED BY <1>0, <1>1, <1>2, <1>3, <1>4, <1>5, <1>6, TimerSound, TransferTracksSound
        DEF Next, Menus

-----------------------------------------------------------------------------
(* What a status machine beside the engine may count on                    *)

WindowsOnTop == MenuOnTop /\ (timer => WindowOpen)

\* No transfer is left, and none can be started from the open menu.
NothingToTransfer == ~timer /\ ~WindowOpen /\ (alt # NULL => ~alt.item)

\* The engine sets the status to two values and leaves the remote database open.
LEMMA StatusSet ==
    ASSUME Next
    PROVE  /\ remote_ipod' = remote_ipod
           /\ rip_status' \in {rip_status, MOUNTED, TRANSFERRING}
<1>1. CASE Menus
  BY <1>1 DEF Menus, open_music_menu, open_song, local_transfer_alt_menu, leave_menu,
      transfer_alt_menu, transfer_tracks, start_copy, start_copy_no_buffer, Fail
<1>2. CASE transfer_widget_timer_handler
  BY <1>2 DEF transfer_widget_timer_handler, start_next_file_fails, finish_after_abort,
      do_copy, copy_chunk, finish_file, abort_transfer, transfer_finished, Fail
<1>3. CASE answer_dialog
  BY <1>3 DEF answer_dialog, transfer_finished
<1> QED BY <1>1, <1>2, <1>3
        DEF Next, draw_transfer_widget, menu_button, remove_tracks, mpd_is_dirty, Fail

\* Windows stay where they belong.
LEMMA WindowsStep ==
    ASSUME Inv, WindowsOnTop, Next
    PROVE  WindowsOnTop'
<1>0. timer \in BOOLEAN
  BY DEF Inv, TypeOK
<1> USE DEF WindowsOnTop, MenuOnTop, WindowOpen
<1>1. CASE open_music_menu \/ open_song \/ local_transfer_alt_menu \/ leave_menu
  BY <1>1 DEF open_music_menu, open_song, local_transfer_alt_menu, leave_menu,
              transfer_alt_menu, Fail, Back, menuVars
<1>2. CASE transfer_tracks
  BY <1>2 DEF transfer_tracks
<1>3. CASE transfer_widget_timer_handler
  <2>1. timer = TRUE /\ screen' = screen /\ alt' = alt
    BY <1>0, <1>3 DEF transfer_widget_timer_handler, start_next_file_fails, Fail, menuVars
  <2> QED BY <2>1
<1>4. CASE menu_button \/ answer_dialog
  <2>1. alt' = alt /\ screen \in {"transfer", "dialog"}
    BY <1>4 DEF menu_button, answer_dialog
  <2>2. CASE answer_dialog
    BY <2>1, <2>2 DEF answer_dialog
  <2>3. CASE menu_button
    BY <2>1, <2>3 DEF menu_button
  <2> QED BY <1>4, <2>2, <2>3
<1>5. CASE draw_transfer_widget \/ mpd_is_dirty
  BY <1>5 DEF draw_transfer_widget, mpd_is_dirty, Fail, menuVars
<1>6. CASE remove_tracks
  BY <1>6 DEF remove_tracks
<1> QED BY <1>1, <1>2, <1>3, <1>4, <1>5, <1>6 DEF Next, Menus

\* The window of a transfer vouches for the databases it is about.
WindowVouches ==
    WindowOpen /\ rip_status = TRANSFERRING =>
        /\ Live(trans_list_src_ipod)
        /\ trans_list_dst_ipod = NULL \/ Live(trans_list_dst_ipod)

\* The window comes up with two open databases and keeps to them.
LEMMA VouchedStep ==
    ASSUME WindowVouches, Next
    PROVE  WindowVouches'
<1>0. remote_ipod' = remote_ipod
  BY StatusSet
<1> USE DEF WindowVouches, WindowOpen, Live
<1>1. CASE transfer_tracks
  BY <1>0, <1>1 DEF transfer_tracks
<1>2. CASE open_music_menu \/ open_song \/ local_transfer_alt_menu \/ leave_menu \/ remove_tracks
  BY <1>2 DEF open_music_menu, open_song, local_transfer_alt_menu, leave_menu, remove_tracks,
              transfer_alt_menu, Fail, Back, menuVars, listVars
<1>3. CASE \/ transfer_widget_timer_handler \/ draw_transfer_widget \/ menu_button
           \/ answer_dialog \/ mpd_is_dirty
  <2>1. WindowOpen' => UNCHANGED <<trans_list_src_ipod, trans_list_dst_ipod>>
    BY <1>3 DEF transfer_widget_timer_handler, start_next_file_fails, draw_transfer_widget,
                menu_button, answer_dialog, mpd_is_dirty, transfer_list_reset, Fail, Back, listVars
  <2>2. WindowOpen' => WindowOpen
    BY <1>3 DEF transfer_widget_timer_handler, start_next_file_fails, draw_transfer_widget,
                menu_button, answer_dialog, mpd_is_dirty, Fail, menuVars
  <2>3. rip_status' \in {rip_status, MOUNTED}
    BY <1>3 DEF transfer_widget_timer_handler, start_next_file_fails, finish_after_abort,
                do_copy, copy_chunk, finish_file, abort_transfer, transfer_finished,
                draw_transfer_widget, menu_button, answer_dialog, mpd_is_dirty, Fail
  <2> QED BY <1>0, <2>1, <2>2, <2>3 DEF MOUNTED, TRANSFERRING
<1> QED BY <1>1, <1>2, <1>3 DEF Next, Menus

\* Without a remote database there is nothing the engine could be started on,
\* and it leaves the status alone.
LEMMA NothingStarts ==
    ASSUME WindowsOnTop, NothingToTransfer, remote_ipod = NULL, Next
    PROVE  NothingToTransfer' /\ rip_status' = rip_status
<1> USE DEF NothingToTransfer, WindowOpen
<1>1. CASE open_music_menu \/ open_song \/ leave_menu \/ transfer_tracks
  BY <1>1 DEF open_music_menu, open_song, leave_menu, transfer_tracks, Fail, Back, menuVars
<1>2. CASE local_transfer_alt_menu
  <2>1. PICK ids \in Selections :
           alt' = [ipod |-> local_ipod, ids |-> ids, item |-> remote_ipod # NULL, sure |-> TRUE]
    BY <1>2 DEF local_transfer_alt_menu, transfer_alt_menu
  <2>2. ~alt'.item
    BY <2>1
  <2> QED BY <1>2, <2>2 DEF local_transfer_alt_menu, transfer_alt_menu
<1>3. CASE remove_tracks \/ mpd_is_dirty
  BY <1>3 DEF remove_tracks, mpd_is_dirty, menuVars
<1> QED BY <1>1, <1>2, <1>3 DEF Next, Menus, transfer_widget_timer_handler,
        draw_transfer_widget, menu_button, answer_dialog

-----------------------------------------------------------------------------
(* Alone, with a remote database that stays as it is, nothing gets lost    *)

NeverLost ==
    /\ screen = "songs" \/ songs => remote_ipod # NULL
    /\ screen = "alt" => Live(alt.ipod)
    /\ alt # NULL => alt.sure /\ alt.ids # <<>> /\ (alt.item => remote_ipod # NULL)
    /\ WindowOpen =>
          /\ list # <<>> /\ remote_ipod # NULL
          /\ remote_ipod \in {trans_list_src_ipod, trans_list_dst_ipod}

NInv == Inv /\ fault = "none" /\ SoundCore /\ NeverLost

\* Copying keeps the items of the list.
LEMMA CopyKeepsDomain ==
    ASSUME do_copy
    PROVE  DOMAIN list' = DOMAIN list
<1>1. \A items : DOMAIN Started(items) = DOMAIN items
  BY DEF Started
<1>2. \A n : DOMAIN Written(list, n) = DOMAIN list
  BY <1>1 DEF Written
<1>3. \A items : DOMAIN WithEntry(items) = DOMAIN items
  BY DEF WithEntry
<1>4. ASSUME NEW items, NEW dirty, NEW dbs, transfer_finished(items, dirty, dbs)
      PROVE  DOMAIN list' = DOMAIN items
  BY <1>4 DEF transfer_finished, flush_destination, Saved
<1>5. ASSUME NEW n, copy_chunk(n) PROVE DOMAIN list' = DOMAIN list
  BY <1>2, <1>5 DEF copy_chunk
<1>6. ASSUME NEW n, finish_file(n) PROVE DOMAIN list' = DOMAIN list
  <2> DEFINE items == WithEntry(Written(list, Copied(n)))
  <2>1. DOMAIN items = DOMAIN list
    BY <1>2, <1>3
  <2>2. list' = items \/ transfer_finished(items, TRUE, Dirtied)
    BY <1>6 DEF finish_file
  <2> HIDE DEF items
  <2> QED BY <1>4, <2>1, <2>2
<1> QED BY <1>1, <1>4, <1>5, <1>6 DEF do_copy, abort_transfer

\* A list that names tracks of an open database is found there.
LEMMA FoundSomething ==
    ASSUME NEW ids \in Seq(Tracks), ids # <<>>, NEW f \in FoundIn(ids, TRUE)
    PROVE  transfer_list_of(ids, f) # <<>>
<1>1. PICK n \in 0..Len(ids) : f \in [1..n -> DOMAIN ids]
  BY DEF FoundIn
<1>2. Len(f) = Len(ids) /\ Len(ids) \in Nat /\ Len(ids) # 0
  BY EmptySeq, LenProperties DEF FoundIn
<1>3. DOMAIN f = 1..n /\ n \in Nat /\ Len(f) = n
  BY <1>1, <1>2
<1>4. 1 \in DOMAIN transfer_list_of(ids, f)
  BY <1>2, <1>3 DEF transfer_list_of
<1> QED BY <1>4

\* No step loses anything.
LEMMA NeverLostStep ==
    ASSUME SoundInputs, <<>> \notin Selections, Inv, SoundCore, NeverLost, Next,
           fault' = "none"
    PROVE  NeverLost'
<1>0. alt # NULL => alt \in TransferMenu
  BY DEF Inv, TypeOK
<1>1. CASE open_music_menu \/ leave_menu
  <2>1. UNCHANGED <<remote_ipod, list, trans_list_src_ipod, trans_list_dst_ipod>>
    BY <1>1 DEF open_music_menu, leave_menu, listVars
  <2>2. screen' \in {"songs", "main"} /\ alt' \in {alt, NULL}
    BY <1>1 DEF open_music_menu, leave_menu, Back
  <2>3. screen' = "songs" \/ songs' => remote_ipod # NULL
    BY <1>1 DEF open_music_menu, leave_menu, Back, NeverLost
  <2> QED BY <2>1, <2>2, <2>3 DEF NeverLost, WindowOpen
<1>2. ASSUME NEW ipod, Live(ipod), transfer_alt_menu(ipod), songs => remote_ipod # NULL
      PROVE  NeverLost'
  <2>1. PICK ids \in Selections :
           alt' = [ipod |-> ipod, ids |-> ids, item |-> remote_ipod # NULL, sure |-> TRUE]
    BY <1>2 DEF transfer_alt_menu
  <2>2. alt'.ipod = ipod /\ alt'.ids # <<>> /\ alt'.sure /\ (alt'.item => remote_ipod # NULL)
    BY <2>1
  <2>3. remote_ipod' = remote_ipod /\ songs' = songs /\ screen' = "alt"
    BY <1>2 DEF transfer_alt_menu
  <2> QED BY <1>2, <2>2, <2>3 DEF NeverLost, WindowOpen, Live
<1>3. CASE open_song
  <2>1. remote_ipod # NULL /\ transfer_alt_menu(remote_ipod)
    BY <1>3 DEF open_song, Fail
  <2> QED BY <1>2, <2>1 DEF Live
<1>4. CASE local_transfer_alt_menu
  BY <1>2, <1>4 DEF local_transfer_alt_menu, Live, NeverLost
<1>5. CASE transfer_tracks
  <2>1. PICK f \in FoundIn(alt.ids, alt.sure) : list' = transfer_list_of(alt.ids, f)
    BY <1>5 DEF transfer_tracks
  <2>2. alt # NULL /\ alt \in TransferMenu /\ alt.sure = TRUE /\ alt.ids # <<>>
        /\ remote_ipod # NULL /\ Live(alt.ipod)
    BY <1>0, <1>5 DEF transfer_tracks, NeverLost, TransferMenu
  <2>3. list' # <<>>
    <3>1. alt.ids \in Seq(Tracks)
      BY <2>2 DEF TransferMenu
    <3>2. f \in FoundIn(alt.ids, TRUE)
      BY <2>1, <2>2
    <3> QED BY <2>1, <2>2, <3>1, <3>2, FoundSomething
  <2>4. remote_ipod \in {trans_list_src_ipod', trans_list_dst_ipod'}
    BY <1>5, <2>2 DEF transfer_tracks, Live
  <2>5. remote_ipod' = remote_ipod /\ songs' = songs /\ screen' = "transfer" /\ alt' = NULL
    BY <1>5 DEF transfer_tracks
  <2> QED BY <2>2, <2>3, <2>4, <2>5 DEF NeverLost, WindowOpen
<1>6. CASE transfer_widget_timer_handler
  <2>1. do_copy /\ StillTyped
    BY <1>6 DEF transfer_widget_timer_handler, start_next_file_fails,
                finish_after_abort, Fail, StillTyped
  <2>2. DOMAIN list' = DOMAIN list /\ list # <<>>
    BY <1>6, <2>1, CopyKeepsDomain
       DEF transfer_widget_timer_handler, NeverLost, WindowOpen
  <2>3. list' # <<>>
    <3>1. Len(list) # 0 /\ DOMAIN list = 1..Len(list) /\ Len(list) \in Nat
      BY <2>2, EmptySeq, LenProperties DEF Inv, TypeOK
    <3>2. 1 \in DOMAIN list'
      BY <2>2, <3>1
    <3> QED BY <3>2
  <2> QED BY <2>1, <2>3 DEF StillTyped, menuVars, NeverLost, WindowOpen, Live
<1>7. CASE menu_button
  <2>1. UNCHANGED <<remote_ipod, songs, alt>> /\ screen = "transfer"
    BY <1>7 DEF menu_button
  <2>2. CASE screen' = "dialog" /\ UNCHANGED listVars
    BY <2>1, <2>2 DEF NeverLost, WindowOpen, listVars
  <2>3. CASE screen' = Back
    BY <2>1, <2>3 DEF NeverLost, WindowOpen, Back
  <2> QED BY <1>7, <2>2, <2>3 DEF menu_button
<1>8. CASE answer_dialog
  <2>1. /\ UNCHANGED <<remote_ipod, songs, alt, trans_list_src_ipod, trans_list_dst_ipod>>
        /\ screen = "dialog" /\ screen' = "transfer"
    BY <1>8 DEF answer_dialog
  <2>2. DOMAIN list' = DOMAIN list
    BY <1>8 DEF answer_dialog, transfer_finished, flush_destination, Saved
  <2>3. list # <<>> /\ Len(list) \in Nat /\ Len(list) # 0 /\ DOMAIN list = 1..Len(list)
    BY <2>1, EmptySeq, LenProperties DEF NeverLost, WindowOpen, Inv, TypeOK
  <2>4. 1 \in DOMAIN list'
    BY <2>2, <2>3
  <2>5. list' # <<>>
    BY <2>4
  <2> QED BY <2>1, <2>5 DEF NeverLost, WindowOpen
<1>9. CASE remove_tracks
  BY <1>9 DEF remove_tracks, NeverLost, WindowOpen
<1>10. CASE mpd_is_dirty
  BY <1>10 DEF mpd_is_dirty, menuVars, listVars, NeverLost, WindowOpen, Live
<1>11. ~draw_transfer_widget
  BY DEF draw_transfer_widget, Fail
<1> QED BY <1>1, <1>3, <1>4, <1>5, <1>6, <1>7, <1>8, <1>9, <1>10, <1>11 DEF Next, Menus

\* With what it can deal with, and a remote database that is not closed under
\* it, the engine never uses a pointer it must not use, divides by zero or frees
\* twice, whatever lists are transferred and wherever a read or a write fails or
\* MENU is pressed (transfer.c:286-345, 475-561).
THEOREM EngineNeverFaults ==
    SoundInputs /\ <<>> \notin Selections => (Spec => []NoFault)
<1> SUFFICES ASSUME SoundInputs, <<>> \notin Selections PROVE Spec => []NoFault
  OBVIOUS
<1>1. Init => NInv
  <2> SUFFICES ASSUME Init PROVE SoundCore /\ NeverLost /\ fault = "none" /\ Inv
    BY DEF NInv
  <2> QED BY InitInv DEF Init, NothingTransferred, SoundCore, MenuOnTop, TimerCopies,
                         WindowShowsTransfer, WindowOpen, NeverLost
<1>2. NInv /\ [Next]_vars => NInv'
  <2> SUFFICES ASSUME NInv, [Next]_vars PROVE NInv'
    OBVIOUS
  <2>1. Inv'
    BY InvStep DEF NInv
  <2>2. CASE Next
    <3>1. ~Lost
      BY DEF NInv, NeverLost, Lost, WindowOpen
    <3>2. fault' = "none"
      BY <2>2, <3>1, FaultMeansLost DEF NInv, Inv
    <3> QED BY <2>1, <2>2, <3>2, SoundStep, NeverLostStep DEF NInv
  <2>3. CASE UNCHANGED vars
    BY <2>1, <2>3 DEF vars, menuVars, listVars, countVars, streamVars, NInv, SoundCore, MenuOnTop,
           TimerCopies, WindowShowsTransfer, WindowOpen, NeverLost, Live, filesize, Cur
  <2> QED BY <2>2, <2>3
<1>3. NInv => NoFault
  BY DEF NInv, NoFault
<1> QED BY <1>1, <1>2, <1>3, PTL DEF Spec

-----------------------------------------------------------------------------
(***************************************************************************)
(* A transfer works its list off in order, with counters that agree with   *)
(* the files, through streams that are open exactly as long as it runs,    *)
(* and mpd hears of what it did: for any tracks, sizes and lists, and      *)
(* whatever other system calls fail, as long as no undefined behaviour     *)
(* came before.                                                            *)
(*                                                                         *)
(* None of these is inductive alone: which items are still new says that   *)
(* the next file is opened anew, the streams say that a named item has a   *)
(* live destination, and this that a finished file gets its entry.         *)
(***************************************************************************)

\* While there is a current item.
Working ==
    /\ rip_status = TRANSFERRING /\ transfer_buffer = "live"
    /\ srcFile = Cur.named /\ dstFile = Cur.named
    /\ total_files_transferred = cur_file - 1 /\ file_bytes_transferred = Cur.written
    /\ Cur.named => Live(trans_list_dst_ipod)
    /\ \A i \in DOMAIN list :
          /\ i < cur_file <=> list[i].entry # "none"
          /\ i > cur_file => list[i] = NewItem(list[i].track)

\* The transfer window keeps the menus away.
TimerHasWindow == timer => screen \in {"transfer", "dialog"} /\ alt = NULL

\* As long as telling mpd works.
Untold == "mpd" \notin Failures /\ mpd_behind /\ ~mpd_dirty

\* Only a transfer to the local iPod that is under way has not told mpd yet.
MpdWillHear ==
    Untold =>
        timer /\ cur_file # 0 /\ dst_ipod_dirty /\ trans_list_dst_ipod = local_ipod

NothingOpen == ~timer => transfer_buffer # "live" /\ ~srcFile /\ ~dstFile

\* A transfer that found no tracks, or no buffer.
NoCurrent ==
    timer /\ cur_file = 0 =>
        ~srcFile /\ ~dstFile /\ (transfer_buffer = "live" => rip_status = TRANSFERRING)

Core ==
    TimerHasWindow /\ MpdWillHear /\ NothingOpen /\ NoCurrent /\ (timer /\ cur_file # 0 => Working)

EInv == Inv /\ (fault = "none" => Core)

-----------------------------------------------------------------------------
(* Ends of a transfer                                                      *)

\* What holds when no transfer is left.
LEMMA OverCore ==
    ASSUME ~timer', transfer_buffer' # "live", ~srcFile', ~dstFile', ~Untold'
    PROVE  Core'
  BY DEF Core, TimerHasWindow, MpdWillHear, Untold, NothingOpen, NoCurrent

\* transfer_finished() stops everything, and tells mpd if the local iPod changed.
LEMMA FinishedEnds ==
    ASSUME NEW items, NEW dirty \in BOOLEAN, NEW dbs, Inv, transfer_finished(items, dirty, dbs)
    PROVE  /\ ~timer' /\ transfer_buffer' # "live" /\ ~srcFile' /\ ~dstFile'
           /\ mpd_dirty => mpd_dirty'
           /\ dirty /\ trans_list_dst_ipod = local_ipod => mpd_dirty'
<1>1. mpd_dirty \in BOOLEAN
  BY DEF Inv, TypeOK
<1>2. trans_list_dst_ipod = local_ipod => Live(trans_list_dst_ipod)
  BY DEF Live
<1> QED BY <1>1, <1>2 DEF transfer_finished, flush_destination

\* So a transfer that is aborted leaves nothing behind.
LEMMA AbortedCore ==
    ASSUME Inv, Core, NEW items, transfer_finished(items, dst_ipod_dirty, db_dirty),
           mpd_behind' = mpd_behind
    PROVE  Core'
<1>1. dst_ipod_dirty \in BOOLEAN
  BY DEF Inv, TypeOK
<1>2. ~Untold'
  BY <1>1, FinishedEnds DEF Core, MpdWillHear, Untold
<1> QED BY <1>1, <1>2, FinishedEnds, OverCore

-----------------------------------------------------------------------------
(* Copying                                                                 *)

\* The current item gets an entry, and only it.
LEMMA WithEntryType ==
    ASSUME NEW items \in Seq(Items), cur_file \in 1..Len(items), Live(trans_list_dst_ipod)
    PROVE  /\ Len(WithEntry(items)) = Len(items)
           /\ WithEntry(items) \in Seq(Items)
           /\ \A i \in 1..Len(items) : i # cur_file => WithEntry(items)[i] = items[i]
           /\ WithEntry(items)[cur_file].entry = "added"
<1> DEFINE it == [items[cur_file] EXCEPT !.entry = "added"]
<1>1. items[cur_file] \in Items
  BY ElementOfSeq
<1>2. it \in Items /\ it.entry = "added"
  BY <1>1, ItemFields
<1>3. WithEntry(items) = [items EXCEPT ![cur_file] = it]
  BY DEF WithEntry
<1> HIDE DEF it
<1> QED BY <1>2, <1>3, ExceptSeq

\* A chunk that is not the file's last one.
LEMMA ChunkCore ==
    ASSUME Inv, Core, timer, cur_file # 0, NEW n \in Nat, copy_chunk(n), StillTyped,
           Live(trans_list_dst_ipod)
    PROVE  Core'
<1>1. cur_file \in 1..Len(list) /\ list \in Seq(Items) /\ Len(list) \in Nat
      /\ DOMAIN list = 1..Len(list)
  BY CurType, LenProperties DEF Inv, TypeOK
<1>2. Copied(n) \in Nat
  BY DEF Inv, TypeOK, Copied
<1>3. Working
  BY DEF Core
<1>4. /\ list' \in Seq(Items) /\ Len(list') = Len(list)
      /\ \A i \in DOMAIN list : i # cur_file => list'[i] = list[i]
      /\ list'[cur_file].entry = list[cur_file].entry
      /\ list'[cur_file].named /\ list'[cur_file].written = Copied(n)
  BY <1>1, <1>2, WrittenType DEF copy_chunk
<1>5. /\ file_bytes_transferred' = Copied(n) /\ srcFile' = TRUE /\ dstFile' = TRUE
      /\ rip_status' = rip_status /\ cur_file' = cur_file /\ timer' = timer
      /\ total_files_transferred' = total_files_transferred
      /\ dst_ipod_dirty' = dst_ipod_dirty /\ transfer_buffer' = transfer_buffer
      /\ mpd_dirty' = mpd_dirty /\ mpd_behind' = mpd_behind
  BY DEF copy_chunk, dbVars
<1>6. /\ remote_ipod' = remote_ipod /\ screen' = screen /\ alt' = alt
      /\ trans_list_dst_ipod' = trans_list_dst_ipod
  BY DEF StillTyped, menuVars
<1>7. list'[cur_file] \in Items
  BY <1>1, <1>4, ElementOfSeq
<1>8. list'[cur_file].named = TRUE
  BY <1>4, <1>7 DEF Items
<1>9. DOMAIN list' = DOMAIN list
  BY <1>1, <1>4, LenProperties
<1>10. \A i \in DOMAIN list' :
          /\ i < cur_file' <=> list'[i].entry # "none"
          /\ i > cur_file' => list'[i] = NewItem(list'[i].track)
  <2> SUFFICES ASSUME NEW i \in DOMAIN list
               PROVE  /\ i < cur_file <=> list'[i].entry # "none"
                      /\ i > cur_file => list'[i] = NewItem(list'[i].track)
    BY <1>5, <1>9
  <2>1. /\ i < cur_file <=> list[i].entry # "none"
        /\ i > cur_file => list[i] = NewItem(list[i].track)
    BY <1>3 DEF Working
  <2>2. CASE i = cur_file
    BY <1>1, <1>4, <2>1, <2>2
  <2>3. CASE i # cur_file
    BY <1>4, <2>1, <2>3
  <2> QED BY <2>2, <2>3
<1>11. Working'
  BY <1>3, <1>4, <1>5, <1>6, <1>8, <1>10 DEF Working, Cur, Live
<1>12. TimerHasWindow' /\ MpdWillHear' /\ NothingOpen' /\ NoCurrent'
  BY <1>5, <1>6 DEF Core, TimerHasWindow, MpdWillHear, Untold, NothingOpen, NoCurrent
<1> QED BY <1>11, <1>12 DEF Core

\* The last chunk of a file: the next item, if there is one, is new.
LEMMA FinishCore ==
    ASSUME Inv, Inv', Core, timer, cur_file # 0, NEW n \in Nat, finish_file(n), StillTyped,
           Live(trans_list_dst_ipod)
    PROVE  Core'
<1>1. cur_file \in 1..Len(list) /\ list \in Seq(Items) /\ Len(list) \in Nat
      /\ DOMAIN list = 1..Len(list)
  BY CurType, LenProperties DEF Inv, TypeOK
<1>2. Copied(n) \in Nat /\ mpd_behind \in BOOLEAN /\ total_files_transferred \in Nat
  BY DEF Inv, TypeOK, Copied
<1>3. Working
  BY DEF Core
<1> DEFINE written == Written(list, Copied(n))
<1> DEFINE items == WithEntry(written)
<1>4. /\ written \in Seq(Items) /\ Len(written) = Len(list)
      /\ \A i \in DOMAIN list : i # cur_file => written[i] = list[i]
  BY <1>1, <1>2, WrittenType
<1>5. /\ items \in Seq(Items) /\ Len(items) = Len(list)
      /\ \A i \in DOMAIN list : i # cur_file => items[i] = list[i]
      /\ items[cur_file].entry = "added"
  <2> HIDE DEF written
  <2>1. /\ items \in Seq(Items) /\ Len(items) = Len(written)
        /\ \A i \in 1..Len(written) : i # cur_file => items[i] = written[i]
        /\ items[cur_file].entry = "added"
    BY <1>1, <1>4, WithEntryType
  <2> HIDE DEF items
  <2> QED BY <1>1, <1>4, <2>1
<1>6. /\ dst_ipod_dirty' = TRUE /\ file_bytes_transferred' = 0
      /\ total_files_transferred' = total_files_transferred + 1
      /\ mpd_behind' = (mpd_behind \/ trans_list_dst_ipod = local_ipod)
  BY DEF finish_file
<1>7. /\ remote_ipod' = remote_ipod /\ screen' = screen /\ alt' = alt
      /\ trans_list_dst_ipod' = trans_list_dst_ipod
  BY DEF StillTyped, menuVars
<1>8. CASE cur_file < Len(list)
  <2>1. /\ cur_file' = cur_file + 1 /\ list' = items
        /\ srcFile' = FALSE /\ dstFile' = FALSE
        /\ rip_status' = rip_status /\ transfer_buffer' = transfer_buffer /\ timer' = timer
        /\ mpd_dirty' = mpd_dirty
    BY <1>8 DEF finish_file, MoreFiles
  <2> HIDE DEF items, written
  <2>2. DOMAIN list' = DOMAIN list
    BY <1>1, <1>5, <2>1, LenProperties
  <2>3. \A i \in DOMAIN list' :
           /\ i < cur_file' <=> list'[i].entry # "none"
           /\ i > cur_file => list'[i] = NewItem(list'[i].track)
    <3> SUFFICES ASSUME NEW i \in DOMAIN list
                 PROVE  /\ i < cur_file + 1 <=> list'[i].entry # "none"
                        /\ i > cur_file => list'[i] = NewItem(list'[i].track)
      BY <1>1, <2>1, <2>2
    <3>1. /\ i < cur_file <=> list[i].entry # "none"
          /\ i > cur_file => list[i] = NewItem(list[i].track)
      BY <1>3 DEF Working
    <3>2. CASE i = cur_file
      BY <1>1, <1>5, <2>1, <3>2
    <3>3. CASE i # cur_file
      BY <1>1, <1>5, <2>1, <3>1, <3>3
    <3> QED BY <3>2, <3>3
  <2>4. cur_file' \in DOMAIN list' /\ cur_file' > cur_file /\ cur_file' # 0
    BY <1>1, <1>8, <2>1, <2>2
  <2>5. list'[cur_file'] = NewItem(list'[cur_file'].track)
    BY <1>1, <2>3, <2>4
  <2>6. Cur'.named = FALSE /\ Cur'.written = 0
    BY <2>5 DEF Cur, NewItem
  <2>7. total_files_transferred' = cur_file' - 1
    BY <1>1, <1>3, <1>6, <2>1 DEF Working
  <2>8. \A i \in DOMAIN list' :
           /\ i < cur_file' <=> list'[i].entry # "none"
           /\ i > cur_file' => list'[i] = NewItem(list'[i].track)
    BY <1>1, <2>1, <2>2, <2>3
  <2>9. Working'
    BY <1>3, <1>6, <2>1, <2>6, <2>7, <2>8 DEF Working
  <2>10. TimerHasWindow' /\ NothingOpen' /\ NoCurrent'
    BY <1>7, <2>1, <2>4 DEF Core, TimerHasWindow, NothingOpen, NoCurrent
  <2>11. MpdWillHear'
    BY <1>2, <1>6, <1>7, <2>1, <2>4 DEF Core, MpdWillHear, Untold
  <2> QED BY <2>9, <2>10, <2>11 DEF Core
<1>9. CASE ~(cur_file < Len(list))
  <2>1. transfer_finished(items, TRUE, Dirtied)
    BY <1>9 DEF finish_file, MoreFiles
  <2> HIDE DEF items
  <2>2. /\ ~timer' /\ transfer_buffer' # "live" /\ ~srcFile' /\ ~dstFile'
        /\ mpd_dirty => mpd_dirty'
        /\ trans_list_dst_ipod = local_ipod => mpd_dirty'
    BY <2>1, FinishedEnds
  <2>3. ~Untold'
    BY <1>2, <1>6, <2>2 DEF Core, MpdWillHear, Untold
  <2> QED BY <2>2, <2>3, OverCore
<1> QED BY <1>8, <1>9

\* A tick of the timer.
LEMMA TimerCore ==
    ASSUME Inv, Inv', Core, transfer_widget_timer_handler, fault' = "none"
    PROVE  Core'
<1>1. timer /\ fault = "none"
  BY DEF transfer_widget_timer_handler
<1>2. /\ cur_file # 0 /\ do_copy /\ StillTyped
      /\ Cur.named \/ Live(trans_list_dst_ipod)
  BY <1>1 DEF transfer_widget_timer_handler, start_next_file_fails,
              finish_after_abort, Fail, StillTyped
<1>3. Live(trans_list_dst_ipod)
  BY <1>1, <1>2 DEF Core, Working
<1>4. CASE bytesRead > 0 /\ (copy_chunk(bytesRead) \/ finish_file(bytesRead))
  <2>1. bytesRead \in Nat
    BY <1>2, <1>4, CurType DEF Inv
  <2> QED BY <1>1, <1>2, <1>3, <1>4, <2>1, ChunkCore, FinishCore
<1>5. CASE abort_transfer(Started(list))
  BY <1>5, AbortedCore DEF abort_transfer
<1> QED BY <1>2, <1>4, <1>5 DEF do_copy

-----------------------------------------------------------------------------
(* The other steps                                                         *)

\* A step that is none of the transfer's.
LEMMA SameCore ==
    ASSUME Core, UNCHANGED <<rip_status, remote_ipod, listVars, cur_file, countVars,
                             dst_ipod_dirty, streamVars, timer>>,
           TimerHasWindow', MpdWillHear'
    PROVE  Core'
  BY DEF Core, Working, Cur, Live, NothingOpen, NoCurrent, listVars, countVars, streamVars

\* The answer to "Really abort transfer?".
LEMMA DialogCore ==
    ASSUME Inv, Core, answer_dialog
    PROVE  Core'
<1>1. CASE UNCHANGED <<rip_status, list, streamVars, timer, dbVars, fault>>
  <2>1. TimerHasWindow' /\ MpdWillHear'
    BY <1>1 DEF answer_dialog, Core, TimerHasWindow, MpdWillHear, Untold, dbVars
  <2>2. UNCHANGED <<rip_status, remote_ipod, listVars, cur_file, countVars,
                    dst_ipod_dirty, streamVars, timer>>
    BY <1>1 DEF answer_dialog, listVars
  <2> QED BY <2>1, <2>2, SameCore
<1>2. CASE transfer_finished(list, dst_ipod_dirty, db_dirty) /\ UNCHANGED mpd_behind
  BY <1>2, AbortedCore
<1> QED BY <1>1, <1>2 DEF answer_dialog

\* The Transfer menu is only there when no transfer is left.
LEMMA MenuMeansOver ==
    ASSUME Core, Inv, alt # NULL \/ screen \in {"main", "songs", "alt"}
    PROVE  /\ ~timer /\ transfer_buffer # "live" /\ ~srcFile /\ ~dstFile
           /\ ~Untold
  BY DEF Core, TimerHasWindow, NothingOpen, MpdWillHear, Untold

\* A transfer begins: every item is new.
LEMMA TransferTracksCore ==
    ASSUME Inv, Inv', Core, transfer_tracks
    PROVE  Core'
<1>1. /\ transfer_buffer # "live" /\ ~srcFile /\ ~dstFile
      /\ ~Untold
  BY MenuMeansOver DEF transfer_tracks
<1>2. /\ screen' = "transfer" /\ alt' = NULL /\ timer' = TRUE /\ remote_ipod' = remote_ipod
      /\ srcFile' = srcFile /\ dstFile' = dstFile
      /\ mpd_dirty' = mpd_dirty /\ mpd_behind' = mpd_behind
  BY DEF transfer_tracks, dbVars
<1>3. PICK f \in FoundIn(alt.ids, alt.sure) : list' = transfer_list_of(alt.ids, f)
  BY DEF transfer_tracks
<1>4. \A i \in DOMAIN list' : list'[i] = NewItem(list'[i].track)
  BY <1>3 DEF transfer_list_of, NewItem
<1>5. TimerHasWindow' /\ MpdWillHear' /\ NothingOpen'
  BY <1>1, <1>2 DEF TimerHasWindow, MpdWillHear, Untold, NothingOpen
<1>6. CASE start_copy
  <2>1. /\ transfer_buffer' = "live" /\ rip_status' = TRANSFERRING
        /\ total_files_transferred' = 0 /\ file_bytes_transferred' = 0
        /\ cur_file' = IF list' = <<>> THEN 0 ELSE 1
    BY <1>6 DEF start_copy
  <2>2. NoCurrent'
    BY <1>1, <1>2, <2>1 DEF NoCurrent
  <2>3. CASE cur_file' = 0
    BY <1>5, <2>2, <2>3 DEF Core
  <2>4. CASE cur_file' # 0
    <3>1. cur_file' = 1
      BY <2>1, <2>4
    <3>2. list' \in Seq(Items) /\ 1 \in 0..Len(list') /\ Len(list') \in Nat
      BY <3>1 DEF Inv, TypeOK
    <3>3. 1 \in DOMAIN list' /\ DOMAIN list' \subseteq Nat /\ \A i \in DOMAIN list' : i >= 1
      BY <3>2, LenProperties
    <3>4. Cur'.named = FALSE /\ Cur'.written = 0
      BY <1>4, <3>1, <3>3 DEF Cur, NewItem
    <3>5. \A i \in DOMAIN list' : list'[i].entry = "none"
      BY <1>4 DEF NewItem
    <3>6. srcFile' = FALSE /\ dstFile' = FALSE
      BY <1>1, <1>2 DEF Inv, TypeOK
    <3>7. \A i \in DOMAIN list' :
             /\ i < cur_file' <=> list'[i].entry # "none"
             /\ i > cur_file' => list'[i] = NewItem(list'[i].track)
      <4> SUFFICES ASSUME NEW i \in DOMAIN list'
                   PROVE  /\ i < 1 <=> list'[i].entry # "none"
                          /\ i > 1 => list'[i] = NewItem(list'[i].track)
        BY <3>1
      <4>1. i \in Nat /\ i >= 1
        BY <3>3
      <4> QED BY <1>4, <3>5, <4>1
    <3>8. total_files_transferred' = cur_file' - 1
      BY <2>1, <3>1
    <3>9. Working'
      BY <2>1, <3>4, <3>6, <3>7, <3>8 DEF Working
    <3> QED BY <1>5, <2>2, <3>9 DEF Core
  <2> QED BY <2>3, <2>4
<1>7. CASE start_copy_no_buffer
  <2>1. cur_file' = 0 /\ transfer_buffer' = "null"
    BY <1>7 DEF start_copy_no_buffer
  <2>2. NoCurrent'
    BY <1>1, <1>2, <2>1 DEF NoCurrent
  <2> QED BY <1>5, <2>1, <2>2 DEF Core
<1> QED BY <1>6, <1>7 DEF transfer_tracks

\* Opening and leaving menus.
LEMMA MenusCore ==
    ASSUME Inv, Core, fault' = "none", fault = "none",
           open_music_menu \/ open_song \/ local_transfer_alt_menu \/ leave_menu
    PROVE  Core'
<1> USE DEF open_music_menu, open_song, local_transfer_alt_menu, leave_menu, transfer_alt_menu
<1>1. ~timer
  BY MenuMeansOver
<1>2. UNCHANGED <<rip_status, remote_ipod, listVars, cur_file, countVars,
                  dst_ipod_dirty, streamVars, timer, dbVars>>
  BY DEF Fail
<1>3. TimerHasWindow'
  BY <1>1, <1>2 DEF TimerHasWindow
<1>4. MpdWillHear'
  BY <1>2 DEF Core, MpdWillHear, Untold, listVars, dbVars
<1> QED BY <1>2, <1>3, <1>4, SameCore

\* The MENU button asks first while there is something to lose.
LEMMA MenuButtonCore ==
    ASSUME Inv, Core, menu_button
    PROVE  Core'
<1>0. UNCHANGED <<rip_status, remote_ipod, alt, countVars, dst_ipod_dirty, streamVars, dbVars>>
  BY DEF menu_button
<1>1. CASE screen' = "dialog" /\ UNCHANGED <<listVars, cur_file, timer>>
  <2>1. TimerHasWindow'
    BY <1>0, <1>1 DEF Core, TimerHasWindow
  <2>2. MpdWillHear'
    BY <1>0, <1>1 DEF Core, MpdWillHear, Untold, listVars, dbVars
  <2> QED BY <1>0, <1>1, <2>1, <2>2, SameCore
<1>2. CASE rip_status # TRANSFERRING /\ timer' = FALSE
  <2>1. ~(timer /\ cur_file # 0)
    BY <1>2 DEF Core, Working
  <2>2. transfer_buffer # "live" /\ ~srcFile /\ ~dstFile /\ ~Untold
    BY <1>2, <2>1 DEF Core, NoCurrent, NothingOpen, MpdWillHear, Untold
  <2>3. transfer_buffer' # "live" /\ ~srcFile' /\ ~dstFile' /\ ~Untold'
    BY <1>0, <2>2 DEF streamVars, dbVars, Untold
  <2> QED BY <1>2, <2>3, OverCore
<1> QED BY <1>1, <1>2 DEF menu_button

\* Removing tracks tells mpd at once, and telling it leaves nothing to tell.
LEMMA MpdCore ==
    ASSUME Inv, Core, fault' = "none", remove_tracks \/ mpd_is_dirty
    PROVE  Core'
<1>1. UNCHANGED <<rip_status, remote_ipod, listVars, cur_file, countVars,
                  dst_ipod_dirty, streamVars, timer>>
  BY DEF remove_tracks, mpd_is_dirty
<1>2. CASE remove_tracks
  <2>1. ~timer /\ ~Untold
    BY <1>2, MenuMeansOver DEF remove_tracks
  <2>2. TimerHasWindow'
    BY <1>1, <2>1 DEF TimerHasWindow
  <2>3. mpd_dirty \in BOOLEAN /\ mpd_behind \in BOOLEAN
    BY DEF Inv, TypeOK
  <2>4. ~Untold'
    BY <1>2, <2>1, <2>3 DEF remove_tracks, dbVars, Untold
  <2> QED BY <1>1, <2>2, <2>4, SameCore DEF MpdWillHear, Untold
<1>3. CASE mpd_is_dirty
  <2>1. TimerHasWindow'
    BY <1>1, <1>3 DEF mpd_is_dirty, Core, TimerHasWindow, menuVars
  <2>2. ~Untold'
    BY <1>3 DEF mpd_is_dirty, MayFail, Untold
  <2> QED BY <1>1, <2>1, <2>2, SameCore DEF MpdWillHear, Untold
<1> QED BY <1>2, <1>3

-----------------------------------------------------------------------------
(* The invariant                                                           *)

\* It holds at the start.
LEMMA EndInit == Init => EInv
<1> SUFFICES ASSUME Init PROVE EInv
  OBVIOUS
<1>1. Inv
  BY InitInv
<1>2. Core
  BY DEF Init, NothingTransferred, Core, TimerHasWindow, MpdWillHear, Untold, NothingOpen, NoCurrent
<1> QED BY <1>1, <1>2 DEF EInv

\* And every step keeps it, whatever fails.
LEMMA EndStep == EInv /\ [Next]_vars => EInv'
<1> SUFFICES ASSUME EInv, [Next]_vars PROVE EInv'
  OBVIOUS
<1>1. Inv /\ Inv'
  BY InvStep DEF EInv
<1> SUFFICES ASSUME fault' = "none" PROVE Core'
  BY <1>1 DEF EInv
<1>2. CASE Next
  <2>1. fault = "none" /\ Core
    BY <1>2 DEF EInv, Next, Menus, transfer_widget_timer_handler, draw_transfer_widget,
                menu_button, answer_dialog, remove_tracks, mpd_is_dirty
  <2>2. ~draw_transfer_widget
    BY DEF draw_transfer_widget, Fail
  <2>3. CASE Menus
    BY <1>1, <2>1, <2>3, MenusCore, TransferTracksCore DEF Menus
  <2> QED BY <1>1, <1>2, <2>1, <2>2, <2>3, TimerCore, DialogCore, MenuButtonCore, MpdCore DEF Next
<1>3. CASE UNCHANGED vars
  <2>1. Core
    BY <1>3 DEF EInv, vars
  <2>2. UNCHANGED <<rip_status, remote_ipod, listVars, cur_file, countVars,
                    dst_ipod_dirty, streamVars, timer, menuVars, dbVars>>
    BY <1>3 DEF vars
  <2>3. TimerHasWindow' /\ MpdWillHear'
    BY <2>1, <2>2 DEF Core, TimerHasWindow, MpdWillHear, Untold, menuVars, listVars, dbVars
  <2> QED BY <2>1, <2>2, <2>3, SameCore
<1> QED BY <1>2, <1>3

\* What it says of the properties that the runs check.
LEMMA EndMeans ==
    /\ EInv => DoneUpToCurrent
    /\ EInv => CountersAgree
    /\ EInv => StreamsFollowTimer
    /\ EInv /\ "mpd" \notin Failures => MpdWillCatchUp
<1>1. EInv => DoneUpToCurrent
  BY DEF EInv, Core, Working, DoneUpToCurrent, Running
<1>2. EInv => CountersAgree
  BY DEF EInv, Core, Working, CountersAgree, Running
<1>3. EInv => StreamsFollowTimer
  BY DEF EInv, Core, Working, NothingOpen, StreamsFollowTimer, Running, Over
<1>4. EInv /\ "mpd" \notin Failures => MpdWillCatchUp
  BY DEF EInv, Core, MpdWillHear, Untold, MpdWillCatchUp, Over
<1> QED BY <1>1, <1>2, <1>3, <1>4

-----------------------------------------------------------------------------
\* A running transfer has exactly the items before the current one in the
\* database, and has not begun any behind it (transfer.c:388-410).
THEOREM WorkedOffInOrder == Spec => []DoneUpToCurrent
BY EndInit, EndStep, EndMeans, PTL DEF Spec

\* The numbers on the screen are those of the files (transfer.c:297-299).
THEOREM CountersAlwaysAgree == Spec => []CountersAgree
BY EndInit, EndStep, EndMeans, PTL DEF Spec

\* No path through failures, aborts and dialogs leaves a stream or the buffer
\* open behind a transfer, or a transfer without them (transfer.c:321, 413-424).
THEOREM NothingStaysOpen == Spec => []StreamsFollowTimer
BY EndInit, EndStep, EndMeans, PTL DEF Spec

\* After every transfer and every removal, mpd knows or the flag is set that
\* makes the client tell it, where telling it does not fail (podtopod.c:56-64,
\* transfer.c:429).
THEOREM MpdHears == "mpd" \notin Failures => (Spec => []MpdWillCatchUp)
<1> SUFFICES ASSUME "mpd" \notin Failures PROVE Spec => []MpdWillCatchUp
  OBVIOUS
<1>1. EInv => MpdWillCatchUp
  BY EndMeans
<1> QED BY <1>1, EndInit, EndStep, PTL DEF Spec

-----------------------------------------------------------------------------
(***************************************************************************)
(* What a transfer added is on disk when it is over, and only a transfer   *)
(* that is completely copied and saved says "Transfer Completed": for any  *)
(* tracks, sizes and lists, whatever fails but the writing of the          *)
(* database, which the code cannot notice.                                 *)
(***************************************************************************)

\* Nothing of it is only in memory.
Clean(items, dbs) == dbs = {} /\ \A i \in DOMAIN items : items[i].entry # "added"

\* The destination is what transfer_finished() will write.
Writes(dirty, dbs) ==
    dirty /\ Live(trans_list_dst_ipod) /\ dbs \subseteq {trans_list_dst_ipod}

UnsavedWhileCopying ==
    Clean(list, db_dirty) \/ (timer /\ cur_file # 0 /\ Writes(dst_ipod_dirty, db_dirty))

TransferringRuns == rip_status = TRANSFERRING => timer

\* A transfer without a buffer can be left at once: nothing asks first.
NoBufferNoDialog ==
    timer /\ cur_file = 0 /\ list # <<>> => rip_status # TRANSFERRING /\ screen = "transfer"

CompletedIffSaved ==
    ~timer /\ screen \in {"transfer", "dialog"} =>
        (cur_file = 0 <=> \A i \in DOMAIN list : list[i].entry = "saved")

SavedCore == UnsavedWhileCopying /\ TransferringRuns /\ NoBufferNoDialog /\ CompletedIffSaved

SInv == EInv /\ (fault = "none" => SavedCore)

-----------------------------------------------------------------------------
(* Ends of a transfer                                                      *)

\* Saved() saves what was added and keeps what was not.
LEMMA SavedEntries ==
    ASSUME NEW items \in Seq(Items), NEW i \in DOMAIN items
    PROVE  /\ Saved(items)[i].entry # "added"
           /\ Saved(items)[i].entry = "saved" <=> items[i].entry # "none"
<1>1. items[i] \in Items
  OBVIOUS
<1>2. items[i].entry \in {"none", "added", "saved"}
  BY <1>1 DEF Items
<1>3. Saved(items)[i] = IF items[i].entry = "added" THEN [items[i] EXCEPT !.entry = "saved"]
                                                    ELSE items[i]
  BY DEF Saved
<1> QED BY <1>1, <1>2, <1>3, ItemFields

\* transfer_finished() leaves nothing unsaved.
LEMMA FinishedSaves ==
    ASSUME NEW items \in Seq(Items), NEW dirty, NEW dbs, transfer_finished(items, dirty, dbs),
           "flush" \notin Failures, Clean(items, dbs) \/ Writes(dirty, dbs)
    PROVE  /\ Clean(list', db_dirty')
           /\ DOMAIN list' = DOMAIN items
           /\ \A i \in DOMAIN items : list'[i].entry = "saved" <=> items[i].entry # "none"
           /\ ~timer' /\ rip_status' # TRANSFERRING
<1>1. ~timer' /\ rip_status' # TRANSFERRING
  BY DEF transfer_finished, MOUNTED, TRANSFERRING
<1>2. \A i \in DOMAIN items : items[i].entry \in {"none", "added", "saved"}
  <2> TAKE i \in DOMAIN items
  <2>1. items[i] \in Items
    OBVIOUS
  <2> QED BY <2>1 DEF Items
<1>3. CASE dirty /\ Live(trans_list_dst_ipod)
  <2>1. list' = Saved(items) /\ db_dirty' = dbs \ {trans_list_dst_ipod}
    BY <1>3 DEF transfer_finished, flush_destination, MayFail
  <2>2. DOMAIN list' = DOMAIN items
    BY <2>1 DEF Saved
  <2>3. db_dirty' = {}
    BY <2>1 DEF Clean, Writes
  <2> QED BY <1>1, <2>1, <2>2, <2>3, SavedEntries DEF Clean
<1>4. CASE ~(dirty /\ Live(trans_list_dst_ipod))
  <2>1. list' = items /\ db_dirty' = dbs
    BY <1>4 DEF transfer_finished, flush_destination
  <2> QED BY <1>1, <1>2, <1>4, <2>1 DEF Clean, Writes
<1> QED BY <1>3, <1>4

\* So the transfer is over, and complete iff every item had been added.
LEMMA FinishedCore ==
    ASSUME NEW items \in Seq(Items), NEW dirty, NEW dbs, transfer_finished(items, dirty, dbs),
           "flush" \notin Failures, Clean(items, dbs) \/ Writes(dirty, dbs),
           cur_file' = 0 <=> \A i \in DOMAIN items : items[i].entry # "none"
    PROVE  SavedCore'
<1>1. /\ Clean(list', db_dirty')
      /\ DOMAIN list' = DOMAIN items
      /\ \A i \in DOMAIN items : list'[i].entry = "saved" <=> items[i].entry # "none"
      /\ ~timer' /\ rip_status' # TRANSFERRING
  BY FinishedSaves
<1>2. CompletedIffSaved'
  BY <1>1 DEF CompletedIffSaved
<1>3. UnsavedWhileCopying'
  BY <1>1 DEF UnsavedWhileCopying, Clean
<1> QED BY <1>1, <1>2, <1>3 DEF SavedCore, TransferringRuns, NoBufferNoDialog

\* What stays unsaved before transfer_finished() is what it writes.
LEMMA WhatIsWritten ==
    ASSUME SavedCore
    PROVE  Clean(list, db_dirty) \/ Writes(dst_ipod_dirty, db_dirty)
  BY DEF SavedCore, UnsavedWhileCopying

-----------------------------------------------------------------------------
(* Copying                                                                 *)

\* The current item of a running transfer has no entry, those before it have.
LEMMA CurrentHasNone ==
    ASSUME Inv, Core, timer, cur_file # 0
    PROVE  /\ cur_file \in DOMAIN list /\ list[cur_file].entry = "none"
           /\ list \in Seq(Items) /\ Len(list) \in Nat /\ DOMAIN list = 1..Len(list)
           /\ \A i \in DOMAIN list : i < cur_file => list[i].entry # "none"
<1>1. cur_file \in 1..Len(list) /\ list \in Seq(Items) /\ Len(list) \in Nat
      /\ DOMAIN list = 1..Len(list)
  BY CurType, LenProperties DEF Inv, TypeOK
<1>2. Working
  BY DEF Core
<1>3. \A i \in DOMAIN list : i < cur_file <=> list[i].entry # "none"
  BY <1>2 DEF Working
<1> QED BY <1>1, <1>3

\* An aborted copy.
LEMMA AbortSaves ==
    ASSUME Inv, Core, SavedCore, "flush" \notin Failures, timer, cur_file # 0,
           abort_transfer(Started(list))
    PROVE  SavedCore'
<1>1. cur_file \in 1..Len(list) /\ list \in Seq(Items) /\ DOMAIN list = 1..Len(list)
      /\ Len(list) \in Nat /\ list[cur_file].entry = "none"
  BY CurrentHasNone
<1> DEFINE items == Started(list)
<1>2. /\ items \in Seq(Items) /\ Len(items) = Len(list)
      /\ \A i \in DOMAIN list : i # cur_file => items[i] = list[i]
      /\ items[cur_file].entry = list[cur_file].entry
  <2>1. 0 \in Nat
    OBVIOUS
  <2> QED BY <1>1, <2>1, WrittenType
<1>3. transfer_finished(items, dst_ipod_dirty, db_dirty) /\ cur_file' = cur_file
  BY DEF abort_transfer
<1> HIDE DEF items
<1>4. DOMAIN items = DOMAIN list /\ \A i \in DOMAIN items : items[i].entry = list[i].entry
  <2>1. DOMAIN items = DOMAIN list
    BY <1>1, <1>2, LenProperties
  <2> QED BY <1>2, <2>1
<1>5. Clean(items, db_dirty) \/ Writes(dst_ipod_dirty, db_dirty)
  BY <1>4, WhatIsWritten DEF Clean
<1>6. cur_file' = 0 <=> \A i \in DOMAIN items : items[i].entry # "none"
  BY <1>1, <1>3, <1>4
<1> QED BY <1>2, <1>3, <1>5, <1>6, FinishedCore

\* A chunk that is not the file's last one.
LEMMA ChunkSaves ==
    ASSUME Inv, Core, SavedCore, timer, cur_file # 0, NEW n \in Nat, copy_chunk(n), StillTyped
    PROVE  SavedCore'
<1>1. cur_file \in 1..Len(list) /\ list \in Seq(Items) /\ Len(list) \in Nat
      /\ DOMAIN list = 1..Len(list)
  BY CurrentHasNone
<1>2. Copied(n) \in Nat
  BY DEF Inv, TypeOK, Copied
<1>3. /\ list' \in Seq(Items) /\ Len(list') = Len(list)
      /\ \A i \in DOMAIN list : i # cur_file => list'[i] = list[i]
      /\ list'[cur_file].entry = list[cur_file].entry
  BY <1>1, <1>2, WrittenType DEF copy_chunk
<1>4. DOMAIN list' = DOMAIN list /\ \A i \in DOMAIN list : list'[i].entry = list[i].entry
  <2>1. DOMAIN list' = DOMAIN list
    BY <1>1, <1>3, LenProperties
  <2> QED BY <1>3, <2>1
<1>5. /\ rip_status' = rip_status /\ cur_file' = cur_file /\ timer' = timer
      /\ dst_ipod_dirty' = dst_ipod_dirty /\ db_dirty' = db_dirty
      /\ trans_list_dst_ipod' = trans_list_dst_ipod /\ remote_ipod' = remote_ipod
  BY DEF copy_chunk, dbVars, StillTyped
<1>6. UnsavedWhileCopying'
  BY <1>4, <1>5 DEF SavedCore, UnsavedWhileCopying, Clean, Writes, Live
<1> QED BY <1>5, <1>6 DEF SavedCore, TransferringRuns, NoBufferNoDialog, CompletedIffSaved

\* The last chunk of a file makes the destination one that will be written.
LEMMA FinishSaves ==
    ASSUME Inv, Core, SavedCore, "flush" \notin Failures, timer, cur_file # 0, NEW n \in Nat,
           finish_file(n), StillTyped, Live(trans_list_dst_ipod)
    PROVE  SavedCore'
<1>1. /\ cur_file \in 1..Len(list) /\ list \in Seq(Items) /\ Len(list) \in Nat
      /\ DOMAIN list = 1..Len(list)
      /\ \A i \in DOMAIN list : i < cur_file => list[i].entry # "none"
  BY CurrentHasNone
<1>2. Copied(n) \in Nat
  BY DEF Inv, TypeOK, Copied
<1> DEFINE written == Written(list, Copied(n))
<1> DEFINE items == WithEntry(written)
<1>3. /\ written \in Seq(Items) /\ Len(written) = Len(list)
      /\ \A i \in DOMAIN list : i # cur_file => written[i] = list[i]
  BY <1>1, <1>2, WrittenType
<1>4. /\ items \in Seq(Items) /\ Len(items) = Len(list)
      /\ \A i \in DOMAIN list : i # cur_file => items[i] = list[i]
      /\ items[cur_file].entry = "added"
  <2> HIDE DEF written
  <2>1. /\ items \in Seq(Items) /\ Len(items) = Len(written)
        /\ \A i \in 1..Len(written) : i # cur_file => items[i] = written[i]
        /\ items[cur_file].entry = "added"
    BY <1>1, <1>3, WithEntryType
  <2> HIDE DEF items
  <2> QED BY <1>1, <1>3, <2>1
<1>5. Writes(TRUE, Dirtied)
  BY DEF Writes, Dirtied, SavedCore, UnsavedWhileCopying, Clean
<1>6. CASE cur_file < Len(list)
  <2>1. /\ cur_file' = cur_file + 1 /\ db_dirty' = Dirtied /\ dst_ipod_dirty' = TRUE
        /\ rip_status' = rip_status /\ timer' = timer
        /\ trans_list_dst_ipod' = trans_list_dst_ipod /\ remote_ipod' = remote_ipod
    BY <1>6 DEF finish_file, MoreFiles, StillTyped
  <2>2. cur_file' # 0
    BY <1>1, <2>1
  <2>3. UnsavedWhileCopying'
    BY <1>5, <2>1, <2>2 DEF UnsavedWhileCopying, Writes, Live
  <2> QED BY <2>1, <2>2, <2>3
          DEF TransferringRuns, SavedCore, NoBufferNoDialog, CompletedIffSaved
<1>7. CASE ~(cur_file < Len(list))
  <2>1. transfer_finished(items, TRUE, Dirtied) /\ cur_file' = 0
    BY <1>7 DEF finish_file, MoreFiles
  <2> HIDE DEF items
  <2>2. DOMAIN items = DOMAIN list
    BY <1>1, <1>4, LenProperties
  <2>3. \A i \in DOMAIN items : items[i].entry # "none"
    <3> SUFFICES ASSUME NEW i \in DOMAIN list PROVE items[i].entry # "none"
      BY <2>2
    <3>1. i = cur_file \/ i < cur_file
      BY <1>1, <1>7
    <3> QED BY <1>1, <1>4, <3>1
  <2> QED BY <1>4, <1>5, <2>1, <2>3, FinishedCore
<1> QED BY <1>6, <1>7

\* A tick of the timer.
LEMMA TimerSaves ==
    ASSUME Inv, Core, SavedCore, "flush" \notin Failures, transfer_widget_timer_handler,
           fault' = "none"
    PROVE  SavedCore'
<1>1. timer /\ fault = "none"
  BY DEF transfer_widget_timer_handler
<1>2. /\ cur_file # 0 /\ do_copy /\ StillTyped
      /\ Cur.named \/ Live(trans_list_dst_ipod)
  BY <1>1 DEF transfer_widget_timer_handler, start_next_file_fails,
              finish_after_abort, Fail, StillTyped
<1>3. Live(trans_list_dst_ipod)
  BY <1>1, <1>2 DEF Core, Working
<1>4. CASE bytesRead > 0 /\ (copy_chunk(bytesRead) \/ finish_file(bytesRead))
  <2>1. bytesRead \in Nat
    BY <1>2, <1>4, CurType DEF Inv
  <2> QED BY <1>1, <1>2, <1>3, <1>4, <2>1, ChunkSaves, FinishSaves
<1>5. CASE abort_transfer(Started(list))
  BY <1>1, <1>2, <1>5, AbortSaves
<1> QED BY <1>2, <1>4, <1>5 DEF do_copy

-----------------------------------------------------------------------------
(* The other steps                                                         *)

\* While no transfer runs, and its window is not open, there is little to show.
LEMMA AwaySaves ==
    ASSUME ~timer', screen' \notin {"transfer", "dialog"}, Clean(list', db_dirty'),
           rip_status' # TRANSFERRING
    PROVE  SavedCore'
  BY DEF SavedCore, UnsavedWhileCopying, Clean, TransferringRuns, NoBufferNoDialog,
         CompletedIffSaved

\* The answer to "Really abort transfer?".
LEMMA DialogSaves ==
    ASSUME Inv, Core, SavedCore, "flush" \notin Failures, answer_dialog
    PROVE  SavedCore'
<1>1. CASE UNCHANGED <<rip_status, list, streamVars, timer, dbVars, fault>>
  <2>1. /\ rip_status' = rip_status /\ list' = list /\ timer' = timer /\ db_dirty' = db_dirty
        /\ cur_file' = cur_file /\ remote_ipod' = remote_ipod /\ dst_ipod_dirty' = dst_ipod_dirty
        /\ trans_list_dst_ipod' = trans_list_dst_ipod
        /\ screen = "dialog" /\ screen' = "transfer"
    BY <1>1 DEF answer_dialog, dbVars
  <2>2. UnsavedWhileCopying'
    BY <2>1 DEF SavedCore, UnsavedWhileCopying, Clean, Writes, Live
  <2> QED BY <2>1, <2>2 DEF SavedCore, TransferringRuns, NoBufferNoDialog, CompletedIffSaved
<1>2. CASE transfer_finished(list, dst_ipod_dirty, db_dirty)
  <2>1. list \in Seq(Items) /\ screen = "dialog" /\ cur_file' = cur_file
    BY DEF Inv, TypeOK, answer_dialog
  <2>2. cur_file = 0 <=> \A i \in DOMAIN list : list[i].entry # "none"
    <3>1. CASE timer /\ cur_file # 0
      BY <3>1, CurrentHasNone
    <3>2. CASE timer /\ cur_file = 0
      <4>1. list = <<>>
        BY <2>1, <3>2 DEF SavedCore, NoBufferNoDialog
      <4> QED BY <3>2, <4>1
    <3>3. CASE ~timer
      <4>1. Clean(list, db_dirty) /\ (cur_file = 0 <=> \A i \in DOMAIN list : list[i].entry = "saved")
        BY <2>1, <3>3 DEF SavedCore, UnsavedWhileCopying, CompletedIffSaved
      <4>2. \A i \in DOMAIN list : list[i] \in Items
        BY <2>1
      <4>3. \A i \in DOMAIN list : list[i].entry = "saved" <=> list[i].entry # "none"
        BY <4>1, <4>2 DEF Clean, Items
      <4> QED BY <4>1, <4>3
    <3> QED BY <3>1, <3>2, <3>3
  <2> QED BY <1>2, <2>1, <2>2, WhatIsWritten, FinishedCore
<1> QED BY <1>1, <1>2 DEF answer_dialog

\* When no transfer is left, nothing is unsaved and no status says there is one.
LEMMA CleanOver ==
    ASSUME SavedCore, ~timer
    PROVE  Clean(list, db_dirty) /\ rip_status # TRANSFERRING
  BY DEF SavedCore, UnsavedWhileCopying, TransferringRuns

\* A transfer begins with nothing unsaved.
LEMMA TransferTracksSaves ==
    ASSUME Inv, Core, SavedCore, transfer_tracks
    PROVE  SavedCore'
<1>1. ~timer
  BY MenuMeansOver DEF transfer_tracks
<1>2. db_dirty = {} /\ rip_status # TRANSFERRING
  BY <1>1, CleanOver DEF Clean
<1>3. timer' = TRUE /\ screen' = "transfer" /\ db_dirty' = db_dirty
  BY DEF transfer_tracks, dbVars
<1>4. PICK f \in FoundIn(alt.ids, alt.sure) : list' = transfer_list_of(alt.ids, f)
  BY DEF transfer_tracks
<1>5. \A i \in DOMAIN list' : list'[i].entry = "none"
  BY <1>4 DEF transfer_list_of, NewItem
<1>6. UnsavedWhileCopying'
  BY <1>2, <1>3, <1>5 DEF UnsavedWhileCopying, Clean
<1>7. CASE start_copy
  BY <1>3, <1>6, <1>7
     DEF start_copy, SavedCore, TransferringRuns, NoBufferNoDialog, CompletedIffSaved
<1>8. CASE start_copy_no_buffer
  BY <1>2, <1>3, <1>6, <1>8
     DEF start_copy_no_buffer, SavedCore, TransferringRuns, NoBufferNoDialog, CompletedIffSaved
<1> QED BY <1>7, <1>8 DEF transfer_tracks

\* Opening and leaving menus.
LEMMA MenusSave ==
    ASSUME Inv, Core, SavedCore, fault' = "none", fault = "none",
           open_music_menu \/ open_song \/ local_transfer_alt_menu \/ leave_menu
    PROVE  SavedCore'
<1> USE DEF open_music_menu, open_song, local_transfer_alt_menu, leave_menu, transfer_alt_menu
<1>1. ~timer
  BY MenuMeansOver
<1>2. UNCHANGED <<rip_status, list, timer, db_dirty>>
  BY DEF Fail, listVars, dbVars
<1>3. screen' \in {"songs", "alt", "main"}
  BY DEF Fail, Back
<1> QED BY <1>1, <1>2, <1>3, CleanOver, AwaySaves

\* The MENU button leaves the window only when no transfer is left.
LEMMA MenuButtonSaves ==
    ASSUME Inv, Core, SavedCore, menu_button
    PROVE  SavedCore'
<1>0. UNCHANGED <<rip_status, remote_ipod, dst_ipod_dirty, db_dirty>>
  BY DEF menu_button, dbVars
<1>1. CASE rip_status = TRANSFERRING /\ UNCHANGED <<listVars, cur_file, timer>>
  <2>1. timer
    BY <1>1 DEF SavedCore, TransferringRuns
  <2>2. list' = list /\ trans_list_dst_ipod' = trans_list_dst_ipod
        /\ cur_file' = cur_file /\ timer' = timer
    BY <1>1 DEF listVars
  <2>3. UnsavedWhileCopying'
    BY <1>0, <2>2 DEF SavedCore, UnsavedWhileCopying, Clean, Writes, Live
  <2>4. ~(timer /\ cur_file = 0 /\ list # <<>>)
    BY <1>1 DEF SavedCore, NoBufferNoDialog
  <2> QED BY <2>1, <2>2, <2>3, <2>4
          DEF SavedCore, TransferringRuns, NoBufferNoDialog, CompletedIffSaved
<1>2. CASE rip_status # TRANSFERRING /\ transfer_list_reset /\ timer' = FALSE /\ screen' = Back
  <2>1. ~(timer /\ cur_file # 0)
    BY <1>2 DEF Core, Working
  <2>2. db_dirty = {}
    BY <2>1 DEF SavedCore, UnsavedWhileCopying, Clean
  <2>3. Clean(list', db_dirty')
    BY <1>0, <1>2, <2>2 DEF Clean, transfer_list_reset
  <2>4. screen' \notin {"transfer", "dialog"}
    BY <1>2 DEF Back
  <2> QED BY <1>0, <1>2, <2>3, <2>4, AwaySaves
<1> QED BY <1>1, <1>2 DEF menu_button

\* Removing tracks, and telling mpd.
LEMMA MpdSaves ==
    ASSUME Inv, Core, SavedCore, remove_tracks \/ mpd_is_dirty
    PROVE  SavedCore'
<1>1. CASE remove_tracks
  <2>1. ~timer
    BY <1>1, MenuMeansOver DEF remove_tracks
  <2>2. UNCHANGED <<rip_status, list, timer>> /\ screen' = "main" /\ db_dirty' \subseteq db_dirty
    BY <1>1 DEF remove_tracks, listVars, dbVars
  <2>3. Clean(list', db_dirty')
    BY <2>1, <2>2, CleanOver DEF Clean
  <2> QED BY <2>1, <2>2, <2>3, CleanOver, AwaySaves
<1>2. CASE mpd_is_dirty
  BY <1>2 DEF mpd_is_dirty, menuVars, listVars, SavedCore, UnsavedWhileCopying, Clean, Writes,
              Live, TransferringRuns, NoBufferNoDialog, CompletedIffSaved
<1> QED BY <1>1, <1>2

-----------------------------------------------------------------------------
(* The invariant                                                           *)

\* It holds at the start.
LEMMA SavedInit == Init => SInv
<1> SUFFICES ASSUME Init PROVE SInv
  OBVIOUS
<1>1. SavedCore
  BY DEF Init, NothingTransferred, SavedCore, UnsavedWhileCopying, Clean, TransferringRuns,
         NoBufferNoDialog, CompletedIffSaved, MOUNTED, TRANSFERRING
<1> QED BY <1>1, EndInit DEF SInv

\* And every step keeps it, where the database can be written.
LEMMA SavedStep == "flush" \notin Failures => (SInv /\ [Next]_vars => SInv')
<1> SUFFICES ASSUME "flush" \notin Failures, SInv, [Next]_vars PROVE SInv'
  OBVIOUS
<1>1. EInv /\ EInv' /\ Inv
  BY EndStep DEF SInv, EInv
<1> SUFFICES ASSUME fault' = "none" PROVE SavedCore'
  BY <1>1 DEF SInv
<1>2. CASE Next
  <2>1. fault = "none" /\ Core /\ SavedCore
    BY <1>1, <1>2 DEF SInv, EInv, Next, Menus, transfer_widget_timer_handler,
       draw_transfer_widget, menu_button, answer_dialog, remove_tracks, mpd_is_dirty
  <2>2. ~draw_transfer_widget
    BY DEF draw_transfer_widget, Fail
  <2>3. CASE Menus
    BY <1>1, <2>1, <2>3, MenusSave, TransferTracksSaves DEF Menus
  <2> QED BY <1>1, <1>2, <2>1, <2>2, <2>3, TimerSaves, DialogSaves, MenuButtonSaves, MpdSaves
          DEF Next
<1>3. CASE UNCHANGED vars
  BY <1>3 DEF vars, menuVars, listVars, dbVars, SInv, SavedCore, UnsavedWhileCopying, Clean,
              Writes, Live, TransferringRuns, NoBufferNoDialog, CompletedIffSaved
<1> QED BY <1>2, <1>3

\* What it says of the properties that the runs check.
LEMMA SavedMeans ==
    /\ SInv => AddedTracksAreSaved
    /\ SInv => CompletedMeansCopied
<1>1. SInv => AddedTracksAreSaved
  BY DEF SInv, SavedCore, UnsavedWhileCopying, Clean, AddedTracksAreSaved, Over
<1>2. SInv => CompletedMeansCopied
  BY DEF SInv, SavedCore, CompletedIffSaved, CompletedMeansCopied, Over
<1> QED BY <1>1, <1>2

-----------------------------------------------------------------------------
\* Where the database can be written, nothing that a transfer added is left in
\* memory alone when the transfer is over, however it ended and whatever was
\* opened, answered or removed since (transfer.c:389-391, 413-434).
THEOREM AddedAlwaysSaved == "flush" \notin Failures => (Spec => []AddedTracksAreSaved)
<1> SUFFICES ASSUME "flush" \notin Failures PROVE Spec => []AddedTracksAreSaved
  OBVIOUS
<1>1. SInv /\ [Next]_vars => SInv'
  BY SavedStep
<1> QED BY <1>1, SavedInit, SavedMeans, PTL DEF Spec

\* "Transfer Completed" is on the screen exactly after transfers of which every
\* file is copied and saved, answers to the dialog after their end included
\* (transfer.c:286-289).
THEOREM CompletedIsTrue == "flush" \notin Failures => (Spec => []CompletedMeansCopied)
<1> SUFFICES ASSUME "flush" \notin Failures PROVE Spec => []CompletedMeansCopied
  OBVIOUS
<1>1. SInv /\ [Next]_vars => SInv'
  BY SavedStep
<1> QED BY <1>1, SavedInit, SavedMeans, PTL DEF Spec

-----------------------------------------------------------------------------
(* The transfer engine implements Batch                                    *)

\* The refinement mapping of ImplementsBatch, for any list of items.
BatchOf(items) == [i \in DOMAIN items |-> [track |-> items[i].track, entry |-> items[i].entry]]

PhaseOf(running, source) == IF running THEN "running" ELSE IF source = NULL THEN "idle" ELSE "over"

\* A transfer has a source from its start until its window is left.
SourceWithWindow ==
    /\ alt # NULL \/ screen \notin {"transfer", "dialog"} => trans_list_src_ipod = NULL
    /\ timer \/ list # <<>> => trans_list_src_ipod # NULL

BInv == SInv /\ (fault = "none" => SourceWithWindow)

\* transfer_finished() is one Save of Batch: "last" is the item that gets its
\* entry in the same step, if there is one.
LEMMA FinishedIsSave ==
    ASSUME Inv, "flush" \notin Failures, timer, trans_list_src_ipod # NULL,
           UNCHANGED trans_list_src_ipod,
           NEW items \in Seq(Items), Len(items) = Len(list),
           NEW dirty, NEW dbs, transfer_finished(items, dirty, dbs),
           Clean(items, dbs) \/ Writes(dirty, dbs),
           NEW last \in {0} \cup {i \in DOMAIN list : B!IsNext(i)},
           \A i \in DOMAIN list :
              /\ items[i].track = list[i].track
              /\ items[i].entry = IF i = last THEN "added" ELSE list[i].entry
    PROVE  B!Save
<1>1. list \in Seq(Items) /\ DOMAIN list = 1..Len(list) /\ DOMAIN items = DOMAIN list
  BY LenProperties DEF Inv, TypeOK
<1>2. \A i \in DOMAIN list : list[i] \in Items /\ items[i] \in Items
  BY <1>1, ElementOfSeq
<1>3. timer' = FALSE
  BY DEF transfer_finished
<1>4. list' = Saved(items) \/ list' = items
  BY DEF transfer_finished, flush_destination
<1>5. DOMAIN list' = DOMAIN list
  BY <1>1, <1>4 DEF Saved
<1>6. ASSUME NEW i \in DOMAIN list
      PROVE  [track |-> list'[i].track, entry |-> list'[i].entry] =
             IF list[i].entry = "added" \/ i = last
             THEN [[track |-> list[i].track, entry |-> list[i].entry] EXCEPT !.entry = "saved"]
             ELSE [track |-> list[i].track, entry |-> list[i].entry]
  <2>1. /\ items[i].track = list[i].track
        /\ items[i].entry = IF i = last THEN "added" ELSE list[i].entry
    OBVIOUS
  <2>2. items[i] \in Items /\ items[i].entry \in {"none", "added", "saved"}
    BY <1>2 DEF Items
  <2> DEFINE saved == [items[i] EXCEPT !.entry = "saved"]
  <2>3. saved.track = items[i].track /\ saved.entry = "saved"
    BY <2>2 DEF Items
  <2>4. list'[i] \in {items[i], saved}
    BY <1>1, <1>4 DEF Saved
  <2> HIDE DEF saved
  <2>5. list'[i].track = items[i].track
    BY <2>3, <2>4
  <2>6. list'[i].entry = "saved" <=> items[i].entry # "none"
    BY <1>1, FinishedSaves
  <2>7. list'[i].entry = items[i].entry \/ list'[i].entry = "saved"
    BY <2>3, <2>4
  <2> QED BY <2>1, <2>2, <2>5, <2>6, <2>7
<1>7. BatchOf(list') =
        [i \in DOMAIN BatchOf(list) |->
            IF BatchOf(list)[i].entry = "added" \/ i = last
            THEN [BatchOf(list)[i] EXCEPT !.entry = "saved"] ELSE BatchOf(list)[i]]
  BY <1>5, <1>6 DEF BatchOf
<1>8. DOMAIN BatchOf(list) = DOMAIN list
  BY DEF BatchOf
<1> QED BY <1>3, <1>7, <1>8 DEF B!Save, BatchOf

\* Naming the current item keeps its track.
LEMMA StartedTrack ==
    ASSUME NEW items \in Seq(Items), cur_file \in 1..Len(items)
    PROVE  Started(items)[cur_file].track = items[cur_file].track
<1>1. items[cur_file] \in Items
  BY ElementOfSeq
<1> QED BY <1>1 DEF Started, Items

\* So does giving it an entry.
LEMMA EntryTrack ==
    ASSUME NEW items \in Seq(Items), cur_file \in 1..Len(items)
    PROVE  WithEntry(items)[cur_file].track = items[cur_file].track
<1>1. items[cur_file] \in Items
  BY ElementOfSeq
<1> QED BY <1>1 DEF WithEntry, Items

\* A step that changes no track, no entry and neither end of the transfer is
\* none of Batch.
LEMMA SameBatch ==
    ASSUME DOMAIN list' = DOMAIN list,
           \A i \in DOMAIN list :
              list'[i].track = list[i].track /\ list'[i].entry = list[i].entry,
           timer' = timer, trans_list_src_ipod' = trans_list_src_ipod
    PROVE  UNCHANGED B!vars
<1>1. BatchOf(list') = BatchOf(list)
  BY DEF BatchOf
<1> QED BY <1>1 DEF B!vars, BatchOf

\* An aborted copy saves what was added before.
LEMMA AbortIsSave ==
    ASSUME Inv, Core, SavedCore, "flush" \notin Failures, timer, cur_file # 0,
           trans_list_src_ipod # NULL, UNCHANGED trans_list_src_ipod,
           abort_transfer(Started(list))
    PROVE  B!Save
<1>1. cur_file \in 1..Len(list) /\ list \in Seq(Items) /\ DOMAIN list = 1..Len(list)
      /\ Len(list) \in Nat
  BY CurrentHasNone
<1> DEFINE items == Started(list)
<1>2. /\ items \in Seq(Items) /\ Len(items) = Len(list)
      /\ \A i \in DOMAIN list : i # cur_file => items[i] = list[i]
      /\ items[cur_file].entry = list[cur_file].entry
      /\ items[cur_file].track = list[cur_file].track
  <2>1. 0 \in Nat
    OBVIOUS
  <2>2. items[cur_file].track = list[cur_file].track
    BY <1>1, StartedTrack
  <2> QED BY <1>1, <2>1, <2>2, WrittenType
<1>3. transfer_finished(items, dst_ipod_dirty, db_dirty)
  BY DEF abort_transfer
<1> HIDE DEF items
<1>4. \A i \in DOMAIN list : items[i].track = list[i].track /\ items[i].entry = list[i].entry
  BY <1>2
<1>5. Clean(items, db_dirty) \/ Writes(dst_ipod_dirty, db_dirty)
  <2>1. DOMAIN items = DOMAIN list
    BY <1>1, <1>2, LenProperties
  <2> QED BY <1>4, <2>1, WhatIsWritten DEF Clean
<1>6. 0 \notin DOMAIN list
  BY <1>1
<1> QED BY <1>2, <1>3, <1>4, <1>5, <1>6, FinishedIsSave

\* A chunk that is not the file's last one.
LEMMA ChunkIsSame ==
    ASSUME Inv, Core, timer, cur_file # 0, NEW n \in Nat, copy_chunk(n), StillTyped
    PROVE  UNCHANGED B!vars
<1>1. cur_file \in 1..Len(list) /\ list \in Seq(Items) /\ Len(list) \in Nat
      /\ DOMAIN list = 1..Len(list)
  BY CurrentHasNone
<1>2. Copied(n) \in Nat
  BY DEF Inv, TypeOK, Copied
<1>3. /\ list' \in Seq(Items) /\ Len(list') = Len(list)
      /\ \A i \in DOMAIN list : i # cur_file => list'[i] = list[i]
      /\ list'[cur_file].entry = list[cur_file].entry
      /\ list'[cur_file].track = list[cur_file].track
  BY <1>1, <1>2, WrittenType DEF copy_chunk
<1>4. DOMAIN list' = DOMAIN list
  BY <1>1, <1>3, LenProperties
<1>5. timer' = timer /\ trans_list_src_ipod' = trans_list_src_ipod
  BY DEF copy_chunk, StillTyped
<1>6. \A i \in DOMAIN list : list'[i].track = list[i].track /\ list'[i].entry = list[i].entry
  BY <1>3
<1> QED BY <1>4, <1>5, <1>6, SameBatch

\* The item that is next in Batch is the one that is being copied.
LEMMA CurrentIsNext ==
    ASSUME Inv, Core, timer, cur_file # 0
    PROVE  B!IsNext(cur_file)
<1>1. /\ cur_file \in DOMAIN list /\ list[cur_file].entry = "none"
      /\ DOMAIN list = 1..Len(list) /\ Len(list) \in Nat
      /\ \A i \in DOMAIN list : i < cur_file => list[i].entry # "none"
  BY CurrentHasNone
<1>2. \A j \in 1..(cur_file - 1) : j \in DOMAIN list /\ j < cur_file
  BY <1>1
<1>3. \A i \in DOMAIN list : BatchOf(list)[i].entry = list[i].entry
  BY DEF BatchOf
<1>4. DOMAIN BatchOf(list) = DOMAIN list
  BY DEF BatchOf
<1> QED BY <1>1, <1>2, <1>3, <1>4 DEF B!IsNext, BatchOf

\* The last chunk of a file adds its track, and of the last file saves as well.
LEMMA FinishIsStep ==
    ASSUME Inv, Core, SavedCore, "flush" \notin Failures, timer, cur_file # 0,
           trans_list_src_ipod # NULL, NEW n \in Nat, finish_file(n), StillTyped,
           Live(trans_list_dst_ipod)
    PROVE  B!AddTrack \/ B!Save
<1>1. /\ cur_file \in 1..Len(list) /\ list \in Seq(Items) /\ Len(list) \in Nat
      /\ DOMAIN list = 1..Len(list)
  BY CurrentHasNone
<1>2. Copied(n) \in Nat
  BY DEF Inv, TypeOK, Copied
<1> DEFINE written == Written(list, Copied(n))
<1> DEFINE items == WithEntry(written)
<1>3. /\ written \in Seq(Items) /\ Len(written) = Len(list)
      /\ \A i \in DOMAIN list : i # cur_file => written[i] = list[i]
      /\ written[cur_file].track = list[cur_file].track
  BY <1>1, <1>2, WrittenType
<1>4. /\ items \in Seq(Items) /\ Len(items) = Len(list)
      /\ \A i \in DOMAIN list : i # cur_file => items[i] = list[i]
      /\ items[cur_file].entry = "added"
      /\ items[cur_file].track = list[cur_file].track
  <2> HIDE DEF written
  <2>1. /\ items \in Seq(Items) /\ Len(items) = Len(written)
        /\ \A i \in 1..Len(written) : i # cur_file => items[i] = written[i]
        /\ items[cur_file].entry = "added"
    BY <1>1, <1>3, WithEntryType
  <2>2. items[cur_file].track = written[cur_file].track
    BY <1>1, <1>3, EntryTrack
  <2> HIDE DEF items
  <2> QED BY <1>1, <1>3, <2>1, <2>2
<1>5. UNCHANGED trans_list_src_ipod
  BY DEF StillTyped
<1>6. CASE cur_file < Len(list)
  <2>1. list' = items /\ timer' = timer
    BY <1>6 DEF finish_file, MoreFiles
  <2> HIDE DEF items
  <2>2. DOMAIN list' = DOMAIN list
    BY <1>1, <1>4, <2>1, LenProperties
  <2>3. BatchOf(list') = [BatchOf(list) EXCEPT ![cur_file].entry = "added"]
    BY <1>1, <1>4, <2>1, <2>2 DEF BatchOf
  <2>4. DOMAIN BatchOf(list) = DOMAIN list
    BY DEF BatchOf
  <2>5. B!IsNext(cur_file)
    BY CurrentIsNext
  <2> QED BY <1>1, <1>5, <2>1, <2>3, <2>4, <2>5 DEF B!AddTrack, BatchOf
<1>7. CASE ~(cur_file < Len(list))
  <2>1. transfer_finished(items, TRUE, Dirtied)
    BY <1>7 DEF finish_file, MoreFiles
  <2> HIDE DEF items
  <2>2. Writes(TRUE, Dirtied)
    BY DEF Writes, Dirtied, SavedCore, UnsavedWhileCopying, Clean
  <2>3. cur_file \in {i \in DOMAIN list : B!IsNext(i)}
    BY <1>1, CurrentIsNext
  <2>4. \A i \in DOMAIN list :
           /\ items[i].track = list[i].track
           /\ items[i].entry = IF i = cur_file THEN "added" ELSE list[i].entry
    BY <1>4
  <2>5. cur_file \in {0} \cup {i \in DOMAIN list : B!IsNext(i)}
    BY <2>3
  <2> QED BY <1>4, <1>5, <2>1, <2>2, <2>4, <2>5, FinishedIsSave
<1> QED BY <1>6, <1>7

\* A tick of the timer, those that run into undefined behaviour included.
LEMMA TimerIsStep ==
    ASSUME Inv, Core, SavedCore, SourceWithWindow, "flush" \notin Failures,
           transfer_widget_timer_handler
    PROVE  [B!Next]_(B!vars)
<1>1. timer /\ trans_list_src_ipod # NULL
  BY DEF transfer_widget_timer_handler, SourceWithWindow
<1>2. ASSUME NEW kind, Fail(kind) PROVE UNCHANGED B!vars
  <2>1. list' = list /\ timer' = timer /\ trans_list_src_ipod' = trans_list_src_ipod
    BY <1>2 DEF Fail, listVars
  <2> QED BY <2>1, SameBatch
<1>3. CASE cur_file = 0 /\ Fail("null")
  BY <1>2, <1>3
<1>4. CASE cur_file # 0 /\ start_next_file_fails
  <2>1. CASE abort_transfer(Started(list)) /\ UNCHANGED trans_list_src_ipod
    BY <1>1, <1>4, <2>1, AbortIsSave DEF B!Next
  <2> QED BY <1>2, <1>4, <2>1 DEF start_next_file_fails
<1>5. CASE /\ cur_file # 0 /\ StillTyped
           /\ Cur.named \/ Live(trans_list_dst_ipod)
           /\ finish_after_abort \/ do_copy
  <2>1. Live(trans_list_dst_ipod)
    BY <1>1, <1>5 DEF Core, Working
  <2>2. UNCHANGED trans_list_src_ipod
    BY <1>5 DEF StillTyped
  <2>3. CASE abort_transfer(Started(list))
    BY <1>1, <1>5, <2>2, <2>3, AbortIsSave DEF B!Next
  <2>4. CASE bytesRead > 0 /\ (copy_chunk(bytesRead) \/ finish_file(bytesRead))
    <3>1. bytesRead \in Nat
      BY <1>5, <2>4, CurType DEF Inv
    <3> QED BY <1>1, <1>5, <2>1, <2>4, <3>1, ChunkIsSame, FinishIsStep DEF B!Next
  <2> QED BY <1>5, <2>3, <2>4 DEF finish_after_abort, do_copy
<1> QED BY <1>3, <1>4, <1>5 DEF transfer_widget_timer_handler, StillTyped

\* A Yes saves what was added; after the end of its transfer nothing is left to
\* save, and it changes nothing.
LEMMA DialogIsStep ==
    ASSUME Inv, Core, SavedCore, SourceWithWindow, "flush" \notin Failures, answer_dialog
    PROVE  [B!Next]_(B!vars)
<1>1. UNCHANGED trans_list_src_ipod
  BY DEF answer_dialog
<1>2. CASE UNCHANGED <<rip_status, list, streamVars, timer, dbVars, fault>>
  <2>1. list' = list /\ timer' = timer
    BY <1>2
  <2> QED BY <1>1, <2>1, SameBatch
<1>3. CASE transfer_finished(list, dst_ipod_dirty, db_dirty)
  <2>1. list \in Seq(Items) /\ DOMAIN list = 1..Len(list) /\ Len(list) \in Nat
    BY LenProperties DEF Inv, TypeOK
  <2>2. CASE timer
    <3>1. trans_list_src_ipod # NULL
      BY <2>2 DEF SourceWithWindow
    <3>2. 0 \notin DOMAIN list
      BY <2>1
    <3> QED BY <1>1, <1>3, <2>1, <2>2, <3>1, <3>2, WhatIsWritten, FinishedIsSave DEF B!Next
  <2>3. CASE ~timer
    <3>1. \A i \in DOMAIN list : list[i].entry # "added"
      BY <2>3, CleanOver DEF Clean
    <3>2. Saved(list) = list
      BY <2>1, <3>1 DEF Saved
    <3>3. list' = list /\ timer' = FALSE
      BY <1>3, <3>2 DEF transfer_finished, flush_destination
    <3>4. timer' = timer
      BY <2>3, <3>3 DEF Inv, TypeOK
    <3> QED BY <1>1, <3>3, <3>4, SameBatch
  <2> QED BY <2>2, <2>3
<1> QED BY <1>2, <1>3 DEF answer_dialog

\* A transfer is begun with tracks of which none is in the database, when no
\* other one is on the screen.
LEMMA TransferTracksIsBegin ==
    ASSUME Inv, Inv', Core, SourceWithWindow, transfer_tracks
    PROVE  B!Begin
<1>1. ~timer /\ trans_list_src_ipod = NULL /\ timer' = TRUE
  BY MenuMeansOver DEF transfer_tracks, SourceWithWindow
<1>2. PICK f \in FoundIn(alt.ids, alt.sure) : list' = transfer_list_of(alt.ids, f)
  BY DEF transfer_tracks
<1>3. \A i \in DOMAIN list' : list'[i].entry = "none"
  BY <1>2 DEF transfer_list_of, NewItem
<1>4. list' \in Seq(Items) /\ DOMAIN list' = 1..Len(list') /\ Len(list') \in Nat
  BY LenProperties DEF Inv, TypeOK
<1>5. ASSUME NEW i \in 1..Len(list')
      PROVE  [track |-> list'[i].track, entry |-> list'[i].entry] \in B!Entry
  <2>1. list'[i] \in Items
    BY <1>4, ElementOfSeq
  <2> QED BY <2>1 DEF Items, B!Entry
<1>6. BatchOf(list') \in [1..Len(list') -> B!Entry]
  BY <1>4, <1>5 DEF BatchOf
<1>7. BatchOf(list') \in Seq(B!Entry)
  BY <1>4, <1>6, FunIsSeq
<1>8. \A i \in DOMAIN BatchOf(list') : BatchOf(list')[i].entry = "none"
  BY <1>3 DEF BatchOf
<1> QED BY <1>1, <1>7, <1>8 DEF B!Begin, BatchOf

\* The window is left, and its list dropped, only with nothing unsaved.
LEMMA MenuButtonIsStep ==
    ASSUME Inv, Core, SavedCore, SourceWithWindow, menu_button
    PROVE  [B!Next]_(B!vars)
<1>1. CASE UNCHANGED <<listVars, cur_file, timer>>
  <2>1. list' = list /\ timer' = timer /\ trans_list_src_ipod' = trans_list_src_ipod
    BY <1>1 DEF listVars
  <2> QED BY <2>1, SameBatch
<1>2. CASE rip_status # TRANSFERRING /\ transfer_list_reset /\ timer' = FALSE
  <2>1. list' = <<>> /\ trans_list_src_ipod' = NULL
    BY <1>2 DEF transfer_list_reset
  <2>2. Clean(list, db_dirty)
    BY <1>2 DEF Core, Working, SavedCore, UnsavedWhileCopying
  <2>3. CASE trans_list_src_ipod = NULL
    <3>1. list = <<>> /\ timer = FALSE
      BY <2>3 DEF SourceWithWindow, Inv, TypeOK
    <3> QED BY <1>2, <2>1, <2>3, <3>1, SameBatch
  <2>4. CASE trans_list_src_ipod # NULL
    <3>1. \A i \in DOMAIN list : BatchOf(list)[i].entry # "added"
      BY <2>2 DEF Clean, BatchOf
    <3>2. DOMAIN BatchOf(list) = DOMAIN list /\ BatchOf(list') = <<>>
      BY <2>1 DEF BatchOf
    <3>3. B!Dismiss
      BY <1>2, <2>1, <2>4, <3>1, <3>2 DEF B!Dismiss, BatchOf
    <3> QED BY <3>3 DEF B!Next
  <2> QED BY <2>3, <2>4
<1> QED BY <1>1, <1>2 DEF menu_button

\* Nothing else is a step of a transfer.
LEMMA OthersAreSame ==
    ASSUME \/ open_music_menu \/ open_song \/ local_transfer_alt_menu \/ leave_menu
           \/ draw_transfer_widget \/ remove_tracks \/ mpd_is_dirty
    PROVE  UNCHANGED B!vars
<1>1. list' = list /\ timer' = timer /\ trans_list_src_ipod' = trans_list_src_ipod
  BY DEF open_music_menu, open_song, local_transfer_alt_menu, leave_menu, transfer_alt_menu,
         draw_transfer_widget, remove_tracks, mpd_is_dirty, Fail, listVars
<1> QED BY <1>1, SameBatch

\* The invariant of the refinement.
LEMMA SourceStep ==
    ASSUME Inv, Core, SourceWithWindow, Next
    PROVE  SourceWithWindow'
<1>1. CASE transfer_tracks
  <2>1. alt.ipod # NULL
    BY <1>1, TransferAssumption DEF transfer_tracks, Inv, TypeOK, TransferMenu, Ipods
  <2> QED BY <1>1, <2>1 DEF transfer_tracks, SourceWithWindow
<1>2. CASE \/ open_music_menu \/ open_song \/ local_transfer_alt_menu \/ leave_menu
           \/ draw_transfer_widget \/ remove_tracks \/ mpd_is_dirty
  BY <1>2 DEF open_music_menu, open_song, local_transfer_alt_menu, leave_menu, transfer_alt_menu,
         draw_transfer_widget, remove_tracks, mpd_is_dirty, Fail, listVars, menuVars, Back,
         SourceWithWindow
<1>3. CASE transfer_widget_timer_handler
  <2>1. UNCHANGED <<trans_list_src_ipod, menuVars>>
    BY <1>3 DEF transfer_widget_timer_handler, start_next_file_fails, Fail, listVars
  <2>2. timer /\ trans_list_src_ipod # NULL
    BY <1>3 DEF transfer_widget_timer_handler, SourceWithWindow
  <2> QED BY <2>1, <2>2 DEF menuVars, SourceWithWindow
<1>4. CASE answer_dialog
  <2>1. UNCHANGED <<trans_list_src_ipod, alt>> /\ screen = "dialog" /\ screen' = "transfer"
    BY <1>4 DEF answer_dialog
  <2>2. CASE UNCHANGED <<rip_status, list, streamVars, timer, dbVars, fault>>
    BY <2>1, <2>2 DEF SourceWithWindow
  <2>3. CASE transfer_finished(list, dst_ipod_dirty, db_dirty)
    <3>1. timer' = FALSE /\ list' \in {list, Saved(list)}
      BY <2>3 DEF transfer_finished, flush_destination
    <3>2. list = <<>> => list' = <<>>
      BY <3>1 DEF Saved
    <3> QED BY <2>1, <3>1, <3>2 DEF SourceWithWindow
  <2> QED BY <1>4, <2>2, <2>3 DEF answer_dialog
<1>5. CASE menu_button
  BY <1>5 DEF menu_button, transfer_list_reset, listVars, SourceWithWindow
<1> QED BY <1>1, <1>2, <1>3, <1>4, <1>5 DEF Next, Menus

\* Every step of a transfer is one of Batch or none.
LEMMA BatchStep ==
    ASSUME "flush" \notin Failures, BInv, [Next]_vars
    PROVE  BInv' /\ [B!Next]_(B!vars)
<1>1. SInv' /\ Inv /\ Inv'
  <2>1. SInv'
    BY SavedStep DEF BInv
  <2> QED BY <2>1 DEF BInv, SInv, EInv
<1>2. CASE Next
  <2>1. fault = "none" /\ Core /\ SavedCore /\ SourceWithWindow
    BY <1>2 DEF BInv, SInv, EInv, Next, Menus, transfer_widget_timer_handler,
       draw_transfer_widget, menu_button, answer_dialog, remove_tracks, mpd_is_dirty
  <2>2. BInv'
    BY <1>1, <1>2, <2>1, SourceStep DEF BInv
  <2>3. CASE Menus
    BY <1>1, <2>1, <2>2, <2>3, TransferTracksIsBegin, OthersAreSame DEF Menus, B!Next
  <2> QED BY <1>1, <1>2, <2>1, <2>2, <2>3, TimerIsStep, DialogIsStep, MenuButtonIsStep,
             OthersAreSame DEF Next
<1>3. CASE UNCHANGED vars
  <2>1. /\ list' = list /\ timer' = timer /\ trans_list_src_ipod' = trans_list_src_ipod
        /\ alt' = alt /\ screen' = screen /\ fault' = fault
    BY <1>3 DEF vars, listVars, menuVars
  <2>2. UNCHANGED B!vars
    BY <2>1, SameBatch
  <2> QED BY <1>1, <2>1, <2>2 DEF BInv, SourceWithWindow
<1> QED BY <1>2, <1>3

\* Where the database can be written, the transfer engine does what Batch
\* promises: tracks enter the database in the order of the list, all that was
\* added reaches the disk in the one write that ends the transfer, and no list
\* is dropped before that, whatever is aborted, fails or is asked in between
\* (transfer.c:273-434, 475-561).
THEOREM TransferImplementsBatch == "flush" \notin Failures => (Spec => ImplementsBatch)
<1> SUFFICES ASSUME "flush" \notin Failures PROVE Spec => ImplementsBatch
  OBVIOUS
<1>1. Init => BInv /\ B!Init
  <2>1. Init => BInv
    BY SavedInit DEF BInv, Init, NothingTransferred, SourceWithWindow
  <2>2. Init => B!Init
    BY DEF Init, NothingTransferred, B!Init
  <2> QED BY <2>1, <2>2
<1>2. BInv /\ [Next]_vars => BInv' /\ [B!Next]_(B!vars)
  BY BatchStep
<1> QED BY <1>1, <1>2, PTL DEF Spec, ImplementsBatch, B!Spec
=============================================================================
