------------------------------- MODULE Batch -------------------------------
(***************************************************************************)
(* What a transfer promises, without files, chunks, timers or windows: a   *)
(* batch of tracks enters the destination's database one after the other   *)
(* in the order of the list, and whatever has entered it reaches the disk  *)
(* in one write, when the transfer is over, never before and never in      *)
(* part.  Transfer implements this specification.                          *)
(***************************************************************************)
EXTENDS Integers, Sequences

CONSTANT Tracks

VARIABLES
    batch,  \* the tracks to transfer, each with what has become of its entry
    phase   \* "idle", "running" or "over"

vars == <<batch, phase>>

Entry == [track : Tracks, entry : {"none", "added", "saved"}]

TypeOK ==
    /\ batch \in Seq(Entry)
    /\ phase \in {"idle", "running", "over"}

Init == batch = <<>> /\ phase = "idle"

Begin ==
    /\ phase = "idle" /\ phase' = "running"
    /\ batch' \in Seq(Entry)
    /\ \A i \in DOMAIN batch' : batch'[i].entry = "none"

\* The first track that is not in the database yet.
IsNext(i) ==
    /\ i \in DOMAIN batch /\ batch[i].entry = "none"
    /\ \A j \in 1..(i - 1) : batch[j].entry # "none"

AddTrack ==
    /\ phase = "running" /\ UNCHANGED phase
    /\ \E i \in DOMAIN batch : IsNext(i) /\ batch' = [batch EXCEPT ![i].entry = "added"]

\* Whatever was added is saved; adding the last track and saving it may be
\* one step.
Save ==
    /\ phase = "running" /\ phase' = "over"
    /\ \E last \in {0} \cup {i \in DOMAIN batch : IsNext(i)} :
          batch' = [i \in DOMAIN batch |->
                      IF batch[i].entry = "added" \/ i = last
                      THEN [batch[i] EXCEPT !.entry = "saved"]
                      ELSE batch[i]]

\* The list is dropped when its transfer is over, or before anything was added.
Dismiss ==
    /\ phase # "idle" /\ phase' = "idle"
    /\ \A i \in DOMAIN batch : batch[i].entry # "added"
    /\ batch' = <<>>

Next == Begin \/ AddTrack \/ Save \/ Dismiss

Spec == Init /\ [][Next]_vars
=============================================================================
