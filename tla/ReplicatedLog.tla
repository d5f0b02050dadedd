--------------------------- MODULE ReplicatedLog ---------------------------
(***************************************************************************)
(* What the storage of a replica promises to Raft and to the cluster state *)
(* above it: the state shown is the committed log up to some point, and a  *)
(* committed entry once stored is never lost.  A restart may show an       *)
(* earlier point, but only one that is stored in full.                     *)
(***************************************************************************)
EXTENDS Integers, Sequences

CONSTANT Op

VARIABLES
    chosen,    \* the committed log
    view,      \* operations shown
    kept       \* indices of committed entries stored

rvars == <<chosen, view, kept>>

Init == chosen = <<>> /\ view = <<>> /\ kept = {}

\* The entry may be stored before or when it is committed, or later.
Commit(op) ==
    /\ chosen' = Append(chosen, op)
    /\ kept' \in {kept, kept \cup {Len(chosen) + 1}}
    /\ UNCHANGED view

Store ==
    /\ \E i \in DOMAIN chosen : kept' = kept \cup {i}
    /\ UNCHANGED <<chosen, view>>

\* Entries are shown one by one, or many at once from a snapshot.
Advance(k) ==
    /\ k > Len(view)
    /\ view' = SubSeq(chosen, 1, k)
    /\ UNCHANGED <<chosen, kept>>

\* A snapshot covers every entry before it.
Cover(k) ==
    /\ kept' = kept \cup 1..k
    /\ UNCHANGED <<chosen, view>>

Restart(k) ==
    /\ 1..k \subseteq kept
    /\ view' = SubSeq(chosen, 1, k)
    /\ UNCHANGED <<chosen, kept>>

Next ==
    \/ \E op \in Op : Commit(op)
    \/ Store
    \/ \E k \in 0..Len(chosen) : Advance(k) \/ Cover(k) \/ Restart(k)

Spec == Init /\ [][Next]_rvars

=============================================================================
