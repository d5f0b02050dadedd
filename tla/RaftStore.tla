----------------------------- MODULE RaftStore -----------------------------
(***************************************************************************)
(* SpurStore (raft.rs): the disk-backed storage under the controller's     *)
(* Raft log, seen from one replica.  mem is what StoreInner and            *)
(* current_snapshot hold, disk what log/*.json, snapshot.json and          *)
(* purged.json hold, sm the operations the state machine shows.  A         *)
(* snapshot is built by a task of its own, concurrently with applies and   *)
(* with a snapshot installed by the leader; the process may die between    *)
(* any two file operations and recovers from disk.                         *)
(*                                                                         *)
(* openraft and the other members are external: they choose the committed  *)
(* log and call the storage as their contract says.  A committed entry is  *)
(* chosen by a quorum with this replica or, unless it is alone, without.   *)
(***************************************************************************)
EXTENDS Integers, Sequences

CONSTANTS
    Op,          \* operations proposed
    MaxIndex,    \* bound: length of the log
    MaxCrash,    \* bound: crashes
    Solo         \* a one-member cluster

ASSUME StoreAssumption ==
    /\ MaxIndex \in Nat
    /\ MaxCrash \in Nat
    /\ Solo \in BOOLEAN

VARIABLES
    chosen,      \* the committed log
    status,      \* "up", "down", or "refused" to start
    mem,         \* StoreInner: log, applied, purged; and current_snapshot: cache
    disk,        \* the files: log, snap, purged
    sm,          \* operations the state machine has applied
    build,       \* a snapshot captured and not yet persisted
    inst,        \* a snapshot installed and not yet persisted
    crashes

vars == <<chosen, status, mem, disk, sm, build, inst, crashes>>

Index == 1..MaxIndex

NoEntry == [kind |-> "none"]      \* no file
Torn == [kind |-> "torn"]         \* a file that does not parse
Normal(op) == [kind |-> "entry", op |-> op]
Entry == {Normal(op) : op \in Op}

Log == [Index -> Entry \cup {NoEntry, Torn}]

Snapshot == [idx : 0..MaxIndex, sm : Seq(Op)]
NoSnapshot == [idx |-> 0, sm |-> <<>>]

\* The state after the first k committed operations.
Prefix(k) == SubSeq(chosen, 1, k)

Holds(l, i) == i \in DOMAIN chosen /\ l[i] = Normal(chosen[i])

\* get_log_state: the last entry present, or the purged id when there is none.
AtEnd(i) ==
    /\ i > mem.purged
    /\ \A k \in Index : k >= i => mem.log[k] = NoEntry
    /\ i - 1 > mem.purged => mem.log[i - 1] # NoEntry

Init ==
    /\ chosen = <<>>
    /\ status = "up"
    /\ disk = [log |-> [i \in Index |-> NoEntry], snap |-> NoSnapshot, purged |-> 0]
    /\ mem = [log |-> disk.log, applied |-> 0, purged |-> 0, cache |-> NoSnapshot]
    /\ sm = <<>>
    /\ build = NoSnapshot
    /\ inst = NoSnapshot
    /\ crashes = 0

(***************************************************************************)
(* The storage calls of openraft.                                          *)
(***************************************************************************)
Written(l, i, e) == [l EXCEPT ![i] = e]

Removed(l, S) == [i \in Index |-> IF i \in S THEN NoEntry ELSE l[i]]

\* append_to_log, one entry: the file is written in place, then the entry is in
\* memory.  Committed entries arrive as chosen; others are proposals.
append_to_log(i, op) ==
    /\ status = "up"
    /\ AtEnd(i)
    /\ i > mem.applied
    /\ i \in DOMAIN chosen => op = chosen[i]
    /\ disk' = [disk EXCEPT !.log = Written(disk.log, i, Normal(op))]
    /\ mem' = [mem EXCEPT !.log = Written(mem.log, i, Normal(op))]
    /\ UNCHANGED <<chosen, status, sm, build, inst, crashes>>

\* delete_conflict_logs_since: openraft never asks to delete a committed entry.
Conflicting(i) ==
    /\ ~Solo
    /\ i > mem.applied
    /\ mem.log[i] # NoEntry
    /\ \A k \in Index : k >= i => ~Holds(mem.log, k)

delete_conflict_logs_since(i) ==
    /\ status = "up"
    /\ Conflicting(i)
    /\ disk' = [disk EXCEPT !.log = Removed(disk.log, i..MaxIndex)]
    /\ mem' = [mem EXCEPT !.log = Removed(mem.log, i..MaxIndex)]
    /\ UNCHANGED <<chosen, status, sm, build, inst, crashes>>

\* purge_logs_upto: openraft purges what a persisted snapshot covers, and at
\* startup whatever the restored state covers.  purged.json goes first.
Purgeable(k) == k > mem.purged /\ k <= mem.cache.idx

purge_logs_upto(k) ==
    /\ status = "up"
    /\ Purgeable(k)
    /\ disk' = [disk EXCEPT !.purged = k, !.log = Removed(disk.log, 1..k)]
    /\ mem' = [mem EXCEPT !.purged = k, !.log = Removed(mem.log, 1..k)]
    /\ UNCHANGED <<chosen, status, sm, build, inst, crashes>>

\* apply_to_state_machine, one committed entry, under the inner lock.  Applies
\* and installs are served by one openraft worker.
apply_to_state_machine ==
    /\ status = "up"
    /\ inst = NoSnapshot
    /\ mem.applied < MaxIndex
    /\ Holds(mem.log, mem.applied + 1)
    /\ mem' = [mem EXCEPT !.applied = @ + 1]
    /\ sm' = Append(sm, mem.log[mem.applied + 1].op)
    /\ UNCHANGED <<chosen, status, disk, build, inst, crashes>>

(***************************************************************************)
(* Snapshots.                                                              *)
(***************************************************************************)
\* build_snapshot: state and index are captured together, then persisted
\* without the lock.
\* Mutant: the index is read before an entry in flight is applied.
build_snapshot_Apart ==
    /\ status = "up"
    /\ build = NoSnapshot
    /\ mem.applied > 1
    /\ build' = [idx |-> mem.applied - 1, sm |-> sm]
    /\ UNCHANGED <<chosen, status, mem, disk, sm, inst, crashes>>
build_snapshot ==
    /\ status = "up"
    /\ build = NoSnapshot
    /\ mem.applied > 0
    /\ build' = [idx |-> mem.applied, sm |-> sm]
    /\ UNCHANGED <<chosen, status, mem, disk, sm, inst, crashes>>

\* persist_and_cache_snapshot, under persist_lock: not over a newer one.
\* Mutant: the last writer wins.
persist_and_cache_snapshot_LastWins(s) ==
    /\ disk' = [disk EXCEPT !.snap = s]
    /\ mem' = [mem EXCEPT !.cache = s]
persist_and_cache_snapshot(s) ==
    IF mem.cache.idx >= s.idx
    THEN UNCHANGED <<mem, disk>>
    ELSE /\ disk' = [disk EXCEPT !.snap = s]
         /\ mem' = [mem EXCEPT !.cache = s]

BuildPersists ==
    /\ status = "up"
    /\ build # NoSnapshot
    /\ persist_and_cache_snapshot(build)
    /\ build' = NoSnapshot
    /\ UNCHANGED <<chosen, status, sm, inst, crashes>>

\* install_snapshot: the leader's state is restored, with its index, under one
\* guard; then it is persisted.
\* Mutant: the index follows only once the snapshot is persisted.
install_snapshot_Late(k) ==
    /\ status = "up"
    /\ ~Solo
    /\ inst = NoSnapshot
    /\ k \in DOMAIN chosen /\ k > mem.applied
    /\ sm' = Prefix(k)
    /\ inst' = [idx |-> k, sm |-> Prefix(k)]
    /\ UNCHANGED <<chosen, status, mem, disk, build, crashes>>
install_snapshot(k) ==
    /\ status = "up"
    /\ ~Solo
    /\ inst = NoSnapshot
    /\ k \in DOMAIN chosen /\ k > mem.applied
    /\ sm' = Prefix(k)
    /\ mem' = [mem EXCEPT !.applied = k]
    /\ inst' = [idx |-> k, sm |-> Prefix(k)]
    /\ UNCHANGED <<chosen, status, disk, build, crashes>>

InstallPersists ==
    /\ status = "up"
    /\ inst # NoSnapshot
    /\ persist_and_cache_snapshot(inst)
    /\ inst' = NoSnapshot
    /\ UNCHANGED <<chosen, status, sm, build, crashes>>

(***************************************************************************)
(* The process dies and recovers.                                          *)
(***************************************************************************)
\* What the files may look like when the process dies inside a storage call:
\* an entry written in place is cut short, a deletion or a purge that goes
\* upwards has removed only its first files.
Interrupted ==
    {disk.log}
    \cup {Written(disk.log, i, Torn) : i \in {k \in Index : AtEnd(k) /\ k > mem.applied}}
    \cup {Removed(disk.log, i..k) : i \in {m \in Index : Conflicting(m)}, k \in Index}

Crash ==
    /\ status = "up"
    /\ crashes < MaxCrash
    /\ crashes' = crashes + 1
    /\ status' = "down"
    /\ \/ \E l \in Interrupted : disk' = [disk EXCEPT !.log = l]
       \/ \E k \in Index, m \in 0..MaxIndex :
             /\ Purgeable(k) /\ m <= k
             /\ disk' = [disk EXCEPT !.purged = k, !.log = Removed(disk.log, 1..m)]
    /\ UNCHANGED <<chosen, mem, sm, build, inst>>

\* What a new process knows: the files, and the state of the snapshot.
Recovered(l) ==
    /\ mem' = [log |-> l, applied |-> disk.snap.idx, purged |-> disk.purged,
               cache |-> disk.snap]
    /\ sm' = disk.snap.sm
    /\ build' = NoSnapshot
    /\ inst' = NoSnapshot

\* new_with_recovery_mode: strict refuses a file that does not parse, lenient
\* skips it.
new_with_recovery_mode(strict) ==
    LET torn == {i \in Index : disk.log[i] = Torn} IN
    /\ IF strict /\ torn # {}
       THEN /\ status = "down"
            /\ status' = "refused"
            /\ UNCHANGED <<mem, sm, build, inst>>
       ELSE /\ status = IF strict THEN "down" ELSE "refused"
            /\ status' = "up"
            /\ Recovered(Removed(disk.log, torn))
    /\ UNCHANGED <<chosen, disk, crashes>>

(***************************************************************************)
(* External: a quorum commits the next entry.                              *)
(***************************************************************************)
Choose(op) ==
    LET i == Len(chosen) + 1 IN
    /\ i <= MaxIndex
    /\ \/ /\ status = "up"
          /\ mem.log[i] = Normal(op)
       \/ ~Solo
    /\ chosen' = Append(chosen, op)
    /\ UNCHANGED <<status, mem, disk, sm, build, inst, crashes>>

Next ==
    \/ \E op \in Op : Choose(op) \/ \E i \in Index : append_to_log(i, op)
    \/ \E i \in Index :
          \/ delete_conflict_logs_since(i)
          \/ purge_logs_upto(i)
          \/ install_snapshot(i)
    \/ apply_to_state_machine
    \/ build_snapshot
    \/ BuildPersists
    \/ InstallPersists
    \/ Crash
    \/ \E strict \in BOOLEAN : new_with_recovery_mode(strict)

Spec == Init /\ [][Next]_vars

(***************************************************************************)
(* Properties                                                              *)
(***************************************************************************)
TypeOK ==
    /\ chosen \in Seq(Op) /\ Len(chosen) <= MaxIndex
    /\ status \in {"up", "down", "refused"}
    /\ disk \in [log : Log, snap : Snapshot, purged : 0..MaxIndex]
    /\ mem \in [log : Log, applied : 0..MaxIndex, purged : 0..MaxIndex, cache : Snapshot]
    /\ sm \in Seq(Op)
    /\ build \in Snapshot /\ inst \in Snapshot
    /\ crashes \in 0..MaxCrash

\* The state machine shows the committed log up to last_applied, each operation
\* once and none left out, through snapshots built and installed, purges,
\* crashes inside any of them, and the replay that follows a restart.
AppliedIsCommitted ==
    /\ mem.applied \in 0..Len(chosen)
    /\ sm = Prefix(mem.applied)

\* A committed entry is on disk, in its file or under the snapshot.
Kept(i) == i <= disk.snap.idx \/ Holds(disk.log, i)

\* The log is never purged past what the snapshot on disk restores.
PurgedIsCovered == disk.purged <= disk.snap.idx /\ disk.snap.sm = Prefix(disk.snap.idx)

\* The store keeps what ReplicatedLog promises: every step of it, every crash and
\* every recovery is a step of that specification or none.
Promise == INSTANCE ReplicatedLog WITH view <- sm,
                                       kept <- {i \in DOMAIN chosen : Kept(i)}

ImplementsReplicatedLog == Promise!Spec

=============================================================================
