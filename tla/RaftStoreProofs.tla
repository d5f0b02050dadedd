-------------------------- MODULE RaftStoreProofs --------------------------
(***************************************************************************)
(* RaftStore implements ReplicatedLog, for any operations, any length of   *)
(* the log and any number of crashes.  The inductive invariant says that   *)
(* every snapshot in existence - on disk, cached, being built or being     *)
(* installed - is a prefix of the committed log, that the running process  *)
(* agrees with its files, and that nothing is purged past the snapshot.    *)
(***************************************************************************)
EXTENDS RaftStore, TLAPS

Sound(s) == s \in Snapshot /\ s.idx <= Len(chosen) /\ s.sm = Prefix(s.idx)

\* A running process and its files: an entry that does not parse is not in memory.
Agree ==
    /\ mem.cache = disk.snap
    /\ mem.purged = disk.purged
    /\ \A i \in Index : mem.log[i] = IF disk.log[i] = Torn THEN NoEntry ELSE disk.log[i]

StoreInv ==
    /\ TypeOK
    /\ AppliedIsCommitted
    /\ Sound(disk.snap) /\ Sound(build) /\ Sound(inst)
    /\ disk.purged <= disk.snap.idx
    /\ status = "up" => Agree

LEMMA EntryKinds ==
    /\ NoEntry # Torn
    /\ \A op \in Op : Normal(op) # NoEntry /\ Normal(op) # Torn /\ Normal(op).op = op
    /\ \A o, p \in Op : Normal(o) = Normal(p) => o = p
  BY Zenon DEF NoEntry, Torn, Normal

LEMMA PrefixExtends ==
    ASSUME NEW s \in Seq(Op), NEW op \in Op, NEW k \in 0..Len(s)
    PROVE  SubSeq(Append(s, op), 1, k) = SubSeq(s, 1, k)
  OBVIOUS

LEMMA PrefixGrows ==
    ASSUME NEW s \in Seq(Op), NEW k \in Nat, k < Len(s)
    PROVE  Append(SubSeq(s, 1, k), s[k + 1]) = SubSeq(s, 1, k + 1)
  OBVIOUS

LEMMA PrefixType ==
    ASSUME NEW s \in Seq(Op), NEW k \in 0..Len(s)
    PROVE  SubSeq(s, 1, k) \in Seq(Op) /\ Len(SubSeq(s, 1, k)) = k
  OBVIOUS

LEMMA NothingSound ==
    ASSUME chosen \in Seq(Op) PROVE Sound(NoSnapshot)
  BY StoreAssumption DEF Sound, NoSnapshot, Snapshot, Prefix

LEMMA InitSound == Init => StoreInv
<1> SUFFICES ASSUME Init PROVE StoreInv
  BY Zenon
<1>1. TypeOK
  BY StoreAssumption DEF Init, TypeOK, Log, Snapshot, NoSnapshot
<1>2. AppliedIsCommitted
  BY DEF Init, AppliedIsCommitted, Prefix
<1>3. Sound(NoSnapshot)
  BY <1>1, NothingSound, Zenon DEF TypeOK
<1>4. Agree
  BY EntryKinds, Zenon DEF Init, Agree
<1> QED BY <1>1, <1>2, <1>3, <1>4, StoreAssumption DEF Init, StoreInv, NoSnapshot

KeptSet == {i \in DOMAIN chosen : Kept(i)}

\* Parts of the state that an action leaves alone keep what is said of them.
LEMMA SoundKept ==
    ASSUME NEW s, Sound(s), chosen \in Seq(Op), UNCHANGED chosen
    PROVE  Sound(s)'
  BY Zenon DEF Sound, Prefix

LEMMA SoundNothing ==
    ASSUME chosen \in Seq(Op)
    PROVE  Sound(NoSnapshot)
<1>1. NoSnapshot \in Snapshot /\ NoSnapshot.idx = 0 /\ NoSnapshot.sm = <<>>
  BY StoreAssumption DEF NoSnapshot, Snapshot
<1>2. 0 <= Len(chosen) /\ SubSeq(chosen, 1, 0) = <<>>
  OBVIOUS
<1> QED BY <1>1, <1>2, Zenon DEF Sound, Prefix

LEMMA RemovedLog ==
    ASSUME NEW l \in Log, NEW S
    PROVE  /\ Removed(l, S) \in Log
           /\ \A i \in Index : Removed(l, S)[i] = IF i \in S THEN NoEntry ELSE l[i]
  BY Zenon DEF Log, Removed

LEMMA WrittenLog ==
    ASSUME NEW l \in Log, NEW i \in Index, NEW e \in Entry \cup {NoEntry, Torn}
    PROVE  /\ Written(l, i, e) \in Log
           /\ Written(l, i, e)[i] = e
           /\ \A k \in Index : k # i => Written(l, i, e)[k] = l[k]
  BY Zenon DEF Log, Written

LEMMA ChooseStep ==
    ASSUME StoreInv, NEW op \in Op, Choose(op)
    PROVE  StoreInv' /\ Promise!Commit(op)
<1>0. /\ chosen \in Seq(Op) /\ chosen' = Append(chosen, op) /\ Len(chosen) + 1 <= MaxIndex
      /\ Len(chosen) \in Nat /\ MaxIndex \in Nat
  BY StoreAssumption DEF StoreInv, TypeOK, Choose
<1>1. \A k \in 0..Len(chosen) : SubSeq(chosen', 1, k) = SubSeq(chosen, 1, k)
  BY <1>0, PrefixExtends, Zenon
<1>2. Len(chosen') = Len(chosen) + 1 /\ chosen' \in Seq(Op)
  BY <1>0
<1>3. TypeOK'
  BY <1>0, <1>2, Zenon DEF StoreInv, TypeOK, Choose
<1>4. AppliedIsCommitted'
  BY <1>0, <1>1, <1>2 DEF StoreInv, AppliedIsCommitted, Prefix, Choose
<1>5. Sound(disk.snap)' /\ Sound(build)' /\ Sound(inst)'
  <2>1. ASSUME NEW s, Sound(s)
        PROVE  /\ s \in Snapshot /\ s.idx <= Len(chosen')
               /\ s.sm = SubSeq(chosen', 1, s.idx)
    <3>1. s \in Snapshot /\ s.idx \in Nat /\ s.idx <= Len(chosen)
      BY <2>1, <1>0 DEF Sound, Snapshot
    <3>2. s.idx \in 0..Len(chosen) /\ s.idx <= Len(chosen')
      BY <3>1, <1>0, <1>2
    <3> QED BY <2>1, <3>1, <3>2, <1>1, Zenon DEF Sound, Prefix
  <2>2. UNCHANGED <<disk, build, inst>>
    BY Zenon DEF Choose
  <2> QED BY <2>1, <2>2, Zenon DEF StoreInv, Sound, Prefix
<1>6. StoreInv'
  BY <1>3, <1>4, <1>5, Zenon DEF StoreInv, Choose, Agree
<1>7. \A i \in DOMAIN chosen : Kept(i)' <=> Kept(i)
  BY <1>0 DEF Kept, Holds, Choose
<1>8. DOMAIN chosen' = DOMAIN chosen \cup {Len(chosen) + 1}
  BY <1>0
<1>9. KeptSet' \in {KeptSet, KeptSet \cup {Len(chosen) + 1}}
  BY <1>7, <1>8, Zenon DEF KeptSet
<1> QED BY <1>0, <1>6, <1>9, Zenon DEF Promise!Commit, KeptSet, Choose

LEMMA AppendStep ==
    ASSUME StoreInv, NEW i \in Index, NEW op \in Op, append_to_log(i, op)
    PROVE  StoreInv' /\ (Promise!Store \/ UNCHANGED <<chosen, sm, KeptSet>>)
<1> DEFINE e == Normal(op)
<1>0. /\ e \in Entry \cup {NoEntry, Torn} /\ e # NoEntry /\ e # Torn
      /\ disk.log \in Log /\ mem.log \in Log /\ chosen \in Seq(Op)
  BY EntryKinds, Zenon DEF Entry, StoreInv, TypeOK
<1>1. /\ disk'.log = Written(disk.log, i, e) /\ disk'.snap = disk.snap
      /\ disk'.purged = disk.purged
      /\ mem'.log = Written(mem.log, i, e) /\ mem'.applied = mem.applied
      /\ mem'.purged = mem.purged /\ mem'.cache = mem.cache
      /\ UNCHANGED <<chosen, status, sm, build, inst, crashes>>
  BY Zenon DEF append_to_log, StoreInv, TypeOK
<1>2. disk'.log \in Log /\ mem'.log \in Log
  BY <1>0, <1>1, WrittenLog
<1>3. TypeOK'
  BY <1>1, <1>2, Zenon DEF append_to_log, StoreInv, TypeOK
<1>4. Agree'
  BY <1>0, <1>1, WrittenLog DEF StoreInv, Agree, append_to_log
<1>5. Sound(disk.snap)' /\ Sound(build)' /\ Sound(inst)'
  BY <1>1, Zenon DEF StoreInv, Sound, Prefix
<1>6. StoreInv'
  BY <1>1, <1>3, <1>4, <1>5, Zenon DEF StoreInv, AppliedIsCommitted, Prefix
<1>7. mem.log[i] = NoEntry
  BY DEF append_to_log, AtEnd, Index
<1>8. \A k \in Index : k # i => disk'.log[k] = disk.log[k]
  BY <1>0, <1>1, WrittenLog
<1>9. DOMAIN chosen \subseteq Index
  BY <1>0, StoreAssumption DEF StoreInv, TypeOK, Index
<1>10. \A k \in DOMAIN chosen : k # i => (Kept(k)' <=> Kept(k))
  BY <1>1, <1>8, <1>9, Zenon DEF Kept, Holds
<1>11. CASE i \in DOMAIN chosen
  <2>1. disk'.log[i] = Normal(chosen[i])
    BY <1>0, <1>1, <1>11, WrittenLog DEF append_to_log
  <2>2. Kept(i)'
    BY <1>1, <1>11, <2>1, Zenon DEF Kept, Holds
  <2>3. KeptSet' = KeptSet \cup {i}
    BY <1>1, <1>10, <1>11, <2>2, Zenon DEF KeptSet
  <2> QED BY <1>1, <1>6, <1>11, <2>3, Zenon DEF Promise!Store, KeptSet
<1>12. CASE i \notin DOMAIN chosen
  <2>1. KeptSet' = KeptSet
    BY <1>1, <1>10, <1>12, Zenon DEF KeptSet
  <2> QED BY <1>1, <1>6, <2>1, Zenon
<1> QED BY <1>11, <1>12, Zenon

\* A deletion, whole or interrupted, takes no committed entry.
LEMMA DeletionKeeps ==
    ASSUME StoreInv, status = "up", NEW i \in Index, Conflicting(i), NEW k \in Index,
           NEW j \in DOMAIN chosen
    PROVE  Holds(Removed(disk.log, i..k), j) <=> Holds(disk.log, j)
<1>0. /\ disk.log \in Log /\ chosen \in Seq(Op) /\ Len(chosen) <= MaxIndex
      /\ MaxIndex \in Nat /\ Agree
  BY StoreAssumption, Zenon DEF StoreInv, TypeOK
<1>1. j \in Index /\ chosen[j] \in Op /\ i..k \in SUBSET Index
  BY <1>0 DEF Index
<1>2. \A S : Removed(disk.log, S)[j] = IF j \in S THEN NoEntry ELSE disk.log[j]
  BY <1>0, <1>1, Zenon DEF Removed
<1>3. CASE j \in i..k
  <2>1. j >= i
    BY <1>3, <1>1 DEF Index
  <2>2. ~Holds(mem.log, j)
    BY <2>1, <1>1, Zenon DEF Conflicting
  <2>3. ~Holds(disk.log, j)
    BY <2>2, <1>0, <1>1, EntryKinds, Zenon DEF Agree, Holds
  <2> QED BY <1>1, <1>2, <1>3, <2>3, EntryKinds, Zenon DEF Holds
<1> QED BY <1>2, <1>3, Zenon DEF Holds

LEMMA DeleteStep ==
    ASSUME StoreInv, NEW i \in Index, delete_conflict_logs_since(i)
    PROVE  StoreInv' /\ UNCHANGED <<chosen, sm, KeptSet>>
<1> DEFINE S == i..MaxIndex
<1>0. /\ disk.log \in Log /\ mem.log \in Log /\ chosen \in Seq(Op)
      /\ MaxIndex \in Index /\ status = "up" /\ Conflicting(i)
  BY StoreAssumption DEF StoreInv, TypeOK, delete_conflict_logs_since, Index
<1>1. /\ disk'.log = Removed(disk.log, S) /\ disk'.snap = disk.snap
      /\ disk'.purged = disk.purged
      /\ mem'.log = Removed(mem.log, S) /\ mem'.applied = mem.applied
      /\ mem'.purged = mem.purged /\ mem'.cache = mem.cache
      /\ UNCHANGED <<chosen, status, sm, build, inst, crashes>>
  BY Zenon DEF delete_conflict_logs_since, StoreInv, TypeOK
<1>2. \A j \in DOMAIN chosen : Holds(Removed(disk.log, S), j) <=> Holds(disk.log, j)
  BY <1>0, DeletionKeeps, Zenon
<1> HIDE DEF S
<1>3. disk'.log \in Log /\ mem'.log \in Log
  BY <1>0, <1>1, RemovedLog
<1>4. TypeOK'
  BY <1>1, <1>3, Zenon DEF delete_conflict_logs_since, StoreInv, TypeOK
<1>5. Agree'
  <2>1. \A k \in Index : /\ disk'.log[k] = IF k \in S THEN NoEntry ELSE disk.log[k]
                         /\ mem'.log[k] = IF k \in S THEN NoEntry ELSE mem.log[k]
    BY <1>0, <1>1, RemovedLog
  <2> QED BY <2>1, <1>0, <1>1, EntryKinds, Zenon DEF StoreInv, Agree
<1>6. Sound(disk.snap)' /\ Sound(build)' /\ Sound(inst)'
  BY <1>1, Zenon DEF StoreInv, Sound, Prefix
<1>7. StoreInv'
  BY <1>1, <1>4, <1>5, <1>6, Zenon DEF StoreInv, AppliedIsCommitted, Prefix
<1>8. \A j \in DOMAIN chosen : Kept(j)' <=> Kept(j)
  BY <1>1, <1>2, Zenon DEF Kept, Holds
<1> QED BY <1>1, <1>7, <1>8, Zenon DEF KeptSet

\* A purge, whole or interrupted, takes only what the snapshot covers.
LEMMA PurgeKeeps ==
    ASSUME StoreInv, status = "up", NEW k \in Index, Purgeable(k), NEW m \in 0..MaxIndex, m <= k,
           NEW j \in DOMAIN chosen
    PROVE  (j <= disk.snap.idx \/ Holds(Removed(disk.log, 1..m), j)) <=> Kept(j)
<1>0. /\ disk.log \in Log /\ chosen \in Seq(Op) /\ Len(chosen) <= MaxIndex
      /\ MaxIndex \in Nat /\ disk.snap.idx \in Nat /\ k <= disk.snap.idx
  BY StoreAssumption DEF StoreInv, TypeOK, Agree, Purgeable, Snapshot
<1>1. j \in Index
  BY <1>0 DEF Index
<1>2. \A S : Removed(disk.log, S)[j] = IF j \in S THEN NoEntry ELSE disk.log[j]
  BY <1>0, <1>1, Zenon DEF Removed
<1>3. CASE j \in 1..m
  BY <1>0, <1>1, <1>3 DEF Kept, Index
<1> QED BY <1>2, <1>3, Zenon DEF Kept, Holds

LEMMA PurgeStep ==
    ASSUME StoreInv, NEW k \in Index, purge_logs_upto(k)
    PROVE  StoreInv' /\ UNCHANGED <<chosen, sm, KeptSet>>
<1> DEFINE S == 1..k
<1>0. /\ disk.log \in Log /\ mem.log \in Log /\ chosen \in Seq(Op)
      /\ status = "up" /\ Purgeable(k) /\ k \in 0..MaxIndex
  BY StoreAssumption DEF StoreInv, TypeOK, purge_logs_upto, Index
<1>1. /\ disk'.log = Removed(disk.log, S) /\ disk'.snap = disk.snap /\ disk'.purged = k
      /\ mem'.log = Removed(mem.log, S) /\ mem'.applied = mem.applied
      /\ mem'.purged = k /\ mem'.cache = mem.cache
      /\ UNCHANGED <<chosen, status, sm, build, inst, crashes>>
  BY Zenon DEF purge_logs_upto, StoreInv, TypeOK
<1>2. \A j \in DOMAIN chosen :
        (j <= disk.snap.idx \/ Holds(Removed(disk.log, S), j)) <=> Kept(j)
  BY <1>0, PurgeKeeps
<1> HIDE DEF S
<1>3. disk'.log \in Log /\ mem'.log \in Log
  BY <1>0, <1>1, RemovedLog
<1>4. TypeOK'
  BY <1>0, <1>1, <1>3, Zenon DEF purge_logs_upto, StoreInv, TypeOK
<1>5. Agree'
  <2>1. \A j \in Index : /\ disk'.log[j] = IF j \in S THEN NoEntry ELSE disk.log[j]
                         /\ mem'.log[j] = IF j \in S THEN NoEntry ELSE mem.log[j]
    BY <1>0, <1>1, Zenon DEF Removed
  <2> QED BY <2>1, <1>0, <1>1, EntryKinds, Zenon DEF StoreInv, Agree
<1>6. Sound(disk.snap)' /\ Sound(build)' /\ Sound(inst)'
  BY <1>1, Zenon DEF StoreInv, Sound, Prefix
<1>7. k <= disk.snap.idx
  BY <1>0, Zenon DEF StoreInv, Agree, Purgeable
<1>8. StoreInv'
  BY <1>1, <1>4, <1>5, <1>6, <1>7, Zenon DEF StoreInv, AppliedIsCommitted, Prefix
<1>9. \A j \in DOMAIN chosen : Kept(j)' <=> Kept(j)
  BY <1>1, <1>2, Zenon DEF Kept, Holds
<1> QED BY <1>1, <1>8, <1>9, Zenon DEF KeptSet

LEMMA ApplyStep ==
    ASSUME StoreInv, apply_to_state_machine
    PROVE  StoreInv' /\ \E k \in 0..Len(chosen) : Promise!Advance(k)
<1> DEFINE k == mem.applied + 1
<1>0. /\ chosen \in Seq(Op) /\ mem.applied \in 0..Len(chosen) /\ sm = SubSeq(chosen, 1, mem.applied)
      /\ Len(chosen) <= MaxIndex /\ mem.applied \in Nat /\ Len(chosen) \in Nat /\ MaxIndex \in Nat
  BY StoreAssumption DEF StoreInv, TypeOK, AppliedIsCommitted, Prefix
<1>1. k \in DOMAIN chosen /\ mem.log[k] = Normal(chosen[k])
  BY Zenon DEF apply_to_state_machine, Holds
<1>2. k \in 1..Len(chosen) /\ chosen[k] \in Op
  BY <1>0, <1>1
<1>3. mem.log[k].op = chosen[k]
  BY <1>1, <1>2, EntryKinds, Zenon
<1>4. sm' = SubSeq(chosen, 1, k)
  BY <1>0, <1>2, <1>3, PrefixGrows DEF apply_to_state_machine
<1>5. /\ mem'.applied = k /\ mem'.log = mem.log /\ mem'.purged = mem.purged
      /\ mem'.cache = mem.cache
      /\ UNCHANGED <<chosen, status, disk, build, inst, crashes>>
  BY <1>0, Zenon DEF apply_to_state_machine, StoreInv, TypeOK
<1>6. sm' \in Seq(Op) /\ Len(sm) = mem.applied
  BY <1>0, <1>2, <1>4, PrefixType
<1>7. TypeOK'
  <2>1. k \in 0..MaxIndex
    BY <1>0, <1>2
  <2>2. mem' = [mem EXCEPT !.applied = k]
    BY <1>0, Zenon DEF apply_to_state_machine
  <2> HIDE DEF k
  <2>3. mem' \in [log : Log, applied : 0..MaxIndex, purged : 0..MaxIndex, cache : Snapshot]
    BY <2>1, <2>2, Zenon DEF StoreInv, TypeOK
  <2> QED BY <1>5, <1>6, <2>3, Zenon DEF StoreInv, TypeOK
<1>8. Sound(disk.snap)' /\ Sound(build)' /\ Sound(inst)'
  BY <1>5, Zenon DEF StoreInv, Sound, Prefix
<1>9. StoreInv'
  BY <1>2, <1>4, <1>5, <1>7, <1>8 DEF StoreInv, AppliedIsCommitted, Prefix, Agree
<1>10. KeptSet' = KeptSet
  BY <1>5, Zenon DEF KeptSet, Kept, Holds
<1>11. Promise!Advance(k)
  BY <1>0, <1>4, <1>5, <1>6, <1>10 DEF Promise!Advance, KeptSet
<1> QED BY <1>2, <1>9, <1>11

LEMMA BuildStep ==
    ASSUME StoreInv, build_snapshot
    PROVE  StoreInv' /\ UNCHANGED <<chosen, sm, KeptSet>>
<1>1. /\ build' = [idx |-> mem.applied, sm |-> sm]
      /\ UNCHANGED <<chosen, status, mem, disk, sm, inst, crashes>>
  BY Zenon DEF build_snapshot
<1>2. build' \in Snapshot
  BY <1>1, Zenon DEF StoreInv, TypeOK, Snapshot
<1>3. Sound(build)'
  BY <1>1, <1>2 DEF StoreInv, AppliedIsCommitted, Sound, Prefix, TypeOK
<1>4. TypeOK'
  BY <1>1, <1>2, Zenon DEF StoreInv, TypeOK
<1>5. Sound(disk.snap)' /\ Sound(inst)'
  BY <1>1, Zenon DEF StoreInv, Sound, Prefix
<1>6. StoreInv'
  BY <1>1, <1>3, <1>4, <1>5, Zenon DEF StoreInv, AppliedIsCommitted, Prefix, Agree
<1> QED BY <1>1, <1>6, Zenon DEF KeptSet, Kept, Holds

\* Whichever of two snapshots is newer ends up on disk and in the cache.
LEMMA PersistStep ==
    ASSUME StoreInv, status = "up", NEW s, Sound(s), persist_and_cache_snapshot(s),
           UNCHANGED <<chosen, status, sm, crashes>>,
           Sound(build)', Sound(inst)'
    PROVE  /\ StoreInv'
           /\ UNCHANGED <<chosen, sm, KeptSet>> \/ \E k \in 0..Len(chosen) : Promise!Cover(k)
<1>0. /\ mem.cache = disk.snap /\ s \in Snapshot /\ s.idx \in 0..Len(chosen)
      /\ chosen \in Seq(Op) /\ disk.snap \in Snapshot /\ disk.snap.idx \in Nat
  BY DEF StoreInv, Agree, Sound, Snapshot, TypeOK
<1>1. CASE mem.cache.idx >= s.idx
  <2>1. UNCHANGED <<mem, disk>>
    BY <1>1, Zenon DEF persist_and_cache_snapshot
  <2>2. Sound(disk.snap)'
    BY <2>1, Zenon DEF StoreInv, Sound, Prefix
  <2>3. TypeOK'
    BY <2>1, Zenon DEF StoreInv, TypeOK, Sound
  <2>4. StoreInv'
    BY <2>1, <2>2, <2>3, Zenon DEF StoreInv, AppliedIsCommitted, Prefix, Agree
  <2> QED BY <2>1, <2>4, Zenon DEF KeptSet, Kept, Holds
<1>2. CASE ~(mem.cache.idx >= s.idx)
  <2>1. disk' = [disk EXCEPT !.snap = s] /\ mem' = [mem EXCEPT !.cache = s]
    BY <1>2, Zenon DEF persist_and_cache_snapshot
  <2>2. /\ disk'.log = disk.log /\ disk'.snap = s /\ disk'.purged = disk.purged
        /\ mem'.log = mem.log /\ mem'.cache = s /\ mem'.purged = mem.purged
        /\ mem'.applied = mem.applied
    BY <2>1, Zenon DEF StoreInv, TypeOK
  <2>3. Sound(disk.snap)'
    BY <2>2, Zenon DEF Sound, Prefix
  <2>4. TypeOK'
    BY <1>0, <2>1, Zenon DEF StoreInv, TypeOK, Sound
  <2>5. disk.purged <= s.idx
    BY <1>0, <1>2 DEF StoreInv, TypeOK
  <2>6. StoreInv'
    BY <2>2, <2>3, <2>4, <2>5, Zenon DEF StoreInv, AppliedIsCommitted, Prefix, Agree
  <2>7. \A i \in DOMAIN chosen : Kept(i)' <=> (Kept(i) \/ i \in 1..s.idx)
    BY <1>0, <1>2, <2>2 DEF Kept, Holds
  <2>8. 1..s.idx \subseteq DOMAIN chosen
    BY <1>0
  <2>9. KeptSet' = KeptSet \cup 1..s.idx
    BY <2>7, <2>8, Zenon DEF KeptSet
  <2>10. Promise!Cover(s.idx)
    BY <2>9, Zenon DEF Promise!Cover, KeptSet
  <2> QED BY <1>0, <2>6, <2>10, Zenon
<1> QED BY <1>1, <1>2, Zenon

LEMMA BuildPersistsStep ==
    ASSUME StoreInv, BuildPersists
    PROVE  /\ StoreInv'
           /\ UNCHANGED <<chosen, sm, KeptSet>> \/ \E k \in 0..Len(chosen) : Promise!Cover(k)
<1>0. UNCHANGED <<chosen, inst>> /\ chosen \in Seq(Op)
  BY Zenon DEF StoreInv, TypeOK, BuildPersists
<1>1. Sound(NoSnapshot)' /\ Sound(inst)'
  BY <1>0, SoundNothing, Zenon DEF StoreInv, Sound, Prefix
<1>2. Sound(build)'
  BY <1>1, Zenon DEF BuildPersists, Sound
<1> QED BY <1>1, <1>2, PersistStep, Zenon DEF BuildPersists, StoreInv

LEMMA InstallPersistsStep ==
    ASSUME StoreInv, InstallPersists
    PROVE  /\ StoreInv'
           /\ UNCHANGED <<chosen, sm, KeptSet>> \/ \E k \in 0..Len(chosen) : Promise!Cover(k)
<1>0. UNCHANGED <<chosen, build>> /\ chosen \in Seq(Op)
  BY Zenon DEF StoreInv, TypeOK, InstallPersists
<1>1. Sound(NoSnapshot)' /\ Sound(build)'
  BY <1>0, SoundNothing, Zenon DEF StoreInv, Sound, Prefix
<1>2. Sound(inst)'
  BY <1>1, Zenon DEF InstallPersists, Sound
<1> QED BY <1>1, <1>2, PersistStep, Zenon DEF InstallPersists, StoreInv

LEMMA InstallStep ==
    ASSUME StoreInv, NEW k \in Index, install_snapshot(k)
    PROVE  StoreInv' /\ k \in 0..Len(chosen) /\ Promise!Advance(k)
<1>0. /\ chosen \in Seq(Op) /\ k \in 1..Len(chosen) /\ Len(chosen) <= MaxIndex
      /\ k > mem.applied /\ k \in 0..Len(chosen) /\ MaxIndex \in Nat /\ mem.applied \in Nat
  BY StoreAssumption DEF StoreInv, TypeOK, install_snapshot
<1>1. /\ sm' = Prefix(k) /\ inst' = [idx |-> k, sm |-> Prefix(k)]
      /\ mem' = [mem EXCEPT !.applied = k]
      /\ UNCHANGED <<chosen, status, disk, build, crashes>>
  BY Zenon DEF install_snapshot
<1>2. Prefix(k) \in Seq(Op) /\ Len(sm) = mem.applied
  BY <1>0, PrefixType, Zenon DEF Prefix, StoreInv, AppliedIsCommitted
<1>3. inst' \in Snapshot /\ k \in 0..MaxIndex
  BY <1>0, <1>1, <1>2 DEF Snapshot, Index
<1>4. Sound(inst)'
  BY <1>0, <1>1, <1>3 DEF Sound, Prefix
<1>5. TypeOK'
  BY <1>1, <1>2, <1>3, Zenon DEF StoreInv, TypeOK
<1>6. mem'.applied = k /\ mem'.log = mem.log /\ mem'.cache = mem.cache /\ mem'.purged = mem.purged
  BY <1>1, Zenon DEF StoreInv, TypeOK
<1>7. Sound(disk.snap)' /\ Sound(build)'
  BY <1>1, Zenon DEF StoreInv, Sound, Prefix
<1>8. StoreInv'
  BY <1>0, <1>1, <1>4, <1>5, <1>6, <1>7, Zenon DEF StoreInv, AppliedIsCommitted, Prefix, Agree
<1>9. KeptSet' = KeptSet
  BY <1>1, Zenon DEF KeptSet, Kept, Holds
<1> QED BY <1>0, <1>1, <1>2, <1>8, <1>9, Zenon DEF Promise!Advance, KeptSet, Prefix

\* A write cut short spoils no committed entry: its place was empty.
LEMMA TearingKeeps ==
    ASSUME StoreInv, status = "up", NEW i \in Index, AtEnd(i), NEW j \in DOMAIN chosen
    PROVE  Holds(Written(disk.log, i, Torn), j) <=> Holds(disk.log, j)
<1>0. disk.log \in Log /\ chosen \in Seq(Op) /\ Len(chosen) <= MaxIndex /\ MaxIndex \in Nat /\ Agree
  BY StoreAssumption, Zenon DEF StoreInv, TypeOK
<1>1. j \in Index /\ chosen[j] \in Op
  BY <1>0 DEF Index
<1>2. mem.log[i] = NoEntry
  BY DEF AtEnd, Index
<1>3. \A op \in Op : disk.log[i] # Normal(op)
  BY <1>0, <1>2, EntryKinds, Zenon DEF Agree
<1>4. Written(disk.log, i, Torn)[i] = Torn /\ (j # i => Written(disk.log, i, Torn)[j] = disk.log[j])
  BY <1>0, <1>1, WrittenLog
<1> QED BY <1>1, <1>3, <1>4, EntryKinds, Zenon DEF Holds

LEMMA InterruptedKeeps ==
    ASSUME StoreInv, status = "up", NEW l \in Interrupted
    PROVE  l \in Log /\ \A j \in DOMAIN chosen : Holds(l, j) <=> Holds(disk.log, j)
<1>0. disk.log \in Log
  BY Zenon DEF StoreInv, TypeOK
<1>1. CASE l = disk.log
  BY <1>0, <1>1, Zenon
<1>2. CASE \E i \in Index : AtEnd(i) /\ l = Written(disk.log, i, Torn)
  BY <1>0, <1>2, TearingKeeps, WrittenLog
<1>3. CASE \E i, k \in Index : Conflicting(i) /\ l = Removed(disk.log, i..k)
  <2>1. PICK i \in Index, k \in Index : Conflicting(i) /\ l = Removed(disk.log, i..k)
    BY <1>3, Zenon
  <2>2. \A S : Removed(disk.log, S) \in Log
    BY <1>0, RemovedLog, Zenon
  <2>3. l \in Log
    BY <2>1, <2>2, Zenon
  <2>4. \A j \in DOMAIN chosen : Holds(Removed(disk.log, i..k), j) <=> Holds(disk.log, j)
    BY <2>1, DeletionKeeps, Zenon
  <2> QED BY <2>1, <2>3, <2>4, Zenon
<1> QED BY <1>1, <1>2, <1>3 DEF Interrupted

LEMMA CrashStep ==
    ASSUME StoreInv, Crash
    PROVE  StoreInv' /\ UNCHANGED <<chosen, sm, KeptSet>>
<1>0. /\ disk.log \in Log /\ status = "up" /\ status' = "down"
      /\ crashes' \in 0..MaxCrash
      /\ UNCHANGED <<chosen, mem, sm, build, inst>>
  <2>1. /\ status = "up" /\ status' = "down" /\ crashes < MaxCrash /\ crashes' = crashes + 1
        /\ UNCHANGED <<chosen, mem, sm, build, inst>>
    BY Zenon DEF Crash
  <2>2. disk.log \in Log /\ crashes \in 0..MaxCrash
    BY Zenon DEF StoreInv, TypeOK
  <2> QED BY <2>1, <2>2, StoreAssumption
<1>1. /\ disk'.log \in Log /\ disk'.snap = disk.snap /\ disk'.purged <= disk.snap.idx
      /\ disk'.purged \in 0..MaxIndex
      /\ disk' \in [log : Log, snap : Snapshot, purged : 0..MaxIndex]
      /\ \A j \in DOMAIN chosen : Kept(j)' <=> Kept(j)
  <2>1. CASE \E l \in Interrupted : disk' = [disk EXCEPT !.log = l]
    <3>1. PICK l \in Interrupted : disk' = [disk EXCEPT !.log = l]
      BY <2>1, Zenon
    <3>2. l \in Log /\ \A j \in DOMAIN chosen : Holds(l, j) <=> Holds(disk.log, j)
      BY <1>0, InterruptedKeeps, Zenon
    <3>3. disk'.log = l /\ disk'.snap = disk.snap /\ disk'.purged = disk.purged
      BY <3>1, Zenon DEF StoreInv, TypeOK
    <3>4. disk' \in [log : Log, snap : Snapshot, purged : 0..MaxIndex]
      BY <3>1, <3>2, Zenon DEF StoreInv, TypeOK
    <3> QED BY <1>0, <3>2, <3>3, <3>4, Zenon DEF StoreInv, TypeOK, Kept, Holds
  <2>2. CASE \E k \in Index, m \in 0..MaxIndex :
               /\ Purgeable(k) /\ m <= k
               /\ disk' = [disk EXCEPT !.purged = k, !.log = Removed(disk.log, 1..m)]
    <3>1. PICK k \in Index, m \in 0..MaxIndex :
               /\ Purgeable(k) /\ m <= k
               /\ disk' = [disk EXCEPT !.purged = k, !.log = Removed(disk.log, 1..m)]
      BY <2>2, Zenon
    <3> DEFINE l == Removed(disk.log, 1..m)
    <3>2. \A j \in DOMAIN chosen : (j <= disk.snap.idx \/ Holds(l, j)) <=> Kept(j)
      BY <1>0, <3>1, PurgeKeeps, Zenon
    <3>3. \A S : Removed(disk.log, S) \in Log
      BY <1>0, RemovedLog, Zenon
    <3>4. l \in Log /\ k <= disk.snap.idx /\ k \in 0..MaxIndex
      BY <1>0, <3>1, <3>3 DEF StoreInv, Agree, Purgeable, Index
    <3>5. disk' = [disk EXCEPT !.purged = k, !.log = l]
      BY <3>1, Zenon
    <3> HIDE DEF l
    <3>6. disk'.log = l /\ disk'.snap = disk.snap /\ disk'.purged = k
      BY <3>5, Zenon DEF StoreInv, TypeOK
    <3>7. disk' \in [log : Log, snap : Snapshot, purged : 0..MaxIndex]
      BY <3>4, <3>5, Zenon DEF StoreInv, TypeOK
    <3> QED BY <1>0, <3>2, <3>4, <3>6, <3>7, Zenon DEF Kept, Holds
  <2> QED BY <2>1, <2>2, Zenon DEF Crash
<1>2. TypeOK'
  BY <1>0, <1>1, Zenon DEF StoreInv, TypeOK
<1>3. Sound(disk.snap)' /\ Sound(build)' /\ Sound(inst)'
  BY <1>0, <1>1, Zenon DEF StoreInv, Sound, Prefix
<1>4. StoreInv'
  BY <1>0, <1>1, <1>2, <1>3, Zenon DEF StoreInv, AppliedIsCommitted, Prefix
<1> QED BY <1>0, <1>1, <1>4, Zenon DEF KeptSet

LEMMA RecoverStep ==
    ASSUME StoreInv, NEW strict \in BOOLEAN, new_with_recovery_mode(strict)
    PROVE  /\ StoreInv'
           /\ UNCHANGED <<chosen, sm, KeptSet>> \/ \E k \in 0..Len(chosen) : Promise!Restart(k)
<1> DEFINE torn == {i \in Index : disk.log[i] = Torn}
<1>0. UNCHANGED <<chosen, disk, crashes>>
  BY Zenon DEF new_with_recovery_mode
<1>1. KeptSet' = KeptSet
  BY <1>0, Zenon DEF KeptSet, Kept, Holds
<1>2. CASE strict /\ torn # {}
  <2>1. status' = "refused" /\ UNCHANGED <<mem, sm, build, inst>>
    BY <1>2, Zenon DEF new_with_recovery_mode
  <2>2. TypeOK'
    BY <1>0, <2>1, Zenon DEF StoreInv, TypeOK
  <2>3. Sound(disk.snap)' /\ Sound(build)' /\ Sound(inst)'
    BY <1>0, <2>1, Zenon DEF StoreInv, Sound, Prefix
  <2>4. StoreInv'
    BY <1>0, <2>1, <2>2, <2>3, Zenon DEF StoreInv, AppliedIsCommitted, Prefix
  <2> QED BY <1>0, <1>1, <2>1, <2>4, Zenon
<1>3. CASE ~(strict /\ torn # {})
  <2> DEFINE l == Removed(disk.log, torn)
  <2>1. status' = "up" /\ Recovered(l)
    BY <1>3, Zenon DEF new_with_recovery_mode
  <2>2. l \in Log /\ \A i \in Index : l[i] = IF disk.log[i] = Torn THEN NoEntry ELSE disk.log[i]
    BY RemovedLog DEF StoreInv, TypeOK
  <2> HIDE DEF l, torn
  <2>3. /\ mem' = [log |-> l, applied |-> disk.snap.idx, purged |-> disk.purged,
                   cache |-> disk.snap]
        /\ sm' = disk.snap.sm /\ build' = NoSnapshot /\ inst' = NoSnapshot
    BY <2>1, Zenon DEF Recovered
  <2>4. /\ disk.snap \in Snapshot /\ disk.snap.idx \in 0..Len(chosen)
        /\ disk.snap.sm = Prefix(disk.snap.idx)
        /\ disk.snap.idx \in 0..MaxIndex /\ disk.snap.sm \in Seq(Op)
    BY DEF StoreInv, Sound, Snapshot, TypeOK
  <2>5. Sound(NoSnapshot)
    BY NothingSound, Zenon DEF StoreInv, TypeOK
  <2>6. Sound(disk.snap)' /\ Sound(build)' /\ Sound(inst)'
    BY <1>0, <2>3, <2>5, Zenon DEF StoreInv, Sound, Prefix, NoSnapshot
  <2>7. mem' \in [log : Log, applied : 0..MaxIndex, purged : 0..MaxIndex, cache : Snapshot]
    BY <2>2, <2>3, <2>4, Zenon DEF StoreInv, TypeOK
  <2>8. TypeOK'
    BY <1>0, <2>1, <2>3, <2>4, <2>5, <2>7, Zenon DEF StoreInv, TypeOK, Sound
  <2>9. AppliedIsCommitted' /\ Agree'
    BY <1>0, <2>2, <2>3, <2>4, Zenon DEF AppliedIsCommitted, Prefix, Agree
  <2>10. StoreInv'
    BY <1>0, <2>6, <2>8, <2>9, Zenon DEF StoreInv
  <2>11. 1..disk.snap.idx \subseteq KeptSet
    BY <2>4 DEF KeptSet, Kept, StoreInv, TypeOK
  <2>12. Promise!Restart(disk.snap.idx)
    BY <1>0, <1>1, <2>3, <2>4, <2>11, Zenon DEF Promise!Restart, KeptSet, Prefix
  <2> QED BY <2>4, <2>10, <2>12, Zenon
<1> QED BY <1>2, <1>3, Zenon

LEMMA NextSound ==
    ASSUME StoreInv, [Next]_vars
    PROVE  StoreInv' /\ [Promise!Next]_(Promise!rvars)
<1> USE DEF Promise!Next, Promise!rvars
<1>0. UNCHANGED <<chosen, sm, KeptSet>> => UNCHANGED Promise!rvars
  BY Zenon DEF KeptSet
<1>1. ASSUME NEW op \in Op, Choose(op)
      PROVE  StoreInv' /\ Promise!Next
  BY <1>1, ChooseStep, Zenon
<1>2. ASSUME NEW op \in Op, NEW i \in Index, append_to_log(i, op)
      PROVE  StoreInv' /\ [Promise!Next]_(Promise!rvars)
  BY <1>0, <1>2, AppendStep, Zenon
<1>3. ASSUME NEW i \in Index, delete_conflict_logs_since(i)
      PROVE  StoreInv' /\ UNCHANGED Promise!rvars
  BY <1>0, <1>3, DeleteStep, Zenon
<1>4. ASSUME NEW i \in Index, purge_logs_upto(i)
      PROVE  StoreInv' /\ UNCHANGED Promise!rvars
  BY <1>0, <1>4, PurgeStep, Zenon
<1>5. ASSUME NEW i \in Index, install_snapshot(i)
      PROVE  StoreInv' /\ Promise!Next
  BY <1>5, InstallStep, Zenon
<1>6. CASE apply_to_state_machine
  BY <1>6, ApplyStep, Zenon
<1>7. CASE build_snapshot
  BY <1>0, <1>7, BuildStep, Zenon
<1>8. CASE BuildPersists
  BY <1>0, <1>8, BuildPersistsStep, Zenon
<1>9. CASE InstallPersists
  BY <1>0, <1>9, InstallPersistsStep, Zenon
<1>10. CASE Crash
  BY <1>0, <1>10, CrashStep, Zenon
<1>11. ASSUME NEW strict \in BOOLEAN, new_with_recovery_mode(strict)
       PROVE  StoreInv' /\ [Promise!Next]_(Promise!rvars)
  BY <1>0, <1>11, RecoverStep, Zenon
<1>12. CASE UNCHANGED vars
  <2>1. StoreInv'
    BY <1>12, Zenon DEF vars, StoreInv, TypeOK, AppliedIsCommitted, Prefix, Sound, Agree
  <2>2. KeptSet' = KeptSet
    BY <1>12, Zenon DEF vars, KeptSet, Kept, Holds
  <2> QED BY <1>0, <1>12, <2>1, <2>2, Zenon DEF vars
<1> QED
  BY <1>1, <1>2, <1>3, <1>4, <1>5, <1>6, <1>7, <1>8, <1>9, <1>10, <1>11, <1>12, Zenon DEF Next

LEMMA AlwaysSound == Spec => []StoreInv
  BY InitSound, NextSound, PTL DEF Spec

\* The state machine shows the committed log up to last_applied: what
\* build_snapshot, install_snapshot and new_with_recovery_mode capture, restore
\* and recover is a prefix of the committed log whatever happens in between.
THEOREM StateIsCommitted == Spec => []AppliedIsCommitted
<1>1. StoreInv => AppliedIsCommitted
  BY Zenon DEF StoreInv
<1> QED BY <1>1, AlwaysSound, PTL

\* The log is never purged past a snapshot on disk that restores what is purged
\* (purge_logs_upto, persist_and_cache_snapshot), also when the process dies
\* between the two.
THEOREM PurgeNeedsSnapshot == Spec => []PurgedIsCovered
<1>1. StoreInv => PurgedIsCovered
  BY Zenon DEF StoreInv, Sound, PurgedIsCovered
<1> QED BY <1>1, AlwaysSound, PTL

\* SpurStore implements the promise of ReplicatedLog: a committed entry once on
\* disk is never lost to a deletion, a purge, a snapshot or a crash inside one of
\* them, and a restart shows only what is stored.
THEOREM StoreKeepsPromise == Spec => ImplementsReplicatedLog
<1>1. Init => Promise!Init
  BY DEF Init, Promise!Init, Kept
<1>2. StoreInv /\ [Next]_vars => [Promise!Next]_(Promise!rvars)
  BY NextSound, Zenon
<1> QED BY <1>1, <1>2, AlwaysSound, PTL DEF Spec, ImplementsReplicatedLog, Promise!Spec

=============================================================================
