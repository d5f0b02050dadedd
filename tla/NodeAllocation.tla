--------------------------- MODULE NodeAllocation ---------------------------
(***************************************************************************)
(* The agent's ledger of its own node (spur-sched cons_tres.rs), under the *)
(* allocation lock: which cpus, gpus and memory each job holds, which of   *)
(* the jobs are still launching, and the two bitmaps derived from that.    *)
(* The methods are operators from ledger to ledger, named after them.      *)
(*                                                                         *)
(* Around it, the callers in agent_server.rs, main.rs and reporter.rs: the *)
(* launch that reserves, the commit that tracks the run, the releases, the *)
(* periodic reconcile, the inventory refresh that renames, adds and        *)
(* removes devices under running jobs, and the restart that replays the    *)
(* descriptors of adopted jobs.  live is the key set of the running map.   *)
(***************************************************************************)
EXTENDS Integers, FiniteSets, Functions

CONSTANTS
    Job,
    Cpu,          \* cpu ids a node may ever report
    Gpu,          \* gpu stable ids a node may ever report
    Mem,          \* memory sizes a job may be given
    MaxAttempt,   \* bound: run attempts
    Layout,       \* what discovery may find: cpus, gpus, excluded cpus, fenced gpus
    Renaming      \* re-encodings of gpu ids a refresh may ask for

ASSUME LedgerAssumption ==
    /\ IsFiniteSet(Job)
    /\ Cpu \subseteq Nat
    /\ Mem \subseteq Nat
    /\ MaxAttempt \in Nat
    /\ Layout \subseteq [cpus : SUBSET Cpu, gpus : SUBSET Gpu,
                         spec : SUBSET Cpu, fenced : SUBSET Gpu]
    /\ Renaming \subseteq [Gpu -> Gpu]
    /\ \A f \in Renaming : \A x, y \in Gpu : f[x] = f[y] => x = y

VARIABLES
    alloc,     \* the NodeAllocation
    live,      \* jobs in the running map
    serving    \* the replay of adopted jobs is over

vars == <<alloc, live, serving>>

NoOwner == [att |-> 0, cpus |-> {}, gpus |-> {}, mem |-> 0]

Owner == [att : 0..MaxAttempt, cpus : SUBSET Cpu, gpus : SUBSET Gpu, mem : Mem \cup {0}]

Ledger == [cpus : SUBSET Cpu, taken : SUBSET Cpu, unavailable : SUBSET Cpu,
           gpus : SUBSET Gpu, gpuTaken : SUBSET Gpu, fenced : SUBSET Gpu,
           owners : [Job -> Owner], launching : SUBSET Job, mem : Nat]

NewLedger(y) ==
    [cpus |-> y.cpus, taken |-> {}, unavailable |-> {}, gpus |-> y.gpus, gpuTaken |-> {},
     fenced |-> y.fenced, owners |-> [j \in Job |-> NoOwner], launching |-> {}, mem |-> 0]

Owns(l, j) == l.owners[j].att # 0

CpusOf(l, S) == UNION {l.owners[j].cpus : j \in S}
GpusOf(l, S) == UNION {l.owners[j].gpus : j \in S}

HeldCpus(l) == CpusOf(l, Job)
HeldGpus(l) == GpusOf(l, Job)

\* The first n of the free cpus, in the order of cpu_ids.
Lowest(S, n) == {c \in S : Cardinality({d \in S : d < c}) < n}

(***************************************************************************)
(* The methods                                                             *)
(***************************************************************************)
mark_cpus_unavailable(l, spec) ==
    [l EXCEPT !.taken = @ \cup (spec \cap l.cpus),
              !.unavailable = @ \cup (spec \cap l.cpus)]

\* Mutant: the bit of a cpu no longer excluded is cleared although a job holds it.
set_spec_exclusions_Freeing(l, spec) ==
    mark_cpus_unavailable(
        [l EXCEPT !.unavailable = @ \cap spec, !.taken = @ \ (l.unavailable \ spec)], spec)
set_spec_exclusions(l, spec) ==
    mark_cpus_unavailable(
        [l EXCEPT !.unavailable = @ \cap spec,
                  !.taken = @ \ ((l.unavailable \ spec) \ HeldCpus(l))], spec)

\* A refresh that would lose a device some job holds changes nothing; any other
\* rebuilds the bitmaps from the owners, and forgets the exclusions.
CapacityApplies(l, C, G) == HeldGpus(l) \subseteq G /\ HeldCpus(l) \subseteq C

update_capacity(l, C, G) ==
    IF CapacityApplies(l, C, G)
    THEN [l EXCEPT !.cpus = C, !.taken = HeldCpus(l), !.unavailable = {},
                   !.gpus = G, !.gpuTaken = HeldGpus(l)]
    ELSE l

Renamed(f, S) == {f[g] : g \in S}

rename_gpus(l, f) ==
    [l EXCEPT !.gpus = Renamed(f, @), !.gpuTaken = Renamed(f, @),
              !.owners = [j \in Job |-> [l.owners[j] EXCEPT !.gpus = Renamed(f, @)]]]

\* What release clears: an excluded cpu keeps its bit.
\* Mutant: the exclusion is not looked at.
FreedCpus_Excluded(l, S) == CpusOf(l, S)
FreedCpus(l, S) == CpusOf(l, S) \ l.unavailable

\* The launching markers release_job removes.
\* Mutant: the marker survives its reservation.
Unmarked_Kept(l, S) == l.launching
Unmarked(l, S) == l.launching \ S

\* release and release_job, for every job of a set; the memory does not go
\* below zero.
ReleaseJobs(l, S) ==
    LET m == SumFunctionOnSet([j \in Job |-> l.owners[j].mem], S)
    IN  [l EXCEPT !.launching = Unmarked(l, S),
                  !.owners = [j \in Job |-> IF j \in S THEN NoOwner ELSE l.owners[j]],
                  !.taken = @ \ FreedCpus(l, S),
                  !.gpuTaken = @ \ GpusOf(l, S),
                  !.mem = IF m <= @ THEN @ - m ELSE 0]

release_job(l, j) == ReleaseJobs(l, {j})

release_job_if(l, j, a) == IF l.owners[j].att = a /\ a # 0 THEN release_job(l, j) ELSE l

Holding(l, j, o) ==
    [l EXCEPT !.owners[j] = o,
              !.taken = @ \cup o.cpus,
              !.gpuTaken = @ \cup o.gpus,
              !.mem = @ + o.mem]

\* A launch in flight, or a newer attempt, keeps the reservation.
\* Mutant: only a launch in flight does.
Refused_InFlight(l, j, a) == j \in l.launching
Refused(l, j, a) == j \in l.launching \/ l.owners[j].att > a

\* Requested gpus that are taken, or fenced and not the job's own.
\* Mutant: fences are not looked at.
Clash_Unfenced(l, r, j, G) == G \cap r.gpus \cap r.gpuTaken
Clash(l, r, j, G) == G \cap r.gpus \cap (r.gpuTaken \cup (r.fenced \ l.owners[j].gpus))

\* allocate_for_job: the errors it may stop at, and the ledger it leaves.  The
\* job's own older reservation is released before the gpus are looked at, and
\* stays released when they are refused.  Cpus are best effort.
allocate_for_job(l, j, a, n, m, G) ==
    LET r == release_job(l, j)
        errs == {e \in {"GpusUnknown", "GpusUnavailable"} :
                    \/ e = "GpusUnknown" /\ ~(G \subseteq r.gpus)
                    \/ e = "GpusUnavailable" /\ Clash(l, r, j, G) # {}}
        o == [att |-> a, cpus |-> Lowest(r.cpus \ r.taken, n), gpus |-> G, mem |-> m]
    IN  IF Refused(l, j, a)
        THEN [errs |-> {"Refused"}, l |-> l]
        ELSE [errs |-> errs,
              l |-> IF errs = {} THEN [Holding(r, j, o) EXCEPT !.launching = @ \cup {j}]
                    ELSE r]

\* Owners in the way that are not launching: conflicting_owners.
conflicting_owners(l, G) ==
    {j \in Job : l.owners[j].gpus \cap G # {} /\ j \notin l.launching}

claimable_cpu_ids(l, j, C) == {c \in C \cap l.cpus : c \notin l.taken \/ c \in l.owners[j].cpus}

\* restore_for_job: a refused replay leaves the ledger as it was.  The cpus were
\* narrowed to claimable ones; the gpus are in the inventory and free, or its own.
RestoreFits(l, j, G) == G \subseteq l.gpus /\ G \cap l.gpuTaken \subseteq l.owners[j].gpus

\* Mutant: what the job holds already is not released first.
restore_for_job_Twice(l, j, a, C, m, G) ==
    IF l.owners[j].att <= a /\ C = claimable_cpu_ids(l, j, C) /\ RestoreFits(l, j, G)
    THEN Holding(l, j, [att |-> a, cpus |-> C, gpus |-> G, mem |-> m])
    ELSE l
restore_for_job(l, j, a, C, m, G) ==
    IF l.owners[j].att <= a /\ C = claimable_cpu_ids(l, j, C) /\ RestoreFits(l, j, G)
    THEN Holding(release_job(l, j), j, [att |-> a, cpus |-> C, gpus |-> G, mem |-> m])
    ELSE l

commit_job(l, j, a) ==
    IF l.owners[j].att = a THEN [l EXCEPT !.launching = @ \ {j}] ELSE l

(***************************************************************************)
(* The callers.                                                            *)
(***************************************************************************)
\* main: the node as discovered, the fences of the previous process in force,
\* and nothing held.
Init ==
    /\ \E y \in Layout : alloc = NewLedger(y)
    /\ live = {}
    /\ serving = FALSE

\* replay_adopted_allocations, one descriptor: its recorded cpus narrowed to
\* those it may claim, or n free ones when none were recorded; its gpus, or none
\* when they do not fit.
Adopt(j) ==
    /\ ~serving
    /\ \E a \in 1..MaxAttempt, m \in Mem, G \in SUBSET Gpu,
          C \in {claimable_cpu_ids(alloc, j, R) : R \in SUBSET Cpu}
               \cup {Lowest(alloc.cpus \ alloc.taken, n) : n \in 1..Cardinality(Cpu)} :
          alloc' = restore_for_job(alloc, j, a, C, m, IF RestoreFits(alloc, j, G) THEN G ELSE {})
    /\ live' = live \cup {j}
    /\ UNCHANGED serving

\* main: from here on, calls are served.
Serve ==
    /\ ~serving
    /\ serving' = TRUE
    /\ UNCHANGED <<alloc, live>>

\* allocate_local_resources, under the running and the allocation lock: the
\* exclusions are renewed, then the job reserves; gpus refused are reclaimed from
\* owners that neither run nor launch, and asked for once more.
\* Mutant: a stale owner is one that is not launching.
StaleOwners_Running(l, G) == conflicting_owners(l, G)
StaleOwners(l, G) == conflicting_owners(l, G) \ live

Reserve(j) ==
    /\ serving
    /\ \E a \in 1..MaxAttempt, n \in 1..Cardinality(Cpu), m \in Mem,
          G \in SUBSET Gpu, spec \in {y.spec : y \in Layout} :
         LET l == set_spec_exclusions(alloc, spec)
             first == allocate_for_job(l, j, a, n, m, G)
             rest == ReleaseJobs(first.l, StaleOwners(first.l, G))
         IN  \/ /\ first.errs # {"GpusUnavailable"}
                /\ alloc' = first.l
             \/ /\ "GpusUnavailable" \in first.errs
                /\ alloc' = allocate_for_job(rest, j, a, n, m, G).l
    /\ UNCHANGED <<live, serving>>

\* commit_reservation, under both locks: a reservation that still is the
\* attempt's is committed and the run tracked.
Commit(j) ==
    /\ j \in alloc.launching
    /\ alloc' = commit_job(alloc, j, alloc.owners[j].att)
    /\ live' = live \cup {j}
    /\ UNCHANGED serving

\* The run ends: it leaves the running map, and its teardown follows, unless
\* the job was launched again.
Untrack(j) ==
    /\ serving
    /\ j \in live
    /\ live' = live \ {j}
    /\ UNCHANGED <<alloc, serving>>

teardown_completed_job(j) ==
    /\ serving
    /\ j \notin live \cup alloc.launching
    /\ alloc' = release_job(alloc, j)
    /\ UNCHANGED <<live, serving>>

\* drop_tracked_job, and release_stepd_tracking for the tracked attempt: out of
\* both maps in one step.
drop_tracked_job(j) ==
    /\ serving
    /\ j \in live
    /\ live' = live \ {j}
    /\ alloc' = release_job(alloc, j)
    /\ UNCHANGED serving

\* A launch that failed, or a cancel of one, gives back its own attempt's
\* reservation; the job may have been reserved again since.
GiveBack(j) ==
    /\ serving
    /\ j \notin live
    /\ \E a \in 1..MaxAttempt : alloc' = release_job_if(alloc, j, a)
    /\ UNCHANGED <<live, serving>>

\* reconcile: every owner that does not run, and a launch only past its TTL.
reconcile ==
    /\ serving
    /\ \E late \in SUBSET alloc.launching :
          alloc' = ReleaseJobs(alloc, {j \in Job \ live :
                                         Owns(alloc, j) /\ (j \in alloc.launching => j \in late)})
    /\ UNCHANGED <<live, serving>>

\* apply_to_ledger: gpus renamed one to one, the new capacity, the exclusions
\* again, and the fences only if the capacity was applied.
apply_to_ledger ==
    /\ serving
    /\ \E f \in Renaming, y \in Layout :
         LET l == rename_gpus(alloc, f)
             u == set_spec_exclusions(update_capacity(l, y.cpus, y.gpus), y.spec)
         IN  alloc' = IF CapacityApplies(l, y.cpus, y.gpus)
                      THEN [u EXCEPT !.fenced = y.fenced] ELSE u
    /\ UNCHANGED <<live, serving>>

\* Every refresh tick, whether or not the inventory is applied.
set_fenced ==
    /\ \E y \in Layout : alloc' = [alloc EXCEPT !.fenced = y.fenced]
    /\ UNCHANGED <<live, serving>>

\* The agent starts again: the ledger is not persisted.
Restart ==
    /\ \E y \in Layout : alloc' = NewLedger(y)
    /\ live' = {}
    /\ serving' = FALSE

Next ==
    \/ Serve
    \/ Restart
    \/ reconcile
    \/ apply_to_ledger
    \/ set_fenced
    \/ \E j \in Job :
          \/ Adopt(j)
          \/ Reserve(j)
          \/ Commit(j)
          \/ Untrack(j)
          \/ teardown_completed_job(j)
          \/ drop_tracked_job(j)
          \/ GiveBack(j)

Spec == Init /\ [][Next]_vars

(***************************************************************************)
(* Properties                                                              *)
(***************************************************************************)
\* The type of the state, and a launch in flight has its reservation.
TypeOK ==
    /\ alloc \in Ledger
    /\ live \subseteq Job
    /\ serving \in BOOLEAN
    /\ \A j \in alloc.launching : Owns(alloc, j)

\* No cpu and no gpu is held by two jobs, through reservations, replays after a
\* restart, exclusions, renames and refreshes of the inventory.
OwnersDisjoint ==
    \A i, j \in Job : i # j =>
        /\ alloc.owners[i].cpus \cap alloc.owners[j].cpus = {}
        /\ alloc.owners[i].gpus \cap alloc.owners[j].gpus = {}

\* The bitmaps are exactly what the owners hold and the exclusions take, and
\* lie within the inventory: no device is free while held, none taken for ever.
BitmapsExact ==
    /\ alloc.taken = HeldCpus(alloc) \cup alloc.unavailable
    /\ alloc.gpuTaken = HeldGpus(alloc)
    /\ alloc.taken \subseteq alloc.cpus
    /\ alloc.gpuTaken \subseteq alloc.gpus

\* allocated_memory_mb is the sum over the owners: the saturating subtraction
\* of release never saturates, and a superseded reservation is not counted twice.
MemoryExact ==
    alloc.mem = SumFunction([j \in Job |-> alloc.owners[j].mem])

\* A launch takes nothing from another job that runs or is itself launching,
\* though it may reclaim the devices of an owner that does neither.
OthersKept ==
    [][\A j \in alloc'.launching \ alloc.launching :
          \A i \in (live \cup alloc.launching) \ {j} : alloc'.owners[i] = alloc.owners[i]]_vars

\* A launch is never given a fenced gpu its job did not hold already.
FencedNotGranted ==
    [][\A j \in alloc'.launching \ alloc.launching :
          alloc'.owners[j].gpus \cap alloc.fenced \subseteq alloc.owners[j].gpus]_vars

\* An older attempt never replaces the reservation of a newer one.
AttemptsGrow ==
    [][\A j \in Job : Owns(alloc, j) /\ alloc'.owners[j].att # 0 =>
          alloc'.owners[j].att >= alloc.owners[j].att]_vars

=============================================================================
