------------------------- MODULE ClusterStateProofs -------------------------
(***************************************************************************)
(* Theorems about ClusterState, for any jobs, nodes, capacities and bounds *)
(* and for every sequence of log entries.                                  *)
(*                                                                         *)
(* The inductive invariant IInv says of every job record what the apply    *)
(* arms rely on without testing it (JobOK), and of every node that its     *)
(* charges are those the job records account for.  Almost every arm        *)
(* replaces one job record and frees some slices of that job, and          *)
(* preserves IInv if the new record is sound and stops accounting for      *)
(* exactly the freed nodes: lemma SetJobPreserves.                         *)
(***************************************************************************)
EXTENDS ClusterState, TLAPS, FiniteSetTheorems

\* A job record the apply arms can leave behind: reports come from nodes of the
\* placement and only a live run has any, a live run with a placement still
\* waits for one of its nodes, a grace names a Running run or an earlier epoch,
\* an id without a record has no placement, and the states a requeue passes
\* through are never left behind.
JobOK(job) ==
  /\ Reported(job.node_completions) \subseteq job.allocated_nodes
  /\ job.state \notin Active => job.node_completions = NoReports
  /\ job.state \in Active /\ job.allocated_nodes # {} => holds_a_placement(job)
  /\ job.preempt_pending.mode # "None"
       => \/ job.preempt_pending.run_attempt < job.run_attempt
          \/ /\ job.preempt_pending.run_attempt = job.run_attempt
             /\ job.state = "Running"
  /\ job.state \notin JobState => job.allocated_nodes = {}
  /\ job.state \notin {"Preempted", "Requeued"}

IInv ==
  /\ TypeOK
  /\ \A j \in Job : JobOK(jobs[j])
  /\ ChargeAccounted
  /\ NodeStateTellsLoad

-----------------------------------------------------------------------------
(* Node states.                                                            *)

\* Re-deriving a node's state keeps it a node state and never makes a node
\* appear or vanish.
LEMMA UpdateType ==
  ASSUME NEW state \in NodeState, NEW slices
  PROVE  update_state_from_alloc(state, slices) \in NodeState
BY Zenon DEF update_state_from_alloc, NodeState, Up, AdminHold

\* A state derived from a node's slices is stable while they do not change.
LEMMA UpdateStable ==
  ASSUME NEW state \in NodeState, NEW slices
  PROVE  update_state_from_alloc(update_state_from_alloc(state, slices), slices)
           = update_state_from_alloc(state, slices)
BY Zenon DEF update_state_from_alloc, NodeState, Up, AdminHold

\* What freeing slices does to the nodes, from node records whose states tell
\* their load: types, membership and that invariant are kept.
LEMMA RefreshedNodes ==
  ASSUME NEW ns \in [Node -> NodeRecord],
         NEW c, NEW c0, NEW touched \in SUBSET Node,
         \A n \in Node : ns[n].state = "Absent" <=> n \notin Registered,
         \A n \in Node \ touched : c[n] = c0[n],
         \A n \in Node : ns[n].state \in Up \cup {"Draining"} =>
            \/ n \in touched
            \/ ns[n].state = update_state_from_alloc(ns[n].state, c0[n])
  PROVE  LET r == Refreshed(ns, c, touched)
         IN  /\ r \in [Node -> NodeRecord]
             /\ \A n \in Node : r[n].state = "Absent" <=> n \notin Registered
             /\ \A n \in Node : r[n].state \in Up \cup {"Draining"} =>
                   r[n].state = update_state_from_alloc(r[n].state, c[n])
<1> DEFINE r == Refreshed(ns, c, touched)
<1>1. ASSUME NEW n \in Node
      PROVE  /\ r[n] \in NodeRecord
             /\ r[n].state = "Absent" <=> n \notin Registered
             /\ r[n].state \in Up \cup {"Draining"} =>
                   r[n].state = update_state_from_alloc(r[n].state, c[n])
  <2>1. CASE n \in touched \cap Registered
    <3>1. r[n] = [ns[n] EXCEPT !.state = update_state_from_alloc(@, c[n])]
      BY <2>1, Zenon DEF Refreshed
    <3>2. ns[n] \in NodeRecord /\ ns[n].state \in NodeState
      BY <2>1, Zenon DEF NodeRecord
    <3>3. r[n].state = update_state_from_alloc(ns[n].state, c[n])
      BY <3>1, <3>2, Zenon DEF NodeRecord
    <3>4. r[n] \in NodeRecord /\ r[n].state \in NodeState
      BY <3>1, <3>2, UpdateType DEF NodeRecord
    <3>5. "Absent" \notin NodeState
      BY Zenon DEF NodeState, Up, AdminHold
    <3> QED BY <2>1, <3>2, <3>3, <3>4, <3>5, UpdateStable
  <2>2. CASE n \notin touched \cap Registered
    <3>1. r[n] = ns[n]
      BY <2>2, Zenon DEF Refreshed
    <3>2. CASE n \notin Registered
      BY <3>1, <3>2, Zenon DEF Up
    <3>3. CASE n \notin touched
      BY <3>1, <3>3, Zenon
    <3> QED BY <2>2, <3>2, <3>3, Zenon
  <2> QED BY <2>1, <2>2, Zenon
<1>2. r = [n \in Node |-> r[n]]
  BY Zenon DEF Refreshed
<1> QED BY <1>1, <1>2, Zenon

-----------------------------------------------------------------------------
(* Charges.                                                                *)

\* Freeing one slice of every job on the nodes of freed: the charges stay
\* integers, change by one where a slice is freed, and a node whose charges
\* change is touched.
LEMMA DischargedCharges ==
  ASSUME TypeOK, NEW freed \in [Job -> SUBSET Node]
  PROVE  /\ Discharged(freed) \in [Node -> [Job -> Int]]
         /\ \A n \in Registered, j \in Job :
              Discharged(freed)[n][j] = charge[n][j] - IF n \in freed[j] THEN 1 ELSE 0
         /\ \A n \in Node \ Touched(freed) : Discharged(freed)[n] = charge[n]
         /\ Touched(freed) \in SUBSET Node
<1>1. charge \in [Node -> [Job -> Int]]
  BY Zenon DEF TypeOK
<1>2. \A n \in Registered : n \in Node
  BY Zenon DEF Registered
<1>3. Discharged(freed) \in [Node -> [Job -> Int]]
  BY <1>1 DEF Discharged
<1>4. \A n \in Registered, j \in Job :
         Discharged(freed)[n][j] = charge[n][j] - IF n \in freed[j] THEN 1 ELSE 0
  BY <1>1, <1>2 DEF Discharged
<1>5. ASSUME NEW n \in Node \ Touched(freed)
      PROVE  Discharged(freed)[n] = charge[n]
  <2>1. \A j \in Job : n \notin freed[j]
    BY <1>5, Zenon DEF Touched
  <2>2. charge[n] = [j \in Job |-> charge[n][j]]
    BY <1>1, Zenon
  <2>3. Discharged(freed)[n] = [j \in Job |-> charge[n][j]]
    BY <2>1, Zenon DEF Discharged
  <2> QED BY <2>2, <2>3, Zenon
<1> QED BY <1>3, <1>4, <1>5, Zenon DEF Touched

\* Some job records change and slices are freed, the node records having become
\* ns first: IInv is preserved if every new record is sound and stops accounting
\* for exactly the freed nodes.
LEMMA DeallocatePreserves ==
  ASSUME IInv,
         NEW ns \in [Node -> NodeRecord],
         \A n \in Node : ns[n].state = "Absent" <=> n \notin Registered,
         NEW freed \in [Job -> SUBSET Node],
         \A n \in Node : ns[n].state \in Up \cup {"Draining"} =>
            \/ n \in Touched(freed)
            \/ ns[n].state = update_state_from_alloc(ns[n].state, charge[n]),
         jobs' \in [Job -> JobRecord],
         \A j \in Job : JobOK(jobs'[j]),
         \A j \in Job : freed[j] \subseteq Accounted(jobs[j]),
         \A j \in Job : Accounted(jobs'[j]) = Accounted(jobs[j]) \ freed[j],
         deallocate_job_slices(ns, freed)
  PROVE  IInv'
<1>1. charge' = Discharged(freed)
      /\ nodes' = Refreshed(ns, Discharged(freed), Touched(freed))
      /\ drift' = drift
  BY Zenon DEF deallocate_job_slices
<1>2. TypeOK
  BY Zenon DEF IInv
<1>3. /\ charge' \in [Node -> [Job -> Int]]
      /\ \A n \in Registered, j \in Job :
            charge'[n][j] = charge[n][j] - IF n \in freed[j] THEN 1 ELSE 0
      /\ \A n \in Node \ Touched(freed) : charge'[n] = charge[n]
      /\ Touched(freed) \in SUBSET Node
  BY <1>1, <1>2, DischargedCharges
<1>4. /\ nodes' \in [Node -> NodeRecord]
      /\ \A n \in Node : nodes'[n].state = "Absent" <=> n \notin Registered
      /\ \A n \in Node : nodes'[n].state \in Up \cup {"Draining"} =>
            nodes'[n].state = update_state_from_alloc(nodes'[n].state, charge'[n])
  <2> DEFINE c == Discharged(freed)
             t == Touched(freed)
  <2>1. c = charge' /\ nodes' = Refreshed(ns, c, t) /\ t \in SUBSET Node
    BY <1>1, <1>3, Zenon
  <2>2. \A n \in Node \ t : c[n] = charge[n]
    BY <1>1, <1>3, Zenon
  <2> HIDE DEF c, t
  <2>3. \A n \in Node : ns[n].state \in Up \cup {"Draining"} =>
            \/ n \in t
            \/ ns[n].state = update_state_from_alloc(ns[n].state, charge[n])
    BY Zenon DEF t
  <2> QED BY <2>1, <2>2, <2>3, RefreshedNodes
<1>5. TypeOK'
  BY <1>1, <1>2, <1>3, <1>4, Zenon DEF TypeOK
<1>6. Registered' = Registered
  BY <1>4, Zenon DEF Registered
<1>7. ChargeAccounted'
  <2> SUFFICES ASSUME NEW n \in Registered, NEW j \in Job
               PROVE  charge'[n][j]
                        = drift[n][j] + IF n \in Accounted(jobs'[j]) THEN 1 ELSE 0
    BY <1>1, <1>6, Zenon DEF ChargeAccounted
  <2>1. charge[n][j] = drift[n][j] + IF n \in Accounted(jobs[j]) THEN 1 ELSE 0
    BY Zenon DEF IInv, ChargeAccounted
  <2>2. charge'[n][j] = charge[n][j] - IF n \in freed[j] THEN 1 ELSE 0
    BY <1>3, Zenon
  <2>3. drift[n][j] \in Int
    BY <1>2, Zenon DEF TypeOK, Registered
  <2>4. /\ n \in freed[j] => n \in Accounted(jobs[j])
        /\ n \in Accounted(jobs'[j]) <=> n \in Accounted(jobs[j]) /\ n \notin freed[j]
    BY Zenon
  <2> HIDE DEF Accounted
  <2> QED BY <2>1, <2>2, <2>3, <2>4
<1>8. NodeStateTellsLoad'
  BY <1>4, Zenon DEF NodeStateTellsLoad
<1> QED BY <1>5, <1>7, <1>8, Zenon DEF IInv

\* The case of a single job: its record becomes job, which is sound and accounts
\* for what the old record did less the freed nodes.
LEMMA SetJobPreserves ==
  ASSUME IInv, NEW j \in Job, NEW job \in JobRecord, NEW freed \in SUBSET Node,
         JobOK(job),
         freed \subseteq Accounted(jobs[j]),
         Accounted(job) = Accounted(jobs[j]) \ freed,
         SetJob(j, job, freed)
  PROVE  IInv'
<1> DEFINE f == Only(j, freed)
<1>1. f \in [Job -> SUBSET Node] /\ f[j] = freed /\ \A i \in Job \ {j} : f[i] = {}
  BY Zenon DEF Only
<1>2. jobs \in [Job -> JobRecord] /\ nodes \in [Node -> NodeRecord]
  BY Zenon DEF IInv, TypeOK
<1>3. /\ jobs' \in [Job -> JobRecord]
      /\ jobs'[j] = job
      /\ \A i \in Job \ {j} : jobs'[i] = jobs[i]
      /\ deallocate_job_slices(nodes, f)
  BY <1>2, Zenon DEF SetJob
<1> HIDE DEF f
<1>4. \A i \in Job : JobOK(jobs'[i])
  BY <1>3, Zenon DEF IInv
<1>5. \A i \in Job : f[i] \subseteq Accounted(jobs[i])
  BY <1>1, Zenon
<1>6. \A i \in Job : Accounted(jobs'[i]) = Accounted(jobs[i]) \ f[i]
  BY <1>1, <1>3, Zenon
<1>7. \A n \in Node : nodes[n].state = "Absent" <=> n \notin Registered
  BY Zenon DEF Registered
<1>8. \A n \in Node : nodes[n].state \in Up \cup {"Draining"} =>
         nodes[n].state = update_state_from_alloc(nodes[n].state, charge[n])
  BY Zenon DEF IInv, NodeStateTellsLoad
<1> QED BY <1>1, <1>2, <1>3, <1>4, <1>5, <1>6, <1>7, <1>8, DeallocatePreserves, Zenon

-----------------------------------------------------------------------------
(* Job records.                                                            *)

\* Nobody has reported in NoReports.
LEMMA NoReportsFacts ==
  /\ NoReports \in [Node -> Completion \cup {"Unreported"}]
  /\ Reported(NoReports) = {}
BY Zenon DEF NoReports, Reported

\* NoGrace is no grace.
LEMMA NoGraceFacts == NoGrace \in PreemptPending /\ NoGrace.mode = "None"
BY Zenon DEF NoGrace, PreemptPending

\* Pending, live and finished states partition the job states.
LEMMA StateFacts ==
  /\ Active \cap Finalized = {} /\ "Pending" \notin Active \cup Finalized
  /\ Terminal \subseteq Finalized
  /\ {"Absent", "Gone"} \cap JobState = {}
  /\ "Running" \in Active /\ "Completing" \in Active /\ "Suspended" \in Active
  /\ Active \cup Finalized \cup {"Pending"} = JobState
BY Zenon DEF Active, Finalized, Terminal, JobState

\* An id without a record, whether it was never issued or was purged.
LEMMA AbsentJobFacts ==
  ASSUME NEW state \in {"Absent", "Gone", "Pending"}
  PROVE  LET job == [AbsentJob EXCEPT !.state = state]
         IN  job \in JobRecord /\ JobOK(job) /\ Accounted(job) = {}
<1> DEFINE job == [AbsentJob EXCEPT !.state = state]
<1>1. job \in JobRecord
  BY NoReportsFacts, NoGraceFacts, Zenon DEF AbsentJob, JobRecord, JobState, PendingReason
<1>2. /\ job.state = state /\ job.allocated_nodes = {}
      /\ job.node_completions = NoReports /\ job.preempt_pending = NoGrace
  BY Zenon DEF AbsentJob
<1> HIDE DEF job
<1>3. JobOK(job)
  BY <1>2, NoReportsFacts, NoGraceFacts, StateFacts, Zenon DEF JobOK
<1>4. Accounted(job) = {}
  BY <1>2, Zenon DEF Accounted, held_nodes
<1> QED BY <1>1, <1>3, <1>4, Zenon DEF job

\* Any record that has no placement, no reports and no grace, and no live run,
\* is sound and accounts for nothing: what every requeue leaves.
LEMMA RependedFacts ==
  ASSUME NEW job \in JobRecord,
         job.state = "Pending", job.allocated_nodes = {},
         job.node_completions = NoReports, job.preempt_pending = NoGrace
  PROVE  JobOK(job) /\ Accounted(job) = {}
BY NoReportsFacts, NoGraceFacts, StateFacts, Zenon DEF JobOK, Accounted, held_nodes

\* Any record of a finished run without reports or grace is sound and accounts
\* for nothing: what every verdict leaves.
LEMMA OverFacts ==
  ASSUME NEW job \in JobRecord,
         job.state \in Terminal,
         job.node_completions = NoReports, job.preempt_pending = NoGrace
  PROVE  JobOK(job) /\ Accounted(job) = {}
BY NoReportsFacts, NoGraceFacts, StateFacts, Zenon DEF JobOK, Accounted, Terminal

\* What clear_run_state_for_requeue leaves of a record.
LEMMA ClearFacts ==
  ASSUME NEW job \in JobRecord
  PROVE  LET c == clear_run_state_for_requeue(job)
         IN  /\ c \in JobRecord
             /\ c.state = job.state /\ c.run_attempt = job.run_attempt
             /\ c.allocated_nodes = {} /\ c.node_completions = NoReports
             /\ c.preempt_pending = NoGrace
BY NoReportsFacts, NoGraceFacts, Zenon
DEF clear_run_state_for_requeue, JobRecord, PendingReason

\* reset_job_for_requeue leaves the same.
LEMMA ResetFacts ==
  ASSUME NEW job \in JobRecord
  PROVE  LET c == reset_job_for_requeue(job)
         IN  /\ c \in JobRecord
             /\ c.state = job.state /\ c.run_attempt = job.run_attempt
             /\ c.allocated_nodes = {} /\ c.node_completions = NoReports
             /\ c.preempt_pending = NoGrace
<1> DEFINE c == clear_run_state_for_requeue(job)
<1>1. /\ c \in JobRecord
      /\ c.state = job.state /\ c.run_attempt = job.run_attempt
      /\ c.allocated_nodes = {} /\ c.node_completions = NoReports
      /\ c.preempt_pending = NoGrace
  BY ClearFacts, Zenon
<1>2. reset_job_for_requeue(job) = [c EXCEPT !.requeue_count = @ + 1]
  BY Zenon DEF reset_job_for_requeue
<1> HIDE DEF c
<1> QED BY <1>1, <1>2 DEF JobRecord

\* A victim requeued by preemption is a sound Pending job without a placement.
LEMMA RependAfterPreemptionFacts ==
  ASSUME NEW job \in JobRecord
  PROVE  LET c == repend_after_preemption(job)
         IN  c \in JobRecord /\ JobOK(c) /\ Accounted(c) = {}
<1> DEFINE c == clear_run_state_for_requeue(job)
           r == repend_after_preemption(job)
<1>1. /\ c \in JobRecord
      /\ c.allocated_nodes = {} /\ c.node_completions = NoReports
      /\ c.preempt_pending = NoGrace
  BY ClearFacts, Zenon
<1>2. r = [c EXCEPT !.state = "Pending", !.preempt_mode = "Requeue"]
  BY Zenon DEF repend_after_preemption
<1> HIDE DEF c, r
<1>3. r \in JobRecord /\ r.state = "Pending" /\ r.allocated_nodes = {}
      /\ r.node_completions = NoReports /\ r.preempt_pending = NoGrace
  BY <1>1, <1>2, Zenon DEF JobRecord, JobState
<1>4. JobOK(r) /\ Accounted(r) = {}
  BY <1>3, RependedFacts, Zenon
<1> QED BY <1>3, <1>4, Zenon DEF r

\* Moving a run to Completing keeps its placement and its reports.
LEMMA BeginCompletingFacts ==
  ASSUME NEW job \in JobRecord, JobOK(job), job.state \in Active
  PROVE  LET c == begin_completing(job)
         IN  c \in JobRecord /\ JobOK(c) /\ Accounted(c) = Accounted(job)
<1> DEFINE c == begin_completing(job)
<1>1. CASE job.state \in {"Running", "Suspended"} /\ job.allocated_nodes # {}
  <2>1. c = [job EXCEPT !.state = "Completing", !.preempt_pending = NoGrace]
    BY <1>1, Zenon DEF begin_completing
  <2> HIDE DEF c
  <2>2. /\ c \in JobRecord /\ c.state = "Completing" /\ c.preempt_pending = NoGrace
        /\ c.allocated_nodes = job.allocated_nodes
        /\ c.node_completions = job.node_completions
    BY <2>1, NoGraceFacts, Zenon DEF JobRecord, JobState, Active
  <2>3. JobOK(c) /\ Accounted(c) = Accounted(job)
    BY <2>2, NoGraceFacts, StateFacts, Zenon
    DEF JobOK, Accounted, held_nodes, holds_a_placement
  <2> QED BY <2>2, <2>3, Zenon DEF c
<1>2. CASE ~(job.state \in {"Running", "Suspended"} /\ job.allocated_nodes # {})
  BY <1>2, Zenon DEF begin_completing
<1> QED BY <1>1, <1>2, Zenon

\* An evicted run is over.
LEMMA EvictedFacts ==
  ASSUME NEW job \in JobRecord
  PROVE  LET e == evict_job_locked(job)
         IN  e \in JobRecord /\ JobOK(e) /\ Accounted(e) = {}
<1> DEFINE e == evict_job_locked(job)
           x == evicted_state(job)
           r == IF x = "Cancelled" THEN job.pending_reason ELSE "Other"
<1>1. x \in Terminal
  BY Zenon DEF evicted_state, Terminal
<1>2. e = [job EXCEPT !.state = x, !.preempt_pending = NoGrace,
                      !.node_completions = NoReports, !.pending_reason = r]
  BY Zenon DEF evict_job_locked
<1>3. r \in PendingReason
  BY Zenon DEF JobRecord, PendingReason
<1> HIDE DEF e, x, r
<1>4. e \in JobRecord /\ e.state \in Terminal
      /\ e.node_completions = NoReports /\ e.preempt_pending = NoGrace
  BY <1>1, <1>2, <1>3, NoReportsFacts, NoGraceFacts, Zenon DEF JobRecord, JobState, Finalized
<1> QED BY <1>4, OverFacts, Zenon DEF e

\* A verdict drawn from reports is a terminal state.
LEMMA VerdictTerminal ==
  ASSUME NEW job
  PROVE  completion_verdict(job) \in Terminal
BY Zenon DEF completion_verdict, derived_completion, Terminal

\* A finalised run is over.
LEMMA FinalizedFacts ==
  ASSUME NEW job \in JobRecord
  PROVE  LET f == finalize_reported_run(job)
         IN  f \in JobRecord /\ JobOK(f) /\ Accounted(f) = {}
<1> DEFINE f == finalize_reported_run(job)
           x == completion_verdict(job)
<1>1. x \in Terminal
  BY VerdictTerminal, Zenon
<1>2. f = [job EXCEPT !.state = x, !.preempt_pending = NoGrace,
                      !.node_completions = NoReports, !.pending_reason = "Other"]
  BY Zenon DEF finalize_reported_run
<1> HIDE DEF f, x
<1>3. f \in JobRecord /\ f.state \in Terminal
      /\ f.node_completions = NoReports /\ f.preempt_pending = NoGrace
  BY <1>1, <1>2, NoReportsFacts, NoGraceFacts, Zenon
  DEF JobRecord, JobState, Finalized, PendingReason
<1> QED BY <1>3, OverFacts, Zenon DEF f

\* Taking over the provenance of a grace touches neither placement nor reports.
LEMMA AdoptFacts ==
  ASSUME NEW job \in JobRecord
  PROVE  LET a == adopt_grace_provenance(job)
         IN  /\ a \in JobRecord
             /\ a.state = job.state /\ a.run_attempt = job.run_attempt
             /\ a.allocated_nodes = job.allocated_nodes
             /\ a.node_completions = job.node_completions
             /\ a.preempt_pending = job.preempt_pending
BY Zenon DEF adopt_grace_provenance, JobRecord

\* all_nodes_completed, which compares two counts, means what its name says when
\* only nodes of the placement have reported: no node is held any more.
LEMMA AllCompleted ==
  ASSUME NEW job \in JobRecord,
         Reported(job.node_completions) \subseteq job.allocated_nodes,
         job.allocated_nodes # {}
  PROVE  all_nodes_completed(job) <=> held_nodes(job) = {}
<1> DEFINE A == job.allocated_nodes
           R == Reported(job.node_completions)
<1>1. A \subseteq Node
  BY Zenon DEF JobRecord
<1>2. IsFiniteSet(A)
  BY <1>1, NodeFinite, FS_Subset, Zenon
<1>3. Cardinality(R) = Cardinality(A) => R = A
  BY <1>2, FS_Subset, Zenon
<1> QED BY <1>3, Zenon DEF all_nodes_completed, held_nodes

-----------------------------------------------------------------------------
(* Every arm preserves IInv.                                               *)

\* An entry that is refused changes nothing.
LEMMA Stutter ==
  ASSUME IInv, UNCHANGED vars
  PROVE  IInv'
BY Zenon DEF IInv, TypeOK, ChargeAccounted, NodeStateTellsLoad, Registered, vars

\* The record of a job is a sound job record.
LEMMA RecordOK ==
  ASSUME IInv, NEW j \in Job
  PROVE  jobs[j] \in JobRecord /\ JobOK(jobs[j])
BY Zenon DEF IInv, TypeOK

\* What the records of pending, live and finished jobs account for.
LEMMA AccountedFacts ==
  ASSUME NEW job \in JobRecord, JobOK(job)
  PROVE  /\ job.state \in Active \cup {"Pending"} => Accounted(job) = held_nodes(job)
         /\ job.state \notin Active \cup {"Pending"} => Accounted(job) = {}
         /\ job.state \notin Active => held_nodes(job) = job.allocated_nodes
         /\ held_nodes(job) \in SUBSET Node /\ job.allocated_nodes \in SUBSET Node
         /\ job.allocated_nodes = {} => Accounted(job) = {}
BY NoReportsFacts, StateFacts, Zenon DEF Accounted, JobOK, held_nodes, JobRecord

\* A submitted job is pending without a placement.
LEMMA JobSubmitPreserves ==
  ASSUME IInv, NEW op, op.job \in Job, JobSubmit(op)
  PROVE  IInv'
<1> DEFINE new == [AbsentJob EXCEPT !.state = "Pending"]
<1>1. new \in JobRecord /\ JobOK(new) /\ Accounted(new) = {}
  BY AbsentJobFacts, Zenon
<1>2. Accounted(jobs[op.job]) = {}
  BY RecordOK, AccountedFacts, Zenon DEF JobSubmit, Active
<1>3. SetJob(op.job, new, {})
  BY Zenon DEF JobSubmit
<1> HIDE DEF new
<1> QED BY <1>1, <1>2, <1>3, SetJobPreserves, Zenon

\* A purged job leaves no record and had nothing charged.
LEMMA EvictTerminalJobsPreserves ==
  ASSUME IInv, NEW op, op.job \in Job, EvictTerminalJobs(op)
  PROVE  IInv'
<1>1. CASE jobs[op.job].state \in Finalized
  <2> DEFINE new == [AbsentJob EXCEPT !.state = "Gone"]
  <2>1. new \in JobRecord /\ JobOK(new) /\ Accounted(new) = {}
    BY AbsentJobFacts, Zenon
  <2>2. Accounted(jobs[op.job]) = {}
    BY <1>1, RecordOK, AccountedFacts, StateFacts, Zenon
  <2>3. SetJob(op.job, new, {})
    BY <1>1, Zenon DEF EvictTerminalJobs
  <2> HIDE DEF new
  <2> QED BY <2>1, <2>2, <2>3, SetJobPreserves, Zenon
<1> QED BY <1>1, Stutter, Zenon DEF EvictTerminalJobs

\* The automatic requeue of a finished run frees nothing because nothing is
\* charged; an activation keeps the reservation as it is.
LEMMA JobStateChangePreserves ==
  ASSUME IInv, NEW op, op.job \in Job, op.new_state \in {"Pending", "Running"},
         op.reason \in PendingReason, JobStateChange(op)
  PROVE  IInv'
<1> DEFINE job   == jobs[op.job]
           reset == IF job.requeue_count < MaxBatchRequeue
                    THEN reset_job_for_requeue(job)
                    ELSE clear_run_state_for_requeue(job)
<1>1. job \in JobRecord /\ JobOK(job)
  BY RecordOK, Zenon
<1>2. CASE LegalTransition(job.state, "Pending")
           /\ SetJob(op.job, [reset EXCEPT !.state = "Pending",
                                           !.pending_reason = op.reason], {})
  <2> DEFINE new == [reset EXCEPT !.state = "Pending", !.pending_reason = op.reason]
  <2>1. /\ reset \in JobRecord
        /\ reset.allocated_nodes = {} /\ reset.node_completions = NoReports
        /\ reset.preempt_pending = NoGrace
    BY <1>1, ClearFacts, ResetFacts, Zenon
  <2> HIDE DEF reset
  <2>2. /\ new \in JobRecord /\ new.state = "Pending"
        /\ new.allocated_nodes = {} /\ new.node_completions = NoReports
        /\ new.preempt_pending = NoGrace
    BY <2>1, Zenon DEF JobRecord, JobState
  <2>3. JobOK(new) /\ Accounted(new) = {}
    BY <2>2, RependedFacts, Zenon
  <2>4. Accounted(job) = {}
    BY <1>1, <1>2, AccountedFacts, Zenon DEF LegalTransition, Active
  <2> HIDE DEF new, job
  <2> QED BY <1>2, <2>2, <2>3, <2>4, SetJobPreserves, Zenon DEF new, job, reset
<1>3. CASE LegalTransition(job.state, "Running")
           /\ SetJob(op.job, [job EXCEPT !.state = "Running"], {})
  <2> DEFINE new == [job EXCEPT !.state = "Running"]
  <2> HIDE DEF job
  <2>1. /\ new \in JobRecord /\ new.state = "Running"
        /\ new.allocated_nodes = job.allocated_nodes
        /\ new.node_completions = job.node_completions
        /\ new.preempt_pending = job.preempt_pending
        /\ new.run_attempt = job.run_attempt
    BY <1>1, Zenon DEF JobRecord, JobState, Active
  <2>2. job.state \in {"Pending", "Suspended"}
    BY <1>3, Zenon DEF LegalTransition
  <2>3. JobOK(new) /\ Accounted(new) = Accounted(job)
    BY <1>1, <2>1, <2>2, NoReportsFacts, StateFacts
    DEF JobOK, Accounted, held_nodes, holds_a_placement
  <2> HIDE DEF new
  <2> QED BY <1>3, <2>1, <2>3, SetJobPreserves DEF new, job
<1> QED BY <1>2, <1>3, Stutter, Zenon DEF JobStateChange

\* Giving up a reservation frees all of it: nothing of it can have reported.
LEMMA JobDispatchBackoffPreserves ==
  ASSUME IInv, NEW op, op.job \in Job, op.run_attempt \in Nat, JobDispatchBackoff(op)
  PROVE  IInv'
<1> DEFINE job    == jobs[op.job]
           run    == IF op.run_attempt > job.run_attempt
                     THEN op.run_attempt ELSE job.run_attempt
           reset  == IF op.at_max_requeue \/ op.spare_requeue_budget
                     THEN clear_run_state_for_requeue(job)
                     ELSE reset_job_for_requeue(job)
           reason == IF op.at_max_requeue THEN "JobHoldMaxRequeue" ELSE "Other"
           new    == [reset EXCEPT !.run_attempt = run, !.pending_reason = reason]
<1>1. job \in JobRecord /\ JobOK(job)
  BY RecordOK, Zenon
<1>2. CASE job.state = "Pending" /\ SetJob(op.job, new, job.allocated_nodes)
  <2>1. /\ reset \in JobRecord /\ reset.state = "Pending"
        /\ reset.allocated_nodes = {} /\ reset.node_completions = NoReports
        /\ reset.preempt_pending = NoGrace
    BY <1>1, <1>2, ClearFacts, ResetFacts, Zenon
  <2>2. run \in Nat /\ reason \in PendingReason
    BY <1>1, Zenon DEF JobRecord, PendingReason
  <2> HIDE DEF reset, run, reason
  <2>3. /\ new \in JobRecord /\ new.state = "Pending"
        /\ new.allocated_nodes = {} /\ new.node_completions = NoReports
        /\ new.preempt_pending = NoGrace
    BY <2>1, <2>2, Zenon DEF JobRecord
  <2>4. JobOK(new) /\ Accounted(new) = {}
    BY <2>3, RependedFacts, Zenon
  <2>5. Accounted(job) = job.allocated_nodes /\ job.allocated_nodes \in SUBSET Node
    BY <1>1, <1>2, AccountedFacts, StateFacts, Zenon
  <2> HIDE DEF new
  <2> QED BY <1>2, <2>3, <2>4, <2>5, SetJobPreserves, Zenon
<1> QED BY <1>2, Stutter, Zenon DEF JobDispatchBackoff

\* A preempted run is requeued and every slice it still holds is freed.
LEMMA JobPreemptRequeuePreserves ==
  ASSUME IInv, NEW op, op.job \in Job, JobPreemptRequeue(op)
  PROVE  IInv'
<1> DEFINE job == jobs[op.job]
           new == repend_after_preemption(job)
<1>1. job \in JobRecord /\ JobOK(job)
  BY RecordOK, Zenon
<1>2. CASE job.state = "Running" /\ SetJob(op.job, new, held_nodes(job))
  <2>1. new \in JobRecord /\ JobOK(new) /\ Accounted(new) = {}
    BY <1>1, RependAfterPreemptionFacts, Zenon
  <2>2. Accounted(job) = held_nodes(job) /\ held_nodes(job) \in SUBSET Node
    BY <1>1, <1>2, AccountedFacts, StateFacts, Zenon
  <2> HIDE DEF new
  <2> QED BY <1>2, <2>1, <2>2, SetJobPreserves, Zenon
<1> QED BY <1>2, Stutter, Zenon DEF JobPreemptRequeue

\* A requeue by the user frees what a live run holds and nothing of a finished
\* one, whose slices its verdict already freed.
LEMMA JobUserRequeuePreserves ==
  ASSUME IInv, NEW op, op.job \in Job, JobUserRequeue(op)
  PROVE  IInv'
<1> DEFINE job    == jobs[op.job]
           reason == IF op.hold THEN "Held" ELSE "Other"
           c      == clear_run_state_for_requeue(job)
           new    == [c EXCEPT !.state = "Pending", !.pending_reason = reason]
           freed  == IF job.state \in Terminal THEN {} ELSE held_nodes(job)
<1>1. job \in JobRecord /\ JobOK(job)
  BY RecordOK, Zenon
<1>2. CASE MayRequeueToPending(job.state) /\ SetJob(op.job, new, freed)
  <2>1. /\ c \in JobRecord
        /\ c.allocated_nodes = {} /\ c.node_completions = NoReports
        /\ c.preempt_pending = NoGrace
    BY <1>1, ClearFacts, Zenon
  <2>2. reason \in PendingReason
    BY Zenon DEF PendingReason
  <2> HIDE DEF c, reason
  <2>3. /\ new \in JobRecord /\ new.state = "Pending"
        /\ new.allocated_nodes = {} /\ new.node_completions = NoReports
        /\ new.preempt_pending = NoGrace
    BY <2>1, <2>2, Zenon DEF JobRecord, JobState
  <2>4. JobOK(new) /\ Accounted(new) = {}
    BY <2>3, RependedFacts, Zenon
  <2>5. Accounted(job) = freed /\ freed \in SUBSET Node
    BY <1>1, <1>2, AccountedFacts, StateFacts, Zenon DEF MayRequeueToPending, Finalized
  <2> HIDE DEF new, freed
  <2> QED BY <1>2, <2>3, <2>4, <2>5, SetJobPreserves, Zenon
<1> QED BY <1>2, Stutter, Zenon DEF JobUserRequeue

\* A cancelled victim keeps its placement until its nodes report.
LEMMA JobPreemptCancelPreserves ==
  ASSUME IInv, NEW op, op.job \in Job, JobPreemptCancel(op)
  PROVE  IInv'
<1> DEFINE job == jobs[op.job]
           new == [job EXCEPT !.state = IF job.allocated_nodes # {}
                                        THEN "Completing" ELSE "Cancelled",
                              !.preempt_mode     = "Cancel",
                              !.cancel_signaled  = TRUE,
                              !.preempt_pending  = NoGrace,
                              !.node_completions = IF job.allocated_nodes # {}
                                                   THEN @ ELSE NoReports]
<1>1. job \in JobRecord /\ JobOK(job)
  BY RecordOK, Zenon
<1>2. CASE job.state = "Running" /\ SetJob(op.job, new, {})
  <2>0. job = jobs[op.job]
    BY Zenon
  <2> HIDE DEF job
  <2>1. /\ new \in JobRecord /\ new.preempt_pending = NoGrace
        /\ new.state = IF job.allocated_nodes # {} THEN "Completing" ELSE "Cancelled"
        /\ new.allocated_nodes = job.allocated_nodes
        /\ new.node_completions = IF job.allocated_nodes # {}
                                  THEN job.node_completions ELSE NoReports
    BY <1>1, NoReportsFacts, NoGraceFacts, Zenon
    DEF JobRecord, JobState, Active, Finalized, Terminal
  <2> HIDE DEF new
  <2>2. CASE job.allocated_nodes # {}
    <3>1. JobOK(new) /\ Accounted(new) = Accounted(job)
      BY <1>1, <1>2, <2>1, <2>2, NoGraceFacts, StateFacts, Zenon
      DEF JobOK, Accounted, held_nodes, holds_a_placement
    <3> QED BY <1>2, <2>0, <2>1, <3>1, SetJobPreserves
  <2>3. CASE job.allocated_nodes = {}
    <3>1. "Cancelled" \in Terminal
      BY Zenon DEF Terminal
    <3>2. JobOK(new) /\ Accounted(new) = {}
      BY <2>1, <2>3, <3>1, OverFacts, Zenon
    <3>3. Accounted(job) = {}
      BY <1>1, <2>3, AccountedFacts, Zenon
    <3> QED BY <1>2, <2>0, <2>1, <3>2, <3>3, SetJobPreserves, Zenon
  <2> QED BY <2>2, <2>3, Zenon
<1> QED BY <1>2, Stutter, Zenon DEF JobPreemptCancel

\* Only a run outside its grace is suspended.
LEMMA JobSuspendPreserves ==
  ASSUME IInv, NEW op, op.job \in Job, JobSuspend(op)
  PROVE  IInv'
<1> DEFINE job == jobs[op.job]
           new == [job EXCEPT !.state = "Suspended",
                              !.preempt_mode = IF op.preempt THEN "Suspend" ELSE @]
<1>1. job \in JobRecord /\ JobOK(job)
  BY RecordOK, Zenon
<1>2. CASE /\ ~preempt_grace(job) /\ LegalTransition(job.state, "Suspended")
           /\ SetJob(op.job, new, {})
  <2> HIDE DEF job
  <2>1. /\ new \in JobRecord /\ new.state = "Suspended"
        /\ new.allocated_nodes = job.allocated_nodes
        /\ new.node_completions = job.node_completions
        /\ new.preempt_pending = job.preempt_pending
        /\ new.run_attempt = job.run_attempt
    BY <1>1, Zenon DEF JobRecord, JobState, Active
  <2> HIDE DEF new
  <2>2. job.state = "Running"
    BY <1>2, Zenon DEF LegalTransition
  <2>3. JobOK(new) /\ Accounted(new) = Accounted(job)
    BY <1>1, <1>2, <2>1, <2>2, StateFacts, Zenon
    DEF JobOK, Accounted, held_nodes, holds_a_placement, preempt_grace
  <2> QED BY <1>2, <2>1, <2>3, SetJobPreserves DEF job, new
<1> QED BY <1>2, Stutter, Zenon DEF JobSuspend

\* A resumed job keeps the placement it has, if it has one.
LEMMA JobResumePreserves ==
  ASSUME IInv, NEW op, op.job \in Job, JobResume(op)
  PROVE  IInv'
<1> DEFINE job == jobs[op.job]
           new == [job EXCEPT !.state = "Running", !.preempt_mode = "None",
                              !.preempt_pending = NoGrace]
<1>1. job \in JobRecord /\ JobOK(job)
  BY RecordOK, Zenon
<1>2. CASE LegalTransition(job.state, "Running") /\ SetJob(op.job, new, {})
  <2> HIDE DEF job
  <2>1. /\ new \in JobRecord /\ new.state = "Running"
        /\ new.allocated_nodes = job.allocated_nodes
        /\ new.node_completions = job.node_completions
        /\ new.preempt_pending = NoGrace
    BY <1>1, NoGraceFacts, Zenon DEF JobRecord, JobState, Active
  <2> HIDE DEF new
  <2>2. job.state \in {"Pending", "Suspended"}
    BY <1>2, Zenon DEF LegalTransition
  <2>3. JobOK(new) /\ Accounted(new) = Accounted(job)
    BY <1>1, <2>1, <2>2, NoReportsFacts, NoGraceFacts, StateFacts, Zenon
    DEF JobOK, Accounted, held_nodes, holds_a_placement
  <2> QED BY <1>2, <2>1, <2>3, SetJobPreserves DEF job, new
<1> QED BY <1>2, Stutter, Zenon DEF JobResume

\* An evicted run frees every slice it still holds.
LEMMA JobEvictPreserves ==
  ASSUME IInv, NEW op, op.job \in Job, JobEvict(op)
  PROVE  IInv'
<1> DEFINE job == jobs[op.job]
           new == evict_job_locked(job)
<1>1. job \in JobRecord /\ JobOK(job)
  BY RecordOK, Zenon
<1>2. CASE /\ LegalTransition(job.state, evicted_state(job))
           /\ SetJob(op.job, new, held_nodes(job))
  <2>1. new \in JobRecord /\ JobOK(new) /\ Accounted(new) = {}
    BY <1>1, EvictedFacts, Zenon
  <2>2. job.state \in Active \cup {"Pending"}
    BY <1>1, <1>2, Zenon DEF LegalTransition, Active, evicted_state, JobOK
  <2>3. Accounted(job) = held_nodes(job) /\ held_nodes(job) \in SUBSET Node
    BY <1>1, <2>2, AccountedFacts, Zenon
  <2> HIDE DEF new
  <2> QED BY <1>2, <2>1, <2>3, SetJobPreserves, Zenon
<1> QED BY <1>2, Stutter, Zenon DEF JobEvict

\* A cancel keeps the placement and moves the run to Completing.
LEMMA JobCancelSignaledPreserves ==
  ASSUME IInv, NEW op, op.job \in Job, JobCancelSignaled(op)
  PROVE  IInv'
<1> DEFINE job == jobs[op.job]
           sig == [job EXCEPT !.cancel_signaled = TRUE, !.preempt_pending = NoGrace]
           new == begin_completing(sig)
<1>1. job \in JobRecord /\ JobOK(job)
  BY RecordOK, Zenon
<1>2. CASE job.state \in Active /\ SetJob(op.job, new, {})
  <2> HIDE DEF job
  <2>1. /\ sig \in JobRecord /\ sig.state = job.state
        /\ sig.allocated_nodes = job.allocated_nodes
        /\ sig.node_completions = job.node_completions
        /\ sig.preempt_pending = NoGrace
    BY <1>1, NoGraceFacts, Zenon DEF JobRecord
  <2> HIDE DEF sig
  <2>2. JobOK(sig) /\ Accounted(sig) = Accounted(job)
    BY <1>1, <1>2, <2>1, NoGraceFacts, Zenon
    DEF JobOK, Accounted, held_nodes, holds_a_placement
  <2>3. new \in JobRecord /\ JobOK(new) /\ Accounted(new) = Accounted(job)
    BY <1>2, <2>1, <2>2, BeginCompletingFacts, Zenon
  <2> HIDE DEF new
  <2> QED BY <1>2, <2>3, SetJobPreserves DEF job, new, sig
<1> QED BY <1>2, Stutter, Zenon DEF JobCancelSignaled

\* An expired time limit does the same, under its own verdict.
LEMMA JobTimeLimitExpiredPreserves ==
  ASSUME IInv, NEW op, op.job \in Job, JobTimeLimitExpired(op)
  PROVE  IInv'
<1> DEFINE job == jobs[op.job]
           sig == [job EXCEPT !.time_limit_signaled = TRUE, !.cancel_signaled = TRUE]
           new == begin_completing(sig)
<1>1. job \in JobRecord /\ JobOK(job)
  BY RecordOK, Zenon
<1>2. CASE job.state \in {"Running", "Suspended"} /\ SetJob(op.job, new, {})
  <2> HIDE DEF job
  <2>1. /\ sig \in JobRecord /\ sig.state = job.state
        /\ sig.allocated_nodes = job.allocated_nodes
        /\ sig.node_completions = job.node_completions
        /\ sig.preempt_pending = job.preempt_pending
        /\ sig.run_attempt = job.run_attempt
    BY <1>1, Zenon DEF JobRecord
  <2> HIDE DEF sig
  <2>2. JobOK(sig) /\ Accounted(sig) = Accounted(job) /\ sig.state \in Active
    BY <1>1, <1>2, <2>1, StateFacts, Zenon
    DEF JobOK, Accounted, held_nodes, holds_a_placement
  <2>3. new \in JobRecord /\ JobOK(new) /\ Accounted(new) = Accounted(job)
    BY <2>1, <2>2, BeginCompletingFacts, Zenon
  <2> HIDE DEF new
  <2> QED BY <1>2, <2>3, SetJobPreserves DEF job, new, sig
<1> QED BY <1>2, Stutter, Zenon DEF JobTimeLimitExpired

\* A grace is opened on the Running run it names.
LEMMA JobPreemptSignaledPreserves ==
  ASSUME IInv, NEW op, op.job \in Job, op.run_attempt \in Nat,
         op.mode \in {"Cancel", "Requeue"}, JobPreemptSignaled(op)
  PROVE  IInv'
<1> DEFINE job == jobs[op.job]
           pp  == [run_attempt |-> op.run_attempt, mode |-> op.mode]
           new == [job EXCEPT !.preempt_pending = pp]
<1>1. job \in JobRecord /\ JobOK(job)
  BY RecordOK, Zenon
<1>2. CASE /\ job.state = "Running" /\ job.run_attempt = op.run_attempt
           /\ SetJob(op.job, new, {})
  <2>1. pp \in PreemptPending /\ pp.run_attempt = op.run_attempt
    BY Zenon DEF PreemptPending
  <2> HIDE DEF job, pp
  <2>2. /\ new \in JobRecord /\ new.state = job.state
        /\ new.allocated_nodes = job.allocated_nodes
        /\ new.node_completions = job.node_completions
        /\ new.preempt_pending = pp
        /\ new.run_attempt = job.run_attempt
    BY <1>1, <2>1, Zenon DEF JobRecord
  <2> HIDE DEF new
  <2>3. JobOK(new) /\ Accounted(new) = Accounted(job)
    BY <1>1, <1>2, <2>1, <2>2, StateFacts, Zenon
    DEF JobOK, Accounted, held_nodes, holds_a_placement
  <2> QED BY <1>2, <2>2, <2>3, SetJobPreserves DEF job, new, pp
<1> QED BY <1>2, Stutter, Zenon DEF JobPreemptSignaled

\* What a report of node n does to a sound live record of a run on n: the record
\* stays sound and stops accounting for exactly n.
LEMMA AdvanceFacts ==
  ASSUME NEW job \in JobRecord, JobOK(job), job.state \in Active,
         NEW n \in job.allocated_nodes, NEW completion \in Completion
  PROVE  LET warned   == preempt_grace(job) /\ job.state = "Running"
             reported == [job EXCEPT !.node_completions[n] = completion]
             new      == advance_after_node_report(reported, warned)
         IN  /\ new \in JobRecord /\ JobOK(new)
             /\ Accounted(new) = Accounted(job) \ {n}
<1> DEFINE warned == preempt_grace(job) /\ job.state = "Running"
           rep    == [job EXCEPT !.node_completions[n] = completion]
           last   == all_nodes_completed(rep)
           grace  == warned /\ ~(last /\ reported_oom(rep.node_completions))
           ending == IF grace THEN adopt_grace_provenance(rep) ELSE rep
           new    == advance_after_node_report(rep, warned)
<1> SUFFICES new \in JobRecord /\ JobOK(new) /\ Accounted(new) = Accounted(job) \ {n}
  BY Zenon
<1>0. n \in Node /\ "Unreported" \notin Completion
  BY Zenon DEF JobRecord, Completion
<1>1. /\ rep \in JobRecord
      /\ rep.state = job.state /\ rep.run_attempt = job.run_attempt
      /\ rep.allocated_nodes = job.allocated_nodes
      /\ rep.preempt_pending = job.preempt_pending
      /\ rep.node_completions = [job.node_completions EXCEPT ![n] = completion]
  BY <1>0, Zenon DEF JobRecord
<1> HIDE DEF rep
<1>2. Reported(rep.node_completions) = Reported(job.node_completions) \cup {n}
  BY <1>0, <1>1 DEF Reported, JobRecord
<1>3. /\ Reported(rep.node_completions) \subseteq rep.allocated_nodes
      /\ rep.allocated_nodes # {}
      /\ held_nodes(rep) = held_nodes(job) \ {n}
      /\ Accounted(job) = held_nodes(job)
  BY <1>1, <1>2, Zenon DEF JobOK, held_nodes, Accounted
<1>4. last <=> held_nodes(rep) = {}
  BY <1>1, <1>3, AllCompleted, Zenon
<1>5. /\ ending \in JobRecord
      /\ ending.state = rep.state /\ ending.run_attempt = rep.run_attempt
      /\ ending.allocated_nodes = rep.allocated_nodes
      /\ ending.node_completions = rep.node_completions
      /\ ending.preempt_pending = rep.preempt_pending
  BY <1>1, AdoptFacts, Zenon
<1>6. new = IF grace /\ ~last THEN rep
            ELSE IF grace /\ rep.preempt_pending.mode = "Requeue"
                 THEN repend_after_preemption(rep)
            ELSE IF last THEN finalize_reported_run(ending)
            ELSE [ending EXCEPT !.state = "Completing"]
  BY Zenon DEF advance_after_node_report
<1> HIDE DEF new, ending, last
<1>7. CASE grace /\ ~last
  <2>1. new = rep /\ held_nodes(rep) # {}
    BY <1>4, <1>6, <1>7, Zenon
  <2>2. JobOK(rep)
    BY <1>1, <1>3, <2>1, StateFacts, Zenon DEF JobOK, holds_a_placement
  <2>3. Accounted(rep) = held_nodes(rep)
    BY <1>1, Zenon DEF Accounted
  <2> QED BY <1>1, <1>3, <2>1, <2>2, <2>3, Zenon
<1>8. CASE last /\ grace /\ rep.preempt_pending.mode = "Requeue"
  <2>1. new = repend_after_preemption(rep)
    BY <1>6, <1>8, Zenon
  <2>2. new \in JobRecord /\ JobOK(new) /\ Accounted(new) = {}
    BY <1>1, <2>1, RependAfterPreemptionFacts, Zenon
  <2> QED BY <1>3, <1>4, <1>8, <2>2, Zenon
<1>9. CASE last /\ ~(grace /\ rep.preempt_pending.mode = "Requeue")
  <2>1. new = finalize_reported_run(ending)
    BY <1>6, <1>9, Zenon
  <2>2. new \in JobRecord /\ JobOK(new) /\ Accounted(new) = {}
    BY <1>5, <2>1, FinalizedFacts, Zenon
  <2> QED BY <1>3, <1>4, <1>9, <2>2, Zenon
<1>10. CASE ~last /\ ~grace
  <2>1. new = [ending EXCEPT !.state = "Completing"] /\ ~warned
    BY <1>6, <1>10, Zenon
  <2>2. /\ new \in JobRecord /\ new.state = "Completing"
        /\ new.allocated_nodes = job.allocated_nodes
        /\ new.node_completions = rep.node_completions
        /\ new.preempt_pending = job.preempt_pending
        /\ new.run_attempt = job.run_attempt
    BY <1>1, <1>5, <2>1, Zenon DEF JobRecord, JobState, Active
  <2>3. held_nodes(new) = held_nodes(rep) /\ held_nodes(rep) # {}
    BY <1>1, <1>4, <1>10, <2>2, Zenon DEF held_nodes
  <2>4. JobOK(new)
    BY <1>1, <1>3, <2>1, <2>2, <2>3, StateFacts
    DEF JobOK, holds_a_placement, preempt_grace
  <2>5. Accounted(new) = held_nodes(new)
    BY <2>2, StateFacts, Zenon DEF Accounted
  <2> QED BY <1>3, <2>2, <2>3, <2>4, <2>5, Zenon
<1> QED BY <1>7, <1>8, <1>9, <1>10, Zenon

\* A report frees the slice of the reporting node, once.
LEMMA JobNodeCompletePreserves ==
  ASSUME IInv, NEW op, op.job \in Job, op.kind = "JobNodeComplete",
         op.completion \in Completion, Admissible(op), JobNodeComplete(op)
  PROVE  IInv'
<1> DEFINE job    == jobs[op.job]
           warned == preempt_grace(job) /\ job.state = "Running"
           rep    == [job EXCEPT !.node_completions[op.node] = op.completion]
           new    == advance_after_node_report(rep, warned)
           freed  == {op.node} \ Reported(job.node_completions)
<1>1. job \in JobRecord /\ JobOK(job)
  BY RecordOK, Zenon
<1>2. CASE op.run_attempt < job.run_attempt \/ job.state \notin Active
  BY <1>2, Stutter, Zenon DEF JobNodeComplete
<1>3. CASE ~(op.run_attempt < job.run_attempt) /\ job.state \in Active
  <2>1. op.node \in job.allocated_nodes /\ job.allocated_nodes # {}
    BY <1>3, Zenon DEF Admissible
  <2>2. SetJob(op.job, new, freed)
    BY <1>3, <2>1, Zenon DEF JobNodeComplete
  <2>3. new \in JobRecord /\ JobOK(new) /\ Accounted(new) = Accounted(job) \ {op.node}
    BY <1>1, <1>3, <2>1, AdvanceFacts, Zenon
  <2>4. Accounted(job) = held_nodes(job) /\ held_nodes(job) \in SUBSET Node
    BY <1>1, <1>3, AccountedFacts, Zenon
  <2>5. freed \subseteq Accounted(job) /\ freed \in SUBSET Node
        /\ Accounted(job) \ {op.node} = Accounted(job) \ freed
    BY <2>1, <2>4, Zenon DEF held_nodes
  <2> HIDE DEF new, freed
  <2> QED BY <2>2, <2>3, <2>5, SetJobPreserves, Zenon
<1> QED BY <1>2, <1>3, Zenon

\* A run ended by an entry, or requeued by the grace it was in, frees every
\* slice it still holds.
LEMMA JobCompletePreserves ==
  ASSUME IInv, NEW op, op.job \in Job, op.state \in Terminal, JobComplete(op)
  PROVE  IInv'
<1> DEFINE job    == jobs[op.job]
           grace  == /\ preempt_grace(job) /\ job.state = "Running"
                     /\ ~op.cancel /\ ~op.controller_initiated
                     /\ op.state # "OutOfMemory"
           ending == IF grace THEN adopt_grace_provenance(job) ELSE job
           state  == IF grace /\ job.preempt_pending.mode = "Cancel"
                     THEN "Cancelled" ELSE op.state
           reason == IF state \in {"Timeout", "OutOfMemory"}
                     THEN "Other" ELSE ending.pending_reason
           over   == [ending EXCEPT !.state = state, !.preempt_pending = NoGrace,
                                    !.node_completions = NoReports,
                                    !.pending_reason = reason]
           back   == repend_after_preemption(job)
<1>1. job \in JobRecord /\ JobOK(job)
  BY RecordOK, Zenon
<1>2. state \in Terminal
  BY Zenon DEF Terminal
<1>3. CASE grace /\ SetJob(op.job, back, held_nodes(job))
  <2>1. back \in JobRecord /\ JobOK(back) /\ Accounted(back) = {}
    BY <1>1, RependAfterPreemptionFacts, Zenon
  <2>2. Accounted(job) = held_nodes(job) /\ held_nodes(job) \in SUBSET Node
    BY <1>1, <1>3, AccountedFacts, StateFacts, Zenon
  <2> HIDE DEF back
  <2> QED BY <1>3, <2>1, <2>2, SetJobPreserves, Zenon
<1>4. CASE /\ job.state \notin Finalized /\ LegalTransition(job.state, state)
           /\ SetJob(op.job, over, held_nodes(job))
  <2>1. ending \in JobRecord
    BY <1>1, AdoptFacts, Zenon
  <2>2. reason \in PendingReason
    BY <2>1, Zenon DEF JobRecord, PendingReason
  <2>3. job.state \in Active \cup {"Pending"}
    BY <1>1, <1>2, <1>4, Zenon DEF LegalTransition, Active, Terminal, Finalized
  <2>4. Accounted(job) = held_nodes(job) /\ held_nodes(job) \in SUBSET Node
    BY <1>1, <2>3, AccountedFacts, Zenon
  <2> HIDE DEF ending, state, reason
  <2>5. /\ over \in JobRecord /\ over.state \in Terminal
        /\ over.node_completions = NoReports /\ over.preempt_pending = NoGrace
    BY <1>2, <2>1, <2>2, NoReportsFacts, NoGraceFacts, Zenon
    DEF JobRecord, JobState, Finalized
  <2>6. JobOK(over) /\ Accounted(over) = {}
    BY <2>5, OverFacts, Zenon
  <2> HIDE DEF over
  <2> QED BY <1>4, <2>4, <2>5, <2>6, SetJobPreserves, Zenon
<1>5. \/ UNCHANGED vars
      \/ grace /\ SetJob(op.job, back, held_nodes(job))
      \/ /\ job.state \notin Finalized /\ LegalTransition(job.state, state)
         /\ SetJob(op.job, over, held_nodes(job))
  BY <1>1, Zenon DEF JobComplete, JobOK
<1> QED BY <1>3, <1>4, <1>5, Stutter, Zenon

\* Excluding nodes touches no placement.
LEMMA JobExcludeUpdatePreserves ==
  ASSUME IInv, NEW op, op.job \in Job, op.nodes \in SUBSET Node, JobExcludeUpdate(op)
  PROVE  IInv'
<1> DEFINE job == jobs[op.job]
           new == [job EXCEPT !.exclude = op.nodes]
<1>1. job \in JobRecord /\ JobOK(job)
  BY RecordOK, Zenon
<1>2. CASE SetJob(op.job, new, {})
  <2> HIDE DEF job
  <2>1. /\ new \in JobRecord /\ new.state = job.state
        /\ new.allocated_nodes = job.allocated_nodes
        /\ new.node_completions = job.node_completions
        /\ new.preempt_pending = job.preempt_pending
        /\ new.run_attempt = job.run_attempt
    BY <1>1, Zenon DEF JobRecord
  <2> HIDE DEF new
  <2>2. JobOK(new) /\ Accounted(new) = Accounted(job)
    BY <1>1, <2>1, Zenon DEF JobOK, Accounted, held_nodes, holds_a_placement
  <2> QED BY <1>2, <2>1, <2>2, SetJobPreserves DEF job, new
<1> QED BY <1>2, Stutter, Zenon DEF JobExcludeUpdate

\* A hold frees the whole of the reservation it takes away.
LEMMA JobPriorityChangePreserves ==
  ASSUME IInv, NEW op, op.job \in Job, op.run_attempt \in Nat,
         op.reason \in PendingReason, JobPriorityChange(op)
  PROVE  IInv'
<1> DEFINE job   == jobs[op.job]
           frees == /\ op.reason \in {"Held", "JobHoldMaxRequeue"}
                    /\ job.state = "Pending"
                    /\ op.run_attempt = 0 \/ op.run_attempt >= job.run_attempt
                    /\ holds_a_placement(job)
           count == IF op.reset_requeue_count THEN 0 ELSE job.requeue_count
           run   == IF op.run_attempt > job.run_attempt
                    THEN op.run_attempt ELSE job.run_attempt
           alloc == IF frees THEN {} ELSE job.allocated_nodes
           freed == IF frees THEN job.allocated_nodes ELSE {}
           new   == [job EXCEPT !.pending_reason  = op.reason,
                                !.run_attempt     = run,
                                !.requeue_count   = count,
                                !.allocated_nodes = alloc]
<1>1. job \in JobRecord /\ JobOK(job)
  BY RecordOK, Zenon
<1>2. CASE job.state \in JobState /\ SetJob(op.job, new, freed)
  <2>1. count \in Nat /\ run \in Nat /\ job.run_attempt \in Nat
        /\ run >= job.run_attempt /\ alloc \in SUBSET Node /\ freed \in SUBSET Node
    BY <1>1 DEF JobRecord
  <2>2. frees => job.state = "Pending" /\ alloc = {} /\ freed = job.allocated_nodes
    BY Zenon
  <2>3. ~frees => alloc = job.allocated_nodes /\ freed = {}
    BY Zenon
  <2> HIDE DEF job, count, run, frees, alloc, freed
  <2>4. /\ new \in JobRecord /\ new.state = job.state
        /\ new.allocated_nodes = alloc
        /\ new.node_completions = job.node_completions
        /\ new.preempt_pending = job.preempt_pending
        /\ new.run_attempt = run
    BY <1>1, <2>1, Zenon DEF JobRecord
  <2>5. job.preempt_pending.run_attempt \in Nat
    BY <1>1, Zenon DEF JobRecord, PreemptPending
  <2> HIDE DEF new
  <2>6. CASE frees
    <3>1. job.node_completions = NoReports /\ job.state = "Pending"
      BY <1>1, <2>2, <2>6, StateFacts, Zenon DEF JobOK
    <3>2. JobOK(new)
      BY <1>1, <2>1, <2>2, <2>4, <2>5, <2>6, <3>1, NoReportsFacts, StateFacts
      DEF JobOK, held_nodes, holds_a_placement
    <3>3. Accounted(new) = {} /\ Accounted(job) = job.allocated_nodes
      BY <2>2, <2>4, <2>6, <3>1, NoReportsFacts, Zenon DEF Accounted, held_nodes
    <3> QED BY <1>2, <2>1, <2>2, <2>4, <2>6, <3>2, <3>3, SetJobPreserves DEF job, new
  <2>7. CASE ~frees
    <3>1. JobOK(new) /\ Accounted(new) = Accounted(job)
      BY <1>1, <2>1, <2>3, <2>4, <2>5, <2>7
      DEF JobOK, Accounted, held_nodes, holds_a_placement
    <3> QED BY <1>2, <2>1, <2>3, <2>4, <2>7, <3>1, SetJobPreserves DEF job, new
  <2> QED BY <2>6, <2>7, Zenon
<1> QED BY <1>2, Stutter, Zenon DEF JobPriorityChange

\* A reservation charges the registered nodes it names to a job that holds none.
LEMMA JobStartPreserves ==
  ASSUME IInv, NEW op, op.job \in Job, op.run_attempt \in Nat,
         op.nodes \in SUBSET Node, op.nodes # {}, JobStart(op)
  PROVE  IInv'
<1> DEFINE job  == jobs[op.job]
           over == job.state \notin {"Pending"} \cup Active
           c    == [n \in Node |-> [charge[n] EXCEPT ![op.job] =
                                      IF n \in op.nodes \cap Registered
                                      THEN @ + 1 ELSE @]]
           d    == [n \in Node |-> [drift[n] EXCEPT ![op.job] =
                                      IF over /\ n \in op.nodes \cap Registered
                                      THEN @ + 1 ELSE @]]
           run  == IF job.run_attempt < op.run_attempt
                   THEN op.run_attempt ELSE job.run_attempt
           new  == [job EXCEPT !.allocated_nodes = op.nodes, !.run_attempt = run,
                               !.preempt_mode = "None", !.pending_reason = "Other"]
<1>1. job \in JobRecord /\ JobOK(job)
  BY RecordOK, Zenon
<1>2. CASE ~(holds_a_placement(job) \/ job.exclude \cap op.nodes # {})
  <2>1. /\ jobs' = IF job.state \notin JobState THEN jobs
                   ELSE [jobs EXCEPT ![op.job] = new]
        /\ charge' = c /\ drift' = d
        /\ nodes' = Refreshed(nodes, c, op.nodes)
    BY <1>2, Zenon DEF JobStart
  <2>2. /\ jobs \in [Job -> JobRecord] /\ nodes \in [Node -> NodeRecord]
        /\ charge \in [Node -> [Job -> Int]] /\ drift \in [Node -> [Job -> Int]]
    BY Zenon DEF IInv, TypeOK
  <2>3. /\ c \in [Node -> [Job -> Int]] /\ d \in [Node -> [Job -> Int]]
        /\ \A n \in Node \ op.nodes : c[n] = charge[n]
    BY <2>2
  <2>4. ASSUME NEW n \in Registered, NEW j \in Job
        PROVE  /\ c[n][j] = charge[n][j] + IF j = op.job /\ n \in op.nodes THEN 1 ELSE 0
               /\ d[n][j] = drift[n][j] + IF j = op.job /\ n \in op.nodes /\ over
                                          THEN 1 ELSE 0
    BY <2>2 DEF Registered
  <2> HIDE DEF c, d
  <2>5. /\ nodes' \in [Node -> NodeRecord]
        /\ \A n \in Node : nodes'[n].state = "Absent" <=> n \notin Registered
        /\ \A n \in Node : nodes'[n].state \in Up \cup {"Draining"} =>
              nodes'[n].state = update_state_from_alloc(nodes'[n].state, charge'[n])
    <3>1. \A n \in Node : nodes[n].state = "Absent" <=> n \notin Registered
      BY Zenon DEF Registered
    <3>2. \A n \in Node : nodes[n].state \in Up \cup {"Draining"} =>
            \/ n \in op.nodes
            \/ nodes[n].state = update_state_from_alloc(nodes[n].state, charge[n])
      BY Zenon DEF IInv, NodeStateTellsLoad
    <3>3. nodes' = Refreshed(nodes, c, op.nodes) /\ charge' = c
      BY <2>1, Zenon
    <3>4. nodes \in [Node -> NodeRecord] /\ \A n \in Node \ op.nodes : c[n] = charge[n]
      BY <2>2, <2>3, Zenon
    <3> QED BY <3>1, <3>2, <3>3, <3>4, RefreshedNodes
  <2>6. Accounted(job) = {}
    BY <1>2, Zenon DEF Accounted, holds_a_placement
  <2>7. run \in Nat /\ job.run_attempt \in Nat /\ run >= job.run_attempt
        /\ job.preempt_pending.run_attempt \in Nat
    BY <1>1 DEF JobRecord, PreemptPending
  <2> HIDE DEF run, job
  <2>8. /\ new \in JobRecord /\ new.state = job.state
        /\ new.allocated_nodes = op.nodes
        /\ new.node_completions = job.node_completions
        /\ new.preempt_pending = job.preempt_pending
        /\ new.run_attempt = run
    BY <1>1, <2>7, Zenon DEF JobRecord, PendingReason
  <2> HIDE DEF new
  <2>9. Reported(job.node_completions) = {}
    BY <1>1, <1>2, NoReportsFacts, Zenon DEF JobOK, held_nodes, holds_a_placement
  <2>10. CASE job.state \in JobState
    <3>1. jobs' = [jobs EXCEPT ![op.job] = new]
      BY <2>1, <2>10, Zenon
    <3>2. JobOK(new)
      BY <1>1, <2>7, <2>8, <2>9, <2>10 DEF JobOK, held_nodes, holds_a_placement
    <3>3. Accounted(new) = IF over THEN {} ELSE op.nodes
      BY <2>8, <2>9, Zenon DEF Accounted, held_nodes
    <3>4. jobs' \in [Job -> JobRecord] /\ \A j \in Job : JobOK(jobs'[j])
      BY <2>2, <2>8, <3>1, <3>2, Zenon DEF IInv
    <3>5. ASSUME NEW n \in Registered, NEW j \in Job
          PROVE  charge'[n][j]
                   = drift'[n][j] + IF n \in Accounted(jobs'[j]) THEN 1 ELSE 0
      <4>1. charge[n][j] = drift[n][j] + IF n \in Accounted(jobs[j]) THEN 1 ELSE 0
        BY Zenon DEF IInv, ChargeAccounted
      <4>2. drift[n][j] \in Int /\ charge[n][j] \in Int
        BY <2>2, Zenon DEF Registered
      <4>3. CASE j = op.job
        <5>1. jobs'[j] = new /\ Accounted(jobs[j]) = {}
          BY <2>2, <2>6, <3>1, <4>3, Zenon DEF job
        <5> QED BY <2>1, <2>4, <3>3, <4>1, <4>2, <4>3, <5>1
      <4>4. CASE j # op.job
        <5>1. jobs'[j] = jobs[j]
          BY <2>2, <3>1, <4>4, Zenon
        <5> QED BY <2>1, <2>4, <4>1, <4>2, <4>4, <5>1
      <4> QED BY <4>3, <4>4, Zenon
    <3> QED BY <2>1, <2>3, <2>5, <3>4, <3>5, Zenon
        DEF IInv, TypeOK, ChargeAccounted, NodeStateTellsLoad, Registered
  <2>11. CASE job.state \notin JobState
    <3>1. jobs' = jobs /\ over
      BY <2>1, <2>11, StateFacts, Zenon
    <3>2. ASSUME NEW n \in Registered, NEW j \in Job
          PROVE  charge'[n][j]
                   = drift'[n][j] + IF n \in Accounted(jobs'[j]) THEN 1 ELSE 0
      <4>1. charge[n][j] = drift[n][j] + IF n \in Accounted(jobs[j]) THEN 1 ELSE 0
        BY Zenon DEF IInv, ChargeAccounted
      <4>2. drift[n][j] \in Int /\ charge[n][j] \in Int
        BY <2>2, Zenon DEF Registered
      <4> QED BY <2>1, <2>4, <3>1, <4>1, <4>2
    <3> QED BY <2>1, <2>2, <2>3, <2>5, <3>1, <3>2, Zenon
        DEF IInv, TypeOK, ChargeAccounted, NodeStateTellsLoad, Registered
  <2> QED BY <2>10, <2>11, Zenon
<1> QED BY <1>2, Stutter, Zenon DEF JobStart

\* A node that registers starts empty and idle.
LEMMA NodeRegisterPreserves ==
  ASSUME IInv, NEW op, op.node \in Node, NodeRegister(op)
  PROVE  IInv'
<1> DEFINE zero == [j \in Job |-> 0]
           idle == [state |-> "Idle", admin_locked |-> FALSE]
           d    == [j \in Job |-> IF op.node \in Accounted(jobs[j]) THEN -1 ELSE 0]
<1>1. /\ nodes' = [nodes EXCEPT ![op.node] = idle]
      /\ charge' = [charge EXCEPT ![op.node] = zero]
      /\ drift' = [drift EXCEPT ![op.node] = d]
      /\ jobs' = jobs
  BY Zenon DEF NodeRegister
<1>2. TypeOK
  BY Zenon DEF IInv
<1>3. idle \in NodeRecord /\ zero \in [Job -> Int] /\ d \in [Job -> Int]
  BY DEF NodeRecord, NodeState, Up
<1>4. update_state_from_alloc("Idle", zero) = "Idle"
  BY Zenon DEF update_state_from_alloc, alloc_cpus, AdminHold
<1>5. /\ idle.state = "Idle"
      /\ \A j \in Job : zero[j] = 0
      /\ \A j \in Job : d[j] = IF op.node \in Accounted(jobs[j]) THEN -1 ELSE 0
  BY Zenon
<1> HIDE DEF idle, zero, d
<1>6. TypeOK'
  BY <1>1, <1>2, <1>3, Zenon DEF TypeOK
<1>7. ASSUME NEW n \in Registered', NEW j \in Job
      PROVE  charge'[n][j] = drift'[n][j] + IF n \in Accounted(jobs'[j]) THEN 1 ELSE 0
  <2>1. CASE n = op.node
    BY <1>1, <1>2, <1>5, <2>1 DEF TypeOK
  <2>2. CASE n # op.node
    <3>1. n \in Registered /\ charge'[n] = charge[n] /\ drift'[n] = drift[n]
      BY <1>1, <1>2, <2>2, Zenon DEF TypeOK, Registered
    <3> QED BY <1>1, <3>1, Zenon DEF IInv, ChargeAccounted
  <2> QED BY <2>1, <2>2, Zenon
<1>8. NodeStateTellsLoad'
  BY <1>1, <1>2, <1>4, <1>5, Zenon DEF IInv, TypeOK, NodeStateTellsLoad
<1> QED BY <1>1, <1>6, <1>7, <1>8, Zenon DEF IInv, ChargeAccounted

\* Losing a node ends or un-reserves every job that holds it: the new records
\* are sound, stop accounting for exactly what is freed, and none of them
\* accounts for the lost node.
LEMMA EvictJobsFacts ==
  ASSUME IInv, NEW node \in Node
  PROVE  /\ evict_jobs_on_node(node) \in [Job -> JobRecord]
         /\ FreedBy(node) \in [Job -> SUBSET Node]
         /\ \A j \in Job :
              /\ JobOK(evict_jobs_on_node(node)[j])
              /\ FreedBy(node)[j] \subseteq Accounted(jobs[j])
              /\ Accounted(evict_jobs_on_node(node)[j])
                   = Accounted(jobs[j]) \ FreedBy(node)[j]
              /\ node \notin Accounted(evict_jobs_on_node(node)[j])
<1> DEFINE e == evict_jobs_on_node(node)
           f == FreedBy(node)
<1>1. ASSUME NEW j \in Job
      PROVE  /\ e[j] \in JobRecord /\ JobOK(e[j]) /\ f[j] \in SUBSET Node
             /\ f[j] \subseteq Accounted(jobs[j])
             /\ Accounted(e[j]) = Accounted(jobs[j]) \ f[j]
             /\ node \notin Accounted(e[j])
  <2>1. jobs[j] \in JobRecord /\ JobOK(jobs[j])
    BY RecordOK, Zenon
  <2>2. CASE j \notin TakenDown(node)
    <3>1. e[j] = jobs[j] /\ f[j] = {}
      BY <2>2, Zenon DEF evict_jobs_on_node, FreedBy
    <3>2. node \notin Accounted(jobs[j])
      BY <2>2, Zenon DEF TakenDown, Accounted
    <3> QED BY <2>1, <3>1, <3>2, Zenon
  <2>3. CASE j \in TakenDown(node)
    <3>1. /\ f[j] = held_nodes(jobs[j])
          /\ e[j] = IF jobs[j].state = "Pending"
                    THEN clear_run_state_for_requeue(jobs[j])
                    ELSE evict_job_locked(jobs[j])
      BY <2>3, Zenon DEF evict_jobs_on_node, FreedBy
    <3>2. Accounted(jobs[j]) = held_nodes(jobs[j]) /\ held_nodes(jobs[j]) \in SUBSET Node
      BY <2>1, <2>3, AccountedFacts, Zenon DEF TakenDown
    <3>3. e[j] \in JobRecord /\ JobOK(e[j]) /\ Accounted(e[j]) = {}
      <4>1. CASE jobs[j].state = "Pending"
        <5>1. e[j] = clear_run_state_for_requeue(jobs[j])
          BY <3>1, <4>1, Zenon
        <5>2. /\ e[j] \in JobRecord /\ e[j].state = "Pending"
              /\ e[j].allocated_nodes = {} /\ e[j].node_completions = NoReports
              /\ e[j].preempt_pending = NoGrace
          BY <2>1, <4>1, <5>1, ClearFacts
        <5> QED BY <5>2, RependedFacts, Zenon
      <4>2. CASE jobs[j].state # "Pending"
        BY <2>1, <3>1, <4>2, EvictedFacts, Zenon
      <4> QED BY <4>1, <4>2, Zenon
    <3> QED BY <3>1, <3>2, <3>3, Zenon
  <2> QED BY <2>2, <2>3, Zenon
<1>2. e = [j \in Job |-> e[j]] /\ f = [j \in Job |-> f[j]]
  BY Zenon DEF evict_jobs_on_node, FreedBy
<1> QED BY <1>1, <1>2, Zenon

\* A node state change keeps the accounting, and loses no job's slice with the
\* node that goes Down.
LEMMA NodeStateChangePreserves ==
  ASSUME IInv, NEW op, op.node \in Node, op.admin_locked \in BOOLEAN,
         op.state \in {"Idle", "Down", "Drain", "Draining"}, NodeStateChange(op)
  PROVE  IInv'
<1> DEFINE state == IF op.state \in Up \cup {"Draining"}
                    THEN update_state_from_alloc(op.state, charge[op.node])
                    ELSE op.state
           ns    == IF op.node \notin Registered THEN nodes
                    ELSE [nodes EXCEPT ![op.node] =
                            [state |-> state, admin_locked |-> op.admin_locked]]
<1>1. nodes \in [Node -> NodeRecord] /\ TypeOK
  BY Zenon DEF IInv, TypeOK
<1>2. op.state \in NodeState /\ "Absent" \notin NodeState
  BY Zenon DEF NodeState, Up, AdminHold
<1>3. /\ state \in NodeState
      /\ state \in Up \cup {"Draining"} =>
           state = update_state_from_alloc(state, charge[op.node])
  BY <1>2, UpdateType, UpdateStable, Zenon
<1>4. op.state = "Down" => state = "Down"
  BY Zenon DEF Up
<1> HIDE DEF state
<1>5. /\ ns \in [Node -> NodeRecord]
      /\ \A n \in Node : ns[n].state = "Absent" <=> n \notin Registered
      /\ \A n \in Node : ns[n].state \in Up \cup {"Draining"} =>
           ns[n].state = update_state_from_alloc(ns[n].state, charge[n])
  BY <1>1, <1>2, <1>3, Zenon DEF IInv, NodeStateTellsLoad, NodeRecord, Registered
<1>6. CASE op.state = "Down"
  <2>1. jobs' = evict_jobs_on_node(op.node)
        /\ deallocate_job_slices(ns, FreedBy(op.node))
    BY <1>6, Zenon DEF NodeStateChange, state
  <2>2. /\ jobs' \in [Job -> JobRecord] /\ FreedBy(op.node) \in [Job -> SUBSET Node]
        /\ \A j \in Job : JobOK(jobs'[j])
        /\ \A j \in Job : FreedBy(op.node)[j] \subseteq Accounted(jobs[j])
        /\ \A j \in Job : Accounted(jobs'[j]) = Accounted(jobs[j]) \ FreedBy(op.node)[j]
    BY <2>1, EvictJobsFacts, Zenon
  <2> HIDE DEF ns
  <2> QED BY <1>5, <2>1, <2>2, DeallocatePreserves, Zenon
<1>7. CASE op.state # "Down"
  <2>1. nodes' = ns /\ jobs' = jobs /\ charge' = charge /\ drift' = drift
    BY <1>7, Zenon DEF NodeStateChange, state
  <2> HIDE DEF ns
  <2>2. Registered' = Registered
    BY <1>5, <2>1, Zenon DEF Registered
  <2> QED BY <1>1, <1>5, <2>1, <2>2, Zenon
      DEF IInv, TypeOK, ChargeAccounted, NodeStateTellsLoad
<1> QED BY <1>6, <1>7, Zenon

\* A removed node takes no other node's slice with it.
LEMMA NodeRemovePreserves ==
  ASSUME IInv, NEW op, op.node \in Node, NodeRemove(op)
  PROVE  IInv'
<1> DEFINE f == FreedBy(op.node)
           c == Discharged(f)
           t == Touched(f)
           r == Refreshed(nodes, c, t)
<1>1. /\ jobs' = evict_jobs_on_node(op.node)
      /\ charge' = [c EXCEPT ![op.node] = [j \in Job |-> 0]]
      /\ nodes' = [r EXCEPT ![op.node] = AbsentNode]
      /\ drift' = [drift EXCEPT ![op.node] = [j \in Job |-> 0]]
  BY Zenon DEF NodeRemove
<1>2. /\ TypeOK /\ nodes \in [Node -> NodeRecord]
      /\ drift \in [Node -> [Job -> Int]]
      /\ \A n \in Registered : n \in Node
  BY Zenon DEF IInv, TypeOK, Registered
<1>3. /\ jobs' \in [Job -> JobRecord] /\ f \in [Job -> SUBSET Node]
      /\ \A j \in Job : JobOK(jobs'[j])
      /\ \A j \in Job : f[j] \subseteq Accounted(jobs[j])
      /\ \A j \in Job : Accounted(jobs'[j]) = Accounted(jobs[j]) \ f[j]
  BY <1>1, EvictJobsFacts, Zenon
<1> HIDE DEF f
<1>4. /\ c \in [Node -> [Job -> Int]]
      /\ \A n \in Registered, j \in Job :
            c[n][j] = charge[n][j] - IF n \in f[j] THEN 1 ELSE 0
      /\ \A n \in Node \ t : c[n] = charge[n]
      /\ t \in SUBSET Node
  BY <1>2, <1>3, DischargedCharges, Zenon
<1> HIDE DEF c, t
<1>5. /\ r \in [Node -> NodeRecord]
      /\ \A n \in Node : r[n].state = "Absent" <=> n \notin Registered
      /\ \A n \in Node : r[n].state \in Up \cup {"Draining"} =>
            r[n].state = update_state_from_alloc(r[n].state, c[n])
  <2>1. \A n \in Node : nodes[n].state = "Absent" <=> n \notin Registered
    BY Zenon DEF Registered
  <2>2. \A n \in Node : nodes[n].state \in Up \cup {"Draining"} =>
          \/ n \in t
          \/ nodes[n].state = update_state_from_alloc(nodes[n].state, charge[n])
    BY Zenon DEF IInv, NodeStateTellsLoad
  <2>3. nodes \in [Node -> NodeRecord] /\ t \in SUBSET Node
        /\ \A n \in Node \ t : c[n] = charge[n]
    BY <1>2, <1>4, Zenon
  <2> QED BY <2>1, <2>2, <2>3, RefreshedNodes
<1> HIDE DEF r
<1>6. AbsentNode \in NodeRecord /\ AbsentNode.state = "Absent"
      /\ "Absent" \notin Up \cup {"Draining"}
  BY Zenon DEF AbsentNode, NodeRecord, Up
<1>7. TypeOK'
  BY <1>1, <1>2, <1>3, <1>4, <1>5, <1>6 DEF TypeOK
<1>8. ASSUME NEW n \in Registered', NEW j \in Job
      PROVE  charge'[n][j] = drift'[n][j] + IF n \in Accounted(jobs'[j]) THEN 1 ELSE 0
  <2>1. n \in Node /\ n # op.node /\ nodes'[n].state # "Absent" /\ nodes'[n] = r[n]
    BY <1>1, <1>5, <1>6, Zenon DEF Registered
  <2>2. n \in Registered
    BY <1>5, <2>1, Zenon
  <2>3. charge'[n][j] = charge[n][j] - IF n \in f[j] THEN 1 ELSE 0
    BY <1>1, <1>4, <2>1, <2>2, Zenon
  <2>4. drift'[n][j] = drift[n][j] /\ drift[n][j] \in Int
    BY <1>1, <1>2, <2>1, Zenon
  <2>5. charge[n][j] = drift[n][j] + IF n \in Accounted(jobs[j]) THEN 1 ELSE 0
    BY <2>2, Zenon DEF IInv, ChargeAccounted
  <2>6. /\ n \in f[j] => n \in Accounted(jobs[j])
        /\ n \in Accounted(jobs'[j]) <=> n \in Accounted(jobs[j]) /\ n \notin f[j]
    BY <1>3, Zenon
  <2> QED BY <2>3, <2>4, <2>5, <2>6
<1>9. NodeStateTellsLoad'
  BY <1>1, <1>4, <1>5, <1>6, Zenon DEF NodeStateTellsLoad
<1> QED BY <1>3, <1>7, <1>8, <1>9, Zenon DEF IInv, ChargeAccounted

-----------------------------------------------------------------------------
(* The invariant.                                                          *)

\* The fields of an entry have the types its arm relies on.
LEMMA EntryTypes ==
  ASSUME NEW op \in Entry
  PROVE  /\ op.kind \notin {"NodeRegister", "NodeStateChange", "NodeRemove"}
              => op.job \in Job
         /\ op.kind = "JobStart" => /\ op.nodes \in SUBSET Node /\ op.nodes # {}
                                    /\ op.run_attempt \in Nat
                                    /\ op.run_attempt \in Attempt
         /\ op.kind = "JobStateChange" => /\ op.new_state = "Running"
                                               => op.run_attempt \in Attempt
                                          /\ op.new_state \in {"Pending", "Running"}
                                          /\ op.reason \in PendingReason
         /\ op.kind = "JobDispatchBackoff" => op.run_attempt \in Nat
         /\ op.kind = "JobPreemptSignaled" => /\ op.run_attempt \in Nat
                                              /\ op.mode \in {"Cancel", "Requeue"}
         /\ op.kind = "JobNodeComplete" => /\ op.completion \in Completion
                                           /\ op.node \in Node
                                           /\ op.run_attempt \in Attempt
         /\ op.kind = "JobTimeLimitExpired" => op.run_attempt \in Attempt
         /\ op.kind = "JobComplete" => op.state \in Terminal
         /\ op.kind = "JobExcludeUpdate" => op.nodes \in SUBSET Node
         /\ op.kind = "JobPriorityChange" => /\ op.reason \in PendingReason
                                             /\ op.run_attempt \in Nat
         /\ op.kind \in {"NodeRegister", "NodeStateChange", "NodeRemove"}
              => op.node \in Node
         /\ op.kind = "NodeStateChange"
              => /\ op.state \in {"Idle", "Down", "Drain", "Draining"}
                 /\ op.admin_locked \in BOOLEAN
<1>1. Attempt \subseteq Nat /\ 0..MaxAttempt \subseteq Nat
  BY BoundsAreNatural DEF Attempt
<1>2. CASE op \in [kind : {"JobSubmit", "JobResume", "JobEvict",
                             "JobCancelSignaled", "EvictTerminalJobs"}, job : Job]
  BY <1>2, Zenon
<1>3. CASE op \in [kind : {"JobStart"}, job : Job, nodes : (SUBSET Node) \ {{}},
                     run_attempt : Attempt]
  <2>1. /\ op.kind = "JobStart" /\ op.job \in Job
        /\ op.nodes \in (SUBSET Node) \ {{}} /\ op.run_attempt \in Attempt
    BY <1>3, Zenon
  <2> QED BY <1>1, <2>1, Zenon
<1>4. CASE op \in [kind : {"JobStateChange"}, job : Job, new_state : {"Running"},
                     run_attempt : Attempt, reason : {"Other"}]
  BY <1>4, Zenon DEF PendingReason
<1>5. CASE op \in [kind : {"JobStateChange"}, job : Job, new_state : {"Pending"},
                     run_attempt : {0}, reason : PendingReason]
  BY <1>5, Zenon
<1>6. CASE op \in [kind : {"JobDispatchBackoff"}, job : Job, run_attempt : Attempt,
                     at_max_requeue : BOOLEAN, spare_requeue_budget : BOOLEAN]
  BY <1>1, <1>6, Zenon
<1>7. CASE op \in [kind : {"JobPreemptRequeue", "JobPreemptCancel",
                     "JobTimeLimitExpired"}, job : Job, run_attempt : Attempt]
  BY <1>7, Zenon
<1>8. CASE op \in [kind : {"JobPreemptSignaled"}, job : Job, run_attempt : Attempt,
                     mode : {"Cancel", "Requeue"}]
  BY <1>1, <1>8, Zenon
<1>9. CASE op \in [kind : {"JobUserRequeue"}, job : Job, hold : BOOLEAN]
  BY <1>9, Zenon
<1>10. CASE op \in [kind : {"JobSuspend"}, job : Job, preempt : BOOLEAN]
  BY <1>10, Zenon
<1>11. CASE op \in [kind : {"JobNodeComplete"}, job : Job, node : Node,
                     completion : Completion, run_attempt : Attempt]
  BY <1>11, Zenon
<1>12. CASE op \in [kind : {"JobComplete"}, job : Job, cancel : {FALSE},
                     controller_initiated : {FALSE},
                     state : {"Completed", "Failed", "Cancelled", "Timeout",
                              "Deadline", "OutOfMemory"}]
  BY <1>12, Zenon DEF Terminal
<1>13. CASE op \in [kind : {"JobComplete"}, job : Job, cancel : {TRUE},
                     controller_initiated : {FALSE}, state : {"Cancelled"}]
  BY <1>13, Zenon DEF Terminal
<1>14. CASE op \in [kind : {"JobComplete"}, job : Job, cancel : {FALSE},
                     controller_initiated : {TRUE}, state : {"Failed"}]
  BY <1>14, Zenon DEF Terminal
<1>15. CASE op \in [kind : {"JobExcludeUpdate"}, job : Job, nodes : SUBSET Node]
  BY <1>15, Zenon
<1>16. CASE op \in [kind : {"JobPriorityChange"}, job : Job, reason : PendingReason,
                     run_attempt : 0..MaxAttempt,
                     reset_requeue_count : BOOLEAN]
  BY <1>1, <1>16, Zenon
<1>17. CASE op \in [kind : {"NodeStateChange"}, node : Node,
                     state : {"Idle", "Down", "Drain", "Draining"}, admin_locked : BOOLEAN]
  BY <1>17, Zenon
<1>18. CASE op \in [kind : {"NodeRegister", "NodeRemove"}, node : Node]
  BY <1>18, Zenon
<1> QED BY ZenonT(30), <1>2, <1>3, <1>4, <1>5, <1>6, <1>7, <1>8, <1>9, <1>10,
           <1>11, <1>12, <1>13, <1>14, <1>15, <1>16, <1>17, <1>18 DEF Entry

\* The initial state satisfies the invariant.
LEMMA InitIInv == Init => IInv
<1> SUFFICES ASSUME Init PROVE IInv
  BY Zenon
<1>1. AbsentJob \in JobRecord /\ JobOK(AbsentJob)
  <2>1. AbsentJob \in JobRecord
    BY NoReportsFacts, NoGraceFacts, Zenon DEF AbsentJob, JobRecord, PendingReason
  <2>2. /\ AbsentJob.state = "Absent" /\ AbsentJob.allocated_nodes = {}
        /\ AbsentJob.node_completions = NoReports
        /\ AbsentJob.preempt_pending = NoGrace
    BY Zenon DEF AbsentJob
  <2> QED BY <2>1, <2>2, NoReportsFacts, NoGraceFacts, StateFacts, Zenon DEF JobOK
<1>2. \A j \in Job : jobs[j] \in JobRecord /\ JobOK(jobs[j])
  BY <1>1, Zenon DEF Init
<1>3. AbsentNode \in NodeRecord /\ AbsentNode.state = "Absent"
  BY Zenon DEF AbsentNode, NodeRecord
<1>4. jobs \in [Job -> JobRecord] /\ nodes \in [Node -> NodeRecord]
  BY <1>2, <1>3, Zenon DEF Init
<1>5. charge \in [Node -> [Job -> Int]] /\ drift \in [Node -> [Job -> Int]]
  BY DEF Init, NothingCharged
<1>6. Registered = {}
  BY <1>3, Zenon DEF Init, Registered
<1>7. NodeStateTellsLoad
  BY <1>3, Zenon DEF Init, NodeStateTellsLoad, Up
<1> QED BY <1>2, <1>4, <1>5, <1>6, <1>7, Zenon DEF IInv, TypeOK, ChargeAccounted

\* Every entry the log may hold preserves the invariant when it applies.
LEMMA ApplyIInv ==
  ASSUME IInv, NEW op \in Entry, Admissible(op), Apply(op)
  PROVE  IInv'
<1> USE EntryTypes
<1>1. CASE op.kind = "JobSubmit" /\ JobSubmit(op)
  BY <1>1, JobSubmitPreserves, Zenon
<1>2. CASE op.kind = "JobStart" /\ JobStart(op)
  BY <1>2, JobStartPreserves, Zenon
<1>3. CASE op.kind = "JobStateChange" /\ JobStateChange(op)
  BY <1>3, JobStateChangePreserves, Zenon
<1>4. CASE op.kind = "JobDispatchBackoff" /\ JobDispatchBackoff(op)
  BY <1>4, JobDispatchBackoffPreserves, Zenon
<1>5. CASE op.kind = "JobPreemptRequeue" /\ JobPreemptRequeue(op)
  BY <1>5, JobPreemptRequeuePreserves, Zenon
<1>6. CASE op.kind = "JobUserRequeue" /\ JobUserRequeue(op)
  BY <1>6, JobUserRequeuePreserves, Zenon
<1>7. CASE op.kind = "JobPreemptCancel" /\ JobPreemptCancel(op)
  BY <1>7, JobPreemptCancelPreserves, Zenon
<1>8. CASE op.kind = "JobSuspend" /\ JobSuspend(op)
  BY <1>8, JobSuspendPreserves, Zenon
<1>9. CASE op.kind = "JobResume" /\ JobResume(op)
  BY <1>9, JobResumePreserves, Zenon
<1>10. CASE op.kind = "JobEvict" /\ JobEvict(op)
  BY <1>10, JobEvictPreserves, Zenon
<1>11. CASE op.kind = "JobNodeComplete" /\ JobNodeComplete(op)
  BY <1>11, JobNodeCompletePreserves, Zenon
<1>12. CASE op.kind = "JobCancelSignaled" /\ JobCancelSignaled(op)
  BY <1>12, JobCancelSignaledPreserves, Zenon
<1>13. CASE op.kind = "JobTimeLimitExpired" /\ JobTimeLimitExpired(op)
  BY <1>13, JobTimeLimitExpiredPreserves, Zenon
<1>14. CASE op.kind = "JobPreemptSignaled" /\ JobPreemptSignaled(op)
  BY <1>14, JobPreemptSignaledPreserves, Zenon
<1>15. CASE op.kind = "JobComplete" /\ JobComplete(op)
  BY <1>15, JobCompletePreserves, Zenon
<1>16. CASE op.kind = "JobExcludeUpdate" /\ JobExcludeUpdate(op)
  BY <1>16, JobExcludeUpdatePreserves, Zenon
<1>17. CASE op.kind = "JobPriorityChange" /\ JobPriorityChange(op)
  BY <1>17, JobPriorityChangePreserves, Zenon
<1>18. CASE op.kind = "NodeRegister" /\ NodeRegister(op)
  BY <1>18, NodeRegisterPreserves, Zenon
<1>19. CASE op.kind = "NodeStateChange" /\ NodeStateChange(op)
  BY <1>19, NodeStateChangePreserves, Zenon
<1>20. CASE op.kind = "NodeRemove" /\ NodeRemove(op)
  BY <1>20, NodeRemovePreserves, Zenon
<1>21. CASE op.kind = "EvictTerminalJobs" /\ EvictTerminalJobs(op)
  BY <1>21, EvictTerminalJobsPreserves, Zenon
<1> QED BY Zenon, <1>1, <1>2, <1>3, <1>4, <1>5, <1>6, <1>7, <1>8, <1>9, <1>10,
           <1>11, <1>12, <1>13, <1>14, <1>15, <1>16, <1>17, <1>18, <1>19, <1>20,
           <1>21 DEF Apply

\* Every step of the machine preserves the invariant.
LEMMA NextIInv == IInv /\ [Next]_vars => IInv'
BY ApplyIInv, Stutter, Zenon DEF Next

\* The inductive invariant holds of every reachable state.
THEOREM Invariance == Spec => []IInv
BY InitIInv, NextIInv, PTL DEF Spec

-----------------------------------------------------------------------------
(* What it implies.                                                        *)

\* Every variable keeps its type.
THEOREM TypeCorrect == Spec => []TypeOK
<1>1. IInv => TypeOK
  BY Zenon DEF IInv
<1> QED BY <1>1, Invariance, PTL

\* Node accounting is exact in every order of entries: what a registered node is
\* charged for a job is the slice the job's record accounts for, up to the two
\* named corrections.
THEOREM AccountingExact == Spec => []ChargeAccounted
<1>1. IInv => ChargeAccounted
  BY Zenon DEF IInv
<1> QED BY <1>1, Invariance, PTL

\* No live run is left waiting for nobody: the last report of its placement ends
\* it.
THEOREM LastReportEnds == Spec => []LastReportEndsRun
<1>1. IInv => LastReportEndsRun
  BY Zenon DEF IInv, JobOK, LastReportEndsRun
<1> QED BY <1>1, Invariance, PTL

\* A preemption grace never outlives the Running state of the run it names.
THEOREM GraceIsRunning == Spec => []GraceOnlyWhileRunning
<1>1. ASSUME IInv, NEW j \in Job, preempt_grace(jobs[j])
      PROVE  jobs[j].state = "Running"
  <2>1. jobs[j] \in JobRecord /\ JobOK(jobs[j])
    BY <1>1, RecordOK, Zenon
  <2>2. jobs[j].preempt_pending.run_attempt \in Nat /\ jobs[j].run_attempt \in Nat
    BY <2>1, Zenon DEF JobRecord, PreemptPending
  <2> QED BY <1>1, <2>1, <2>2 DEF JobOK, preempt_grace
<1>2. IInv => GraceOnlyWhileRunning
  BY <1>1, Zenon DEF GraceOnlyWhileRunning
<1> QED BY <1>2, Invariance, PTL

\* The state of a node always tells its load, also when a drain is applied after
\* the last slice was freed.
THEOREM NodeStateSound == Spec => []NodeStateTellsLoad
<1>1. IInv => NodeStateTellsLoad
  BY Zenon DEF IInv
<1> QED BY <1>1, Invariance, PTL

(***************************************************************************)
(* What no step may do to a job record: the two action properties.         *)
(***************************************************************************)
\* What a step may make of the record old: its placement is not swapped for
\* another and its verdict is not replaced.
Kept(old, new) ==
  /\ \/ old.allocated_nodes = {}
     \/ new.allocated_nodes \in {{}, old.allocated_nodes}
  /\ old.state \in Terminal => new.state \in {old.state, "Pending", "Gone"}

\* A step that replaces one record keeps the others as they are.
LEMMA SetJobKeeps ==
  ASSUME IInv, NEW i \in Job, NEW job, NEW freed,
         SetJob(i, job, freed), Kept(jobs[i], job)
  PROVE  \A j \in Job : Kept(jobs[j], jobs'[j])
BY Zenon DEF SetJob, IInv, TypeOK, Kept

\* An arm that refuses its entry keeps every record.
LEMMA StutterKeeps ==
  ASSUME UNCHANGED vars
  PROVE  \A j \in Job : Kept(jobs[j], jobs'[j])
BY Zenon DEF vars, Kept

\* Every requeue leaves a record without a placement.
LEMMA RependKeeps ==
  ASSUME NEW job \in JobRecord
  PROVE  /\ clear_run_state_for_requeue(job).allocated_nodes = {}
         /\ reset_job_for_requeue(job).allocated_nodes = {}
         /\ Kept(job, repend_after_preemption(job))
<1> DEFINE c == clear_run_state_for_requeue(job)
<1>1. c \in JobRecord /\ c.allocated_nodes = {}
  BY ClearFacts, Zenon
<1>2. repend_after_preemption(job)
        = [c EXCEPT !.state = "Pending", !.preempt_mode = "Requeue"]
  BY Zenon DEF repend_after_preemption
<1> HIDE DEF c
<1>3. /\ repend_after_preemption(job).allocated_nodes = {}
      /\ repend_after_preemption(job).state = "Pending"
  BY <1>1, <1>2, Zenon DEF JobRecord
<1> QED BY <1>1, <1>3, ResetFacts, Zenon DEF Kept, c

\* A report, a signal of the end and an eviction leave the placement on record,
\* unless they requeue the job.
LEMMA RunKeeps ==
  ASSUME NEW job \in JobRecord, job.state \notin Terminal, NEW warned
  PROVE  /\ Kept(job, begin_completing(job))
         /\ Kept(job, evict_job_locked(job))
         /\ Kept(job, advance_after_node_report(job, warned))
<1>1. Kept(job, begin_completing(job))
  BY Zenon DEF begin_completing, Kept, JobRecord
<1>2. Kept(job, evict_job_locked(job))
  BY Zenon DEF evict_job_locked, Kept, JobRecord
<1>3. Kept(job, advance_after_node_report(job, warned))
  <2> DEFINE ending == adopt_grace_provenance(job)
  <2>1. ending \in JobRecord /\ ending.allocated_nodes = job.allocated_nodes
    BY AdoptFacts, Zenon
  <2> HIDE DEF ending
  <2>2. /\ Kept(job, job)
        /\ Kept(job, finalize_reported_run(job))
        /\ Kept(job, finalize_reported_run(ending))
        /\ Kept(job, [job EXCEPT !.state = "Completing"])
        /\ Kept(job, [ending EXCEPT !.state = "Completing"])
    BY <2>1, Zenon DEF finalize_reported_run, Kept, JobRecord
  <2>3. Kept(job, repend_after_preemption(job))
    BY RependKeeps, Zenon
  <2> HIDE DEF Kept
  <2> QED BY <2>2, <2>3, Zenon DEF advance_after_node_report, ending
<1> QED BY <1>1, <1>2, <1>3, Zenon

\* Every arm keeps the placements and the verdicts.
LEMMA ApplyKeeps ==
  ASSUME IInv, NEW op \in Entry, Admissible(op), Apply(op)
  PROVE  \A j \in Job : Kept(jobs[j], jobs'[j])
<1> DEFINE job  == jobs[op.job]
           Goal == \A j \in Job : Kept(jobs[j], jobs'[j])
<1>0. op.kind \notin {"NodeRegister", "NodeStateChange", "NodeRemove"}
        => op.job \in Job /\ job \in JobRecord /\ JobOK(job)
  BY EntryTypes, RecordOK, Zenon
<1>1. ASSUME NEW new, NEW freed,
             op.kind \notin {"NodeRegister", "NodeStateChange", "NodeRemove"},
             SetJob(op.job, new, freed), Kept(job, new)
      PROVE  Goal
  BY <1>0, <1>1, SetJobKeeps, Zenon
<1>2. UNCHANGED vars => Goal
  BY StutterKeeps, Zenon
<1>3. Terminal \cap ({"Pending", "Absent"} \cup Active) = {}
  BY Zenon DEF Terminal, Active
<1> SUFFICES Goal
  BY Zenon
<1> HIDE DEF Goal
<1>4. CASE op.kind = "JobSubmit" /\ JobSubmit(op)
  <2> DEFINE new == [AbsentJob EXCEPT !.state = "Pending"]
  <2>1. Kept(job, new)
    BY <1>3, <1>4, Zenon DEF JobSubmit, Kept, AbsentJob
  <2>2. SetJob(op.job, new, {})
    BY <1>4, Zenon DEF JobSubmit
  <2> HIDE DEF new
  <2> QED BY <1>1, <1>4, <2>1, <2>2, Zenon
<1>5. CASE op.kind = "JobStart" /\ JobStart(op)
  <2>1. CASE holds_a_placement(job) \/ job.exclude \cap op.nodes # {}
    BY <1>2, <1>5, <2>1, Zenon DEF JobStart
  <2>2. CASE ~(holds_a_placement(job) \/ job.exclude \cap op.nodes # {})
    <3>1. job.allocated_nodes = {}
      BY <1>0, <1>5, <2>2, NoReportsFacts, Zenon DEF JobOK, holds_a_placement, held_nodes
    <3>2. CASE job.state \notin JobState
      BY <1>5, <2>2, <3>2, Zenon DEF JobStart, Goal, Kept
    <3>3. CASE job.state \in JobState
      <4> DEFINE run == IF job.run_attempt < op.run_attempt
                        THEN op.run_attempt ELSE job.run_attempt
                 new == [job EXCEPT !.allocated_nodes = op.nodes, !.run_attempt = run,
                                    !.preempt_mode = "None", !.pending_reason = "Other"]
      <4>1. jobs' = [jobs EXCEPT ![op.job] = new]
        BY <1>5, <2>2, <3>3, Zenon DEF JobStart
      <4>2. new.state = job.state
        BY <1>0, <1>5, Zenon DEF JobRecord
      <4> HIDE DEF new, run
      <4>3. Kept(job, new)
        BY <3>1, <4>2, Zenon DEF Kept
      <4>4. jobs'[op.job] = new /\ \A j \in Job \ {op.job} : jobs'[j] = jobs[j]
        BY <1>0, <1>5, <4>1, Zenon DEF IInv, TypeOK
      <4> QED BY <4>3, <4>4, Zenon DEF Goal, Kept
    <3> QED BY <3>2, <3>3, Zenon
  <2> QED BY <2>1, <2>2, Zenon
<1>6. CASE op.kind = "JobStateChange" /\ JobStateChange(op)
  <2> DEFINE reset == IF job.requeue_count < MaxBatchRequeue
                      THEN reset_job_for_requeue(job)
                      ELSE clear_run_state_for_requeue(job)
             back  == [reset EXCEPT !.state = "Pending", !.pending_reason = op.reason]
             run   == [job EXCEPT !.state = op.new_state]
  <2>1. job \in JobRecord /\ op.new_state \in {"Pending", "Running"}
    BY <1>0, <1>6, EntryTypes, Zenon
  <2>2. reset \in JobRecord /\ reset.allocated_nodes = {}
    BY <2>1, ClearFacts, ResetFacts, Zenon
  <2>3. \/ UNCHANGED vars
        \/ SetJob(op.job, back, {})
        \/ LegalTransition(job.state, "Running") /\ SetJob(op.job, run, {})
    BY <1>6, <2>1, Zenon DEF JobStateChange
  <2>4. LegalTransition(job.state, "Running") => job.state \notin Terminal
    BY Zenon DEF LegalTransition, Terminal
  <2> HIDE DEF reset
  <2>5. Kept(job, back)
    BY <2>2, Zenon DEF Kept, JobRecord
  <2>6. LegalTransition(job.state, "Running") => Kept(job, run)
    BY <2>1, <2>4, Zenon DEF Kept, JobRecord
  <2> HIDE DEF back, run
  <2> QED BY <1>1, <1>2, <1>6, <2>3, <2>5, <2>6, Zenon
<1>7. CASE op.kind = "JobDispatchBackoff" /\ JobDispatchBackoff(op)
  <2> DEFINE run    == IF op.run_attempt > job.run_attempt
                       THEN op.run_attempt ELSE job.run_attempt
             reset  == IF op.at_max_requeue \/ op.spare_requeue_budget
                       THEN clear_run_state_for_requeue(job)
                       ELSE reset_job_for_requeue(job)
             reason == IF op.at_max_requeue THEN "JobHoldMaxRequeue" ELSE "Other"
             new    == [reset EXCEPT !.run_attempt = run, !.pending_reason = reason]
  <2>1. job \in JobRecord /\ op.job \in Job
    BY <1>0, <1>7, Zenon
  <2>2. \/ UNCHANGED vars
        \/ job.state = "Pending" /\ SetJob(op.job, new, job.allocated_nodes)
    BY <1>7, Zenon DEF JobDispatchBackoff
  <2>3. reset \in JobRecord /\ reset.allocated_nodes = {}
    BY <2>1, ClearFacts, ResetFacts, Zenon
  <2> HIDE DEF reset
  <2>4. job.state = "Pending" => Kept(job, new)
    BY <1>3, <2>3, Zenon DEF Kept, JobRecord
  <2> HIDE DEF new
  <2> QED BY <1>1, <1>2, <1>7, <2>2, <2>4, Zenon
<1>8. CASE op.kind = "JobPreemptRequeue" /\ JobPreemptRequeue(op)
  <2>1. Kept(job, repend_after_preemption(job))
    BY <1>0, <1>8, RependKeeps, Zenon
  <2>2. \/ UNCHANGED vars
        \/ SetJob(op.job, repend_after_preemption(job), held_nodes(job))
    BY <1>8, Zenon DEF JobPreemptRequeue
  <2> QED BY <1>1, <1>2, <1>8, <2>1, <2>2, Zenon
<1>9. CASE op.kind = "JobUserRequeue" /\ JobUserRequeue(op)
  <2> DEFINE c      == clear_run_state_for_requeue(job)
             reason == IF op.hold THEN "Held" ELSE "Other"
             new    == [c EXCEPT !.state = "Pending", !.pending_reason = reason]
             freed  == IF job.state \in Terminal THEN {} ELSE held_nodes(job)
  <2>1. c \in JobRecord /\ c.allocated_nodes = {}
    BY <1>0, <1>9, ClearFacts, Zenon
  <2>2. UNCHANGED vars \/ SetJob(op.job, new, freed)
    BY <1>9, Zenon DEF JobUserRequeue
  <2> HIDE DEF c
  <2>3. Kept(job, new)
    BY <2>1, Zenon DEF Kept, JobRecord
  <2> HIDE DEF new, freed
  <2> QED BY <1>1, <1>2, <1>9, <2>2, <2>3, Zenon
<1>10. CASE op.kind = "JobEvict" /\ JobEvict(op)
  <2>1. LegalTransition(job.state, evicted_state(job)) => job.state \notin Terminal
    BY Zenon DEF LegalTransition, evicted_state, Terminal
  <2>2. job.state \notin Terminal => Kept(job, evict_job_locked(job))
    BY <1>0, <1>10, RunKeeps, Zenon
  <2>3. \/ UNCHANGED vars
        \/ /\ LegalTransition(job.state, evicted_state(job))
           /\ SetJob(op.job, evict_job_locked(job), held_nodes(job))
    BY <1>10, Zenon DEF JobEvict
  <2> QED BY <1>1, <1>2, <1>10, <2>1, <2>2, <2>3, Zenon
<1>11. CASE op.kind = "JobPreemptCancel" /\ JobPreemptCancel(op)
  <2> DEFINE new == [job EXCEPT !.state = IF job.allocated_nodes # {}
                                          THEN "Completing" ELSE "Cancelled",
                                !.preempt_mode     = "Cancel",
                                !.cancel_signaled  = TRUE,
                                !.preempt_pending  = NoGrace,
                                !.node_completions = IF job.allocated_nodes # {}
                                                     THEN @ ELSE NoReports]
  <2>1. \/ UNCHANGED vars
        \/ job.state = "Running" /\ SetJob(op.job, new, {})
    BY <1>11, Zenon DEF JobPreemptCancel
  <2>2. job.state = "Running" => Kept(job, new)
    BY <1>0, <1>3, <1>11, Zenon DEF Kept, JobRecord, Active
  <2> HIDE DEF new
  <2> QED BY <1>1, <1>2, <1>11, <2>1, <2>2, Zenon
<1>12. CASE op.kind = "JobSuspend" /\ JobSuspend(op)
  <2> DEFINE new == [job EXCEPT !.state = "Suspended",
                                !.preempt_mode = IF op.preempt THEN "Suspend" ELSE @]
  <2>1. \/ UNCHANGED vars
        \/ LegalTransition(job.state, "Suspended") /\ SetJob(op.job, new, {})
    BY <1>12, Zenon DEF JobSuspend
  <2>2. LegalTransition(job.state, "Suspended") => job.state \notin Terminal
    BY Zenon DEF LegalTransition, Terminal
  <2>3. job.state \notin Terminal => Kept(job, new)
    BY <1>0, <1>12, Zenon DEF Kept, JobRecord
  <2> HIDE DEF new
  <2> QED BY <1>1, <1>2, <1>12, <2>1, <2>2, <2>3, Zenon
<1>13. CASE op.kind = "JobResume" /\ JobResume(op)
  <2> DEFINE new == [job EXCEPT !.state = "Running", !.preempt_mode = "None",
                                !.preempt_pending = NoGrace]
  <2>1. \/ UNCHANGED vars
        \/ LegalTransition(job.state, "Running") /\ SetJob(op.job, new, {})
    BY <1>13, Zenon DEF JobResume
  <2>2. LegalTransition(job.state, "Running") => job.state \notin Terminal
    BY Zenon DEF LegalTransition, Terminal
  <2>3. job.state \notin Terminal => Kept(job, new)
    BY <1>0, <1>13, Zenon DEF Kept, JobRecord
  <2> HIDE DEF new
  <2> QED BY <1>1, <1>2, <1>13, <2>1, <2>2, <2>3, Zenon
<1>14. CASE op.kind = "JobNodeComplete" /\ JobNodeComplete(op)
  <2> DEFINE warned == preempt_grace(job) /\ job.state = "Running"
             rep    == [job EXCEPT !.node_completions[op.node] = op.completion]
             new    == advance_after_node_report(rep, warned)
  <2>1. CASE op.run_attempt < job.run_attempt \/ job.state \notin Active
    BY <1>2, <1>14, <2>1, Zenon DEF JobNodeComplete
  <2>2. CASE ~(op.run_attempt < job.run_attempt) /\ job.state \in Active
    <3>1. op.node \in job.allocated_nodes /\ op.completion \in Completion
      BY <1>14, <2>2, EntryTypes, Zenon DEF Admissible
    <3>2. PICK freed : SetJob(op.job, new, freed)
      BY <1>14, <2>2, Zenon DEF JobNodeComplete
    <3>3. /\ rep \in JobRecord /\ rep.state = job.state
          /\ rep.allocated_nodes = job.allocated_nodes
      BY <1>0, <1>14, <3>1, Zenon DEF JobRecord
    <3> HIDE DEF rep, warned
    <3>4. Kept(rep, new)
      BY <1>3, <2>2, <3>3, RunKeeps, Zenon
    <3> HIDE DEF new
    <3>5. Kept(job, new)
      BY <3>3, <3>4, Zenon DEF Kept
    <3> QED BY <1>1, <1>14, <3>2, <3>5, Zenon
  <2> QED BY <2>1, <2>2, Zenon
<1>15. CASE op.kind = "JobCancelSignaled" /\ JobCancelSignaled(op)
  <2> DEFINE sig == [job EXCEPT !.cancel_signaled = TRUE, !.preempt_pending = NoGrace]
             new == begin_completing(sig)
  <2>1. \/ UNCHANGED vars
        \/ job.state \in Active /\ SetJob(op.job, new, {})
    BY <1>15, Zenon DEF JobCancelSignaled
  <2>2. /\ sig \in JobRecord /\ sig.state = job.state
        /\ sig.allocated_nodes = job.allocated_nodes
    BY <1>0, <1>15, NoGraceFacts, Zenon DEF JobRecord
  <2> HIDE DEF sig
  <2>3. job.state \in Active => Kept(sig, new)
    BY <1>3, <2>2, RunKeeps, Zenon
  <2> HIDE DEF new
  <2>4. job.state \in Active => Kept(job, new)
    BY <2>2, <2>3, Zenon DEF Kept
  <2> QED BY <1>1, <1>2, <1>15, <2>1, <2>4, Zenon
<1>16. CASE op.kind = "JobTimeLimitExpired" /\ JobTimeLimitExpired(op)
  <2> DEFINE sig == [job EXCEPT !.time_limit_signaled = TRUE, !.cancel_signaled = TRUE]
             new == begin_completing(sig)
  <2>1. \/ UNCHANGED vars
        \/ job.state \in {"Running", "Suspended"} /\ SetJob(op.job, new, {})
    BY <1>16, Zenon DEF JobTimeLimitExpired
  <2>2. /\ sig \in JobRecord /\ sig.state = job.state
        /\ sig.allocated_nodes = job.allocated_nodes
    BY <1>0, <1>16, Zenon DEF JobRecord
  <2> HIDE DEF sig
  <2>3. job.state \in {"Running", "Suspended"} => Kept(sig, new)
    BY <1>3, <2>2, RunKeeps, StateFacts, Zenon
  <2> HIDE DEF new
  <2>4. job.state \in {"Running", "Suspended"} => Kept(job, new)
    BY <2>2, <2>3, Zenon DEF Kept
  <2> QED BY <1>1, <1>2, <1>16, <2>1, <2>4, Zenon
<1>17. CASE op.kind = "JobPreemptSignaled" /\ JobPreemptSignaled(op)
  <2> DEFINE new == [job EXCEPT !.preempt_pending = [run_attempt |-> op.run_attempt,
                                                     mode        |-> op.mode]]
  <2>1. UNCHANGED vars \/ SetJob(op.job, new, {})
    BY <1>17, Zenon DEF JobPreemptSignaled
  <2>2. Kept(job, new)
    BY <1>0, <1>17, Zenon DEF Kept, JobRecord
  <2> HIDE DEF new
  <2> QED BY <1>1, <1>2, <1>17, <2>1, <2>2, Zenon
<1>18. CASE op.kind = "JobComplete" /\ JobComplete(op)
  <2> DEFINE grace  == /\ preempt_grace(job) /\ job.state = "Running"
                       /\ ~op.cancel /\ ~op.controller_initiated
                       /\ op.state # "OutOfMemory"
             ending == IF grace THEN adopt_grace_provenance(job) ELSE job
             state  == IF grace /\ job.preempt_pending.mode = "Cancel"
                       THEN "Cancelled" ELSE op.state
             reason == IF state \in {"Timeout", "OutOfMemory"}
                       THEN "Other" ELSE ending.pending_reason
             over   == [ending EXCEPT !.state = state, !.preempt_pending = NoGrace,
                                      !.node_completions = NoReports,
                                      !.pending_reason = reason]
  <2>1. \/ UNCHANGED vars
        \/ SetJob(op.job, repend_after_preemption(job), held_nodes(job))
        \/ job.state \notin Finalized /\ SetJob(op.job, over, held_nodes(job))
    BY <1>0, <1>18, Zenon DEF JobComplete, JobOK
  <2>2. Kept(job, repend_after_preemption(job))
    BY <1>0, <1>18, RependKeeps, Zenon
  <2>3. ending \in JobRecord /\ ending.allocated_nodes = job.allocated_nodes
    BY <1>0, <1>18, AdoptFacts, Zenon
  <2> HIDE DEF ending, state, reason
  <2>4. job.state \notin Finalized => Kept(job, over)
    BY <2>3, StateFacts, Zenon DEF Kept, JobRecord
  <2> HIDE DEF over
  <2> QED BY <1>1, <1>2, <1>18, <2>1, <2>2, <2>4, Zenon
<1>19. CASE op.kind = "JobExcludeUpdate" /\ JobExcludeUpdate(op)
  <2> DEFINE new == [job EXCEPT !.exclude = op.nodes]
  <2>1. UNCHANGED vars \/ SetJob(op.job, new, {})
    BY <1>19, Zenon DEF JobExcludeUpdate
  <2>2. Kept(job, new)
    BY <1>0, <1>19, Zenon DEF Kept, JobRecord
  <2> HIDE DEF new
  <2> QED BY <1>1, <1>2, <1>19, <2>1, <2>2, Zenon
<1>20. CASE op.kind = "JobPriorityChange" /\ JobPriorityChange(op)
  <2> DEFINE frees == /\ op.reason \in {"Held", "JobHoldMaxRequeue"}
                      /\ job.state = "Pending"
                      /\ op.run_attempt = 0 \/ op.run_attempt >= job.run_attempt
                      /\ holds_a_placement(job)
             count == IF op.reset_requeue_count THEN 0 ELSE job.requeue_count
             run   == IF op.run_attempt > job.run_attempt
                      THEN op.run_attempt ELSE job.run_attempt
             alloc == IF frees THEN {} ELSE job.allocated_nodes
             freed == IF frees THEN job.allocated_nodes ELSE {}
             new   == [job EXCEPT !.pending_reason  = op.reason,
                                  !.run_attempt     = run,
                                  !.requeue_count   = count,
                                  !.allocated_nodes = alloc]
  <2>1. UNCHANGED vars \/ SetJob(op.job, new, freed)
    BY <1>20, Zenon DEF JobPriorityChange
  <2>2. alloc \in {{}, job.allocated_nodes}
    BY Zenon
  <2> HIDE DEF frees, count, run, alloc, freed
  <2>3. Kept(job, new)
    BY <1>0, <1>20, <2>2, Zenon DEF Kept, JobRecord
  <2> HIDE DEF new
  <2> QED BY <1>1, <1>2, <1>20, <2>1, <2>3, Zenon
<1>21. CASE op.kind = "EvictTerminalJobs" /\ EvictTerminalJobs(op)
  <2> DEFINE new == [AbsentJob EXCEPT !.state = "Gone"]
  <2>1. UNCHANGED vars \/ SetJob(op.job, new, {})
    BY <1>21, Zenon DEF EvictTerminalJobs
  <2>2. Kept(job, new)
    BY Zenon DEF Kept, AbsentJob
  <2> HIDE DEF new
  <2> QED BY <1>1, <1>2, <1>21, <2>1, <2>2, Zenon
<1>22. ASSUME NEW node \in Node, jobs' = evict_jobs_on_node(node)
       PROVE  Goal
  <2> SUFFICES ASSUME NEW j \in Job PROVE Kept(jobs[j], jobs'[j])
    BY Zenon DEF Goal
  <2>1. jobs[j] \in JobRecord
    BY RecordOK, Zenon
  <2>2. CASE j \notin TakenDown(node)
    BY <1>22, <2>2, Zenon DEF evict_jobs_on_node, Kept
  <2>3. CASE j \in TakenDown(node) /\ jobs[j].state = "Pending"
    <3>1. jobs'[j] = clear_run_state_for_requeue(jobs[j])
      BY <1>22, <2>3, Zenon DEF evict_jobs_on_node
    <3> QED BY <1>3, <2>1, <2>3, <3>1, RependKeeps, Zenon DEF Kept
  <2>4. CASE j \in TakenDown(node) /\ jobs[j].state # "Pending"
    <3>1. jobs'[j] = evict_job_locked(jobs[j])
      BY <1>22, <2>4, Zenon DEF evict_jobs_on_node
    <3>2. jobs[j].state \notin Terminal
      BY <1>3, <2>4, Zenon DEF TakenDown
    <3> QED BY <2>1, <3>1, <3>2, RunKeeps, Zenon
  <2> QED BY <2>2, <2>3, <2>4, Zenon
<1>23. CASE op.kind = "NodeRegister" /\ NodeRegister(op)
  BY <1>23, Zenon DEF NodeRegister, Goal, Kept
<1>24. CASE op.kind = "NodeStateChange" /\ NodeStateChange(op)
  <2>1. op.node \in Node
    BY <1>24, EntryTypes, Zenon
  <2>2. jobs' = evict_jobs_on_node(op.node) \/ jobs' = jobs
    BY <1>24, Zenon DEF NodeStateChange
  <2>3. jobs' = jobs => Goal
    BY Zenon DEF Goal, Kept
  <2> QED BY <1>22, <2>1, <2>2, <2>3, Zenon
<1>25. CASE op.kind = "NodeRemove" /\ NodeRemove(op)
  <2>1. op.node \in Node /\ jobs' = evict_jobs_on_node(op.node)
    BY <1>25, EntryTypes, Zenon DEF NodeRemove
  <2> QED BY <1>22, <2>1, Zenon
<1> QED BY Zenon, <1>4, <1>5, <1>6, <1>7, <1>8, <1>9, <1>10, <1>11, <1>12, <1>13, <1>14,
           <1>15, <1>16, <1>17, <1>18, <1>19, <1>20, <1>21, <1>23, <1>24, <1>25
    DEF Apply

\* A step keeps every placement and every verdict.
LEMMA StepKeeps ==
  ASSUME IInv, [Next]_vars
  PROVE  \A j \in Job : Kept(jobs[j], jobs'[j])
BY ApplyKeeps, StutterKeeps, Zenon DEF Next

\* A job's placement is never swapped for another, so that charge, reports and
\* release of a run always concern the nodes it was started on.
THEOREM PlacementFixed == Spec => PlacementNeverSwapped
<1>1. IInv /\ [Next]_vars =>
        [\A j \in Job : \/ jobs[j].allocated_nodes = {}
                        \/ jobs'[j].allocated_nodes \in {{}, jobs[j].allocated_nodes}]_vars
  BY StepKeeps, Zenon DEF Kept
<1> QED BY <1>1, Invariance, PTL DEF Spec, PlacementNeverSwapped

\* Whatever entry is applied late, a verdict is left only by a requeue or by the
\* purge of old jobs.
THEOREM VerdictFinal == Spec => VerdictIsFinal
<1>1. IInv /\ [Next]_vars =>
        [\A j \in Job : jobs[j].state \in Terminal
                          => jobs'[j].state \in {jobs[j].state, "Pending", "Gone"}]_vars
  BY StepKeeps, Zenon DEF Kept
<1> QED BY <1>1, Invariance, PTL DEF Spec, VerdictIsFinal

=============================================================================
