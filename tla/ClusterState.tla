---------------------------- MODULE ClusterState ----------------------------
(***************************************************************************)
(* The replicated state machine of spurctld: what ClusterManager holds     *)
(* about jobs and nodes, and what apply_operation (cluster.rs) does to it  *)
(* for each committed WalOperation.  Every replica applies the same        *)
(* entries in the same order, so one copy of the state stands for all.     *)
(*                                                                         *)
(* Each apply arm is one action, total in its entry: an entry the arm      *)
(* refuses is consumed and changes nothing.  The specification at the end  *)
(* feeds the machine every entry the log may carry; Controller.tla feeds   *)
(* it the entries the leader's handlers really propose.                    *)
(*                                                                         *)
(* A node's alloc_resources is the sum of the slices charged to it.        *)
(* charge[n][j] is job j's share of that sum, counted in slices: 1 while   *)
(* the slice is charged, 0 when it is not, anything else is an accounting  *)
(* error (the code's saturating subtraction would silently take the excess *)
(* out of the other jobs' slices).  Every slice is one cpu.  A node that   *)
(* is no key of ClusterManager.nodes is "Absent" and is charged nothing.   *)
(***************************************************************************)
EXTENDS JobStates, Integers, Functions

CONSTANTS Cpus,              \* cpus of a node
          MaxBatchRequeue,   \* controller.max_batch_requeue
          MaxAttempt,        \* bound: run epochs the explored entries name
          Kinds              \* bound: kinds of entry that are explored

ASSUME BoundsAreNatural ==
  Cpus \in Nat /\ MaxBatchRequeue \in Nat /\ MaxAttempt \in Nat

VARIABLES jobs,      \* job id -> job record
          nodes,     \* node -> its state and admin lock
          charge,    \* node -> job -> slices in alloc_resources
          drift      \* history: slices charged to a job that was already over,
                     \* less slices held since before the node (re)registered

vars == <<jobs, nodes, charge, drift>>

-----------------------------------------------------------------------------
(* Job records.                                                            *)

NoGrace == [run_attempt |-> 0, mode |-> "None"]

PreemptPending == [run_attempt : Nat, mode : {"None", "Cancel", "Requeue"}]

\* is_scheduling_hold tells the first two reasons from all the others.
PendingReason == {"Held", "JobHoldMaxRequeue", "Other"}

JobRecord ==
  [state               : JobState \cup {"Absent", "Gone"},
   run_attempt         : Nat,
   allocated_nodes     : SUBSET Node,
   node_completions    : [Node -> Completion \cup {"Unreported"}],
   cancel_signaled     : BOOLEAN,
   time_limit_signaled : BOOLEAN,
   preempt_mode        : {"None", "Cancel", "Requeue", "Suspend"},
   preempt_pending     : PreemptPending,
   requeue_count       : Nat,
   pending_reason      : PendingReason,
   exclude             : SUBSET Node]

AbsentJob ==
  [state               |-> "Absent",
   run_attempt         |-> 0,
   allocated_nodes     |-> {},
   node_completions    |-> NoReports,
   cancel_signaled     |-> FALSE,
   time_limit_signaled |-> FALSE,
   preempt_mode        |-> "None",
   preempt_pending     |-> NoGrace,
   requeue_count       |-> 0,
   pending_reason      |-> "Other",
   exclude             |-> {}]

held_nodes(job) == job.allocated_nodes \ Reported(job.node_completions)

holds_a_placement(job) == held_nodes(job) # {}

all_nodes_completed(job) ==
  /\ job.allocated_nodes # {}
  /\ Cardinality(Reported(job.node_completions)) = Cardinality(job.allocated_nodes)

preempt_grace(job) ==
  /\ job.preempt_pending.mode # "None"
  /\ job.preempt_pending.run_attempt = job.run_attempt

-----------------------------------------------------------------------------
(* How a run ends.                                                         *)

completion_verdict(job) ==
  IF reported_oom(job.node_completions) THEN "OutOfMemory"
  ELSE IF job.time_limit_signaled THEN "Timeout"
  ELSE IF job.cancel_signaled THEN "Cancelled"
  ELSE derived_completion(job.node_completions, job.allocated_nodes)

clear_run_state_for_requeue(job) ==
  [job EXCEPT !.allocated_nodes     = {},
              !.node_completions    = NoReports,
              !.time_limit_signaled = FALSE,
              !.cancel_signaled     = FALSE,
              !.preempt_pending     = NoGrace,
              !.pending_reason      = "Other"]

\* Mutant: the requeue is taken off the count.
reset_job_for_requeue_Down(job) ==
  [clear_run_state_for_requeue(job) EXCEPT !.requeue_count = @ - 1]

reset_job_for_requeue(job) ==
  [clear_run_state_for_requeue(job) EXCEPT !.requeue_count = @ + 1]

\* Running -> Preempted -> Pending in one step; the grace modes reach it only
\* from Running.
repend_after_preemption(job) ==
  [clear_run_state_for_requeue(job) EXCEPT !.state        = "Pending",
                                           !.preempt_mode = "Requeue"]

\* Mutant: the grace is kept.
begin_completing_InGrace(job) ==
  IF job.state \in {"Running", "Suspended"} /\ job.allocated_nodes # {}
  THEN [job EXCEPT !.state = "Completing"]
  ELSE job

begin_completing(job) ==
  IF job.state \in {"Running", "Suspended"} /\ job.allocated_nodes # {}
  THEN [job EXCEPT !.state = "Completing", !.preempt_pending = NoGrace]
  ELSE job

adopt_grace_provenance(job) ==
  IF job.preempt_pending.mode = "Cancel"
  THEN [job EXCEPT !.preempt_mode = "Cancel", !.cancel_signaled = TRUE]
  ELSE [job EXCEPT !.preempt_mode = "Requeue"]

finalize_reported_run(job) ==
  [job EXCEPT !.state            = completion_verdict(job),
              !.preempt_pending  = NoGrace,
              !.node_completions = NoReports,
              !.pending_reason   = "Other"]

\* Mutant: a warned victim always waits for its deadline.
advance_after_node_report_Waiting(job, warned) ==
  IF warned THEN job
  ELSE IF all_nodes_completed(job) THEN finalize_reported_run(job)
  ELSE [job EXCEPT !.state = "Completing"]

\* A report moves the run to Completing and, when it is the last, to its
\* verdict.  A victim in its grace stays Running until the last report, which
\* ends it as the preemption it was warned of unless a node ran out of memory.
advance_after_node_report(job, warned) ==
  LET last   == all_nodes_completed(job)
      grace  == warned /\ ~(last /\ reported_oom(job.node_completions))
      ending == IF grace THEN adopt_grace_provenance(job) ELSE job
  IN  IF grace /\ ~last THEN job
      ELSE IF grace /\ job.preempt_pending.mode = "Requeue"
           THEN repend_after_preemption(job)
      ELSE IF last THEN finalize_reported_run(ending)
      ELSE [ending EXCEPT !.state = "Completing"]

\* The state an evicted run ends in: a signalled run keeps its verdict.
evicted_state(job) ==
  IF ~job.cancel_signaled THEN "NodeFail"
  ELSE IF job.time_limit_signaled THEN "Timeout"
  ELSE "Cancelled"

evict_job_locked(job) ==
  [job EXCEPT !.state            = evicted_state(job),
              !.preempt_pending  = NoGrace,
              !.node_completions = NoReports,
              !.pending_reason   = IF evicted_state(job) = "Cancelled"
                                   THEN @ ELSE "Other"]

-----------------------------------------------------------------------------
(* Node records and the slices charged to a node.                          *)

NodeRecord == [state : NodeState \cup {"Absent"}, admin_locked : BOOLEAN]

AbsentNode == [state |-> "Absent", admin_locked |-> FALSE]

Registered == {n \in Node : nodes[n].state # "Absent"}

alloc_cpus(slices) ==
  LET sum == SumFunction(slices)
  IN  IF (\A j \in Job : slices[j] = 0) \/ sum < 0 THEN 0 ELSE sum

update_state_from_alloc(state, slices) ==
  CASE state = "Draining" -> IF alloc_cpus(slices) = 0 THEN "Drain" ELSE state
    [] state # "Draining" /\ state \in AdminHold -> state
    [] OTHER -> IF alloc_cpus(slices) = 0 THEN "Idle"
                ELSE IF alloc_cpus(slices) >= Cpus THEN "Allocated"
                ELSE "Mixed"

\* The nodes after their slices became c, the registered ones in touched
\* re-deriving their state.
Refreshed(ns, c, touched) ==
  [n \in Node |-> IF n \in touched \cap Registered
                  THEN [ns[n] EXCEPT !.state = update_state_from_alloc(@, c[n])]
                  ELSE ns[n]]

Discharged(freed) ==
  [n \in Node |-> [j \in Job |-> IF n \in freed[j] \cap Registered
                                   THEN charge[n][j] - 1 ELSE charge[n][j]]]

Touched(freed) == {n \in Node : \E j \in Job : n \in freed[j]}

\* Free one slice of every job j on each node of freed[j], starting from the
\* node records ns.
deallocate_job_slices(ns, freed) ==
  /\ charge' = Discharged(freed)
  /\ nodes' = Refreshed(ns, Discharged(freed), Touched(freed))
  /\ UNCHANGED drift

Only(j, S) == [i \in Job |-> IF i = j THEN S ELSE {}]

\* Job j becomes job, and the slices it holds on freed are returned.
SetJob(j, job, freed) ==
  /\ jobs' = [jobs EXCEPT ![j] = job]
  /\ deallocate_job_slices(nodes, Only(j, freed))

-----------------------------------------------------------------------------
(* apply_operation, one action per arm.  An entry is a record: its kind,   *)
(* the job or node it names, and the fields the arm reads.  An optional    *)
(* run_attempt that is None is 0, which names no run.                      *)

JobSubmit(op) ==
  /\ jobs[op.job].state = "Absent"      \* ids are issued once
  /\ SetJob(op.job, [AbsentJob EXCEPT !.state = "Pending"], {})

\* Mutant: the job's placement is not looked at.
JobStart_Ungated(op) ==
  LET job     == jobs[op.job]
      charged == [n \in Node |-> [charge[n] EXCEPT ![op.job] =
                                    IF n \in op.nodes \cap Registered THEN @ + 1 ELSE @]]
  IN  IF job.exclude \cap op.nodes # {} \/ job.state \notin JobState
      THEN UNCHANGED vars
      ELSE /\ jobs' = [jobs EXCEPT ![op.job].allocated_nodes = op.nodes,
                                   ![op.job].run_attempt = op.run_attempt]
           /\ charge' = charged
           /\ nodes' = Refreshed(nodes, charged, op.nodes)
           /\ UNCHANGED drift

\* Charges a placement.  Gated on the job holding no placement and excluding
\* none of the nodes, not on its state.
JobStart(op) ==
  LET job  == jobs[op.job]
      run  == IF job.run_attempt < op.run_attempt
              THEN op.run_attempt ELSE job.run_attempt
      over == job.state \notin {"Pending"} \cup Active
      charged == [n \in Node |-> [charge[n] EXCEPT ![op.job] =
                                    IF n \in op.nodes \cap Registered THEN @ + 1 ELSE @]]
  IN  IF holds_a_placement(job) \/ job.exclude \cap op.nodes # {}
      THEN UNCHANGED vars
      ELSE /\ jobs' = IF job.state \notin JobState THEN jobs
                      ELSE [jobs EXCEPT ![op.job] =
                              [job EXCEPT !.allocated_nodes = op.nodes,
                                          !.run_attempt     = run,
                                          !.preempt_mode    = "None",
                                          !.pending_reason  = "Other"]]
           /\ charge' = charged
           /\ nodes' = Refreshed(nodes, charged, op.nodes)
           /\ drift' = [n \in Node |-> [drift[n] EXCEPT ![op.job] =
                          IF over /\ n \in op.nodes \cap Registered
                          THEN @ + 1 ELSE @]]

\* Mutant: the entry is not tied to the reservation it was decided for.
JobStateChange_Unfenced(op) ==
  LET job   == jobs[op.job]
      reset == IF job.requeue_count < MaxBatchRequeue
               THEN reset_job_for_requeue(job)
               ELSE clear_run_state_for_requeue(job)
  IN  IF ~LegalTransition(job.state, op.new_state)
      THEN UNCHANGED vars
      ELSE IF op.new_state = "Pending"
      THEN SetJob(op.job, [reset EXCEPT !.state = "Pending",
                                        !.pending_reason = op.reason], {})
      ELSE SetJob(op.job, [job EXCEPT !.state = op.new_state], {})

\* Activation of a reserved job (new_state Running, naming its epoch) or the
\* automatic requeue of a failed one (new_state Pending).
JobStateChange(op) ==
  LET job   == jobs[op.job]
      stale == /\ op.run_attempt # 0
               /\ op.run_attempt # job.run_attempt \/ ~holds_a_placement(job)
      reset == IF job.requeue_count < MaxBatchRequeue
               THEN reset_job_for_requeue(job)
               ELSE clear_run_state_for_requeue(job)
  IN  IF stale \/ ~LegalTransition(job.state, op.new_state)
      THEN UNCHANGED vars
      ELSE IF op.new_state = "Pending"
      THEN SetJob(op.job, [reset EXCEPT !.state = "Pending",
                                        !.pending_reason = op.reason], {})
      ELSE SetJob(op.job, [job EXCEPT !.state = op.new_state], {})

\* Gives up a reservation that was not activated.
JobDispatchBackoff(op) ==
  LET job == jobs[op.job]
      run == IF op.run_attempt > job.run_attempt
             THEN op.run_attempt ELSE job.run_attempt
      reset == IF op.at_max_requeue \/ op.spare_requeue_budget
               THEN clear_run_state_for_requeue(job)
               ELSE reset_job_for_requeue(job)
  IN  IF job.state # "Pending" \/ op.run_attempt < job.run_attempt
      THEN UNCHANGED vars
      ELSE SetJob(op.job,
                  [reset EXCEPT !.run_attempt    = run,
                                !.pending_reason = IF op.at_max_requeue
                                                   THEN "JobHoldMaxRequeue"
                                                   ELSE "Other"],
                  job.allocated_nodes)

JobPreemptRequeue(op) ==
  LET job == jobs[op.job]
  IN  IF job.state # "Running" \/ op.run_attempt # job.run_attempt
      THEN UNCHANGED vars
      ELSE SetJob(op.job, repend_after_preemption(job), held_nodes(job))

\* A live run is ended and its slices freed; a finished one was freed before.
JobUserRequeue(op) ==
  LET job    == jobs[op.job]
      reason == IF op.hold THEN "Held" ELSE "Other"
  IN  IF ~MayRequeueToPending(job.state)
      THEN UNCHANGED vars
      ELSE SetJob(op.job,
                  [clear_run_state_for_requeue(job) EXCEPT
                     !.state = "Pending", !.pending_reason = reason],
                  IF job.state \in Terminal THEN {} ELSE held_nodes(job))

\* Running -> Preempted, then Completing while there are nodes to wait for.
JobPreemptCancel(op) ==
  LET job == jobs[op.job]
  IN  IF job.state # "Running" \/ op.run_attempt # job.run_attempt
      THEN UNCHANGED vars
      ELSE SetJob(op.job,
                  [job EXCEPT !.state = IF job.allocated_nodes # {}
                                        THEN "Completing" ELSE "Cancelled",
                              !.preempt_mode     = "Cancel",
                              !.cancel_signaled  = TRUE,
                              !.preempt_pending  = NoGrace,
                              !.node_completions = IF job.allocated_nodes # {}
                                                   THEN @ ELSE NoReports],
                  {})

JobSuspend(op) ==
  LET job == jobs[op.job]
  IN  IF preempt_grace(job) \/ ~LegalTransition(job.state, "Suspended")
      THEN UNCHANGED vars
      ELSE SetJob(op.job,
                  [job EXCEPT !.state = "Suspended",
                              !.preempt_mode = IF op.preempt THEN "Suspend" ELSE @],
                  {})

\* Tests that the move to Running is legal, not that the job is Suspended.
JobResume(op) ==
  LET job == jobs[op.job]
  IN  IF ~LegalTransition(job.state, "Running")
      THEN UNCHANGED vars
      ELSE SetJob(op.job,
                  [job EXCEPT !.state = "Running",
                              !.preempt_mode = "None",
                              !.preempt_pending = NoGrace],
                  {})

JobEvict(op) ==
  LET job == jobs[op.job]
  IN  IF ~LegalTransition(job.state, evicted_state(job))
      THEN UNCHANGED vars
      ELSE SetJob(op.job, evict_job_locked(job), held_nodes(job))

\* Mutant: a repeated report frees the slice again.
JobNodeComplete_Repeated(op) ==
  LET job      == jobs[op.job]
      warned   == preempt_grace(job) /\ job.state = "Running"
      reported == [job EXCEPT !.node_completions[op.node] = op.completion]
  IN  IF op.run_attempt < job.run_attempt \/ job.state \notin Active
      THEN UNCHANGED vars
      ELSE SetJob(op.job, advance_after_node_report(reported, warned),
                  IF job.allocated_nodes # {} THEN {op.node} ELSE {})

\* Mutant: a run that is over still takes reports.
JobNodeComplete_Late(op) ==
  LET job      == jobs[op.job]
      reported == [job EXCEPT !.node_completions[op.node] = op.completion]
  IN  IF op.run_attempt < job.run_attempt
      THEN UNCHANGED vars
      ELSE SetJob(op.job, advance_after_node_report(reported, FALSE), {})

\* A node reports the end of its part of a run: its slice is freed once.
JobNodeComplete(op) ==
  LET job      == jobs[op.job]
      warned   == preempt_grace(job) /\ job.state = "Running"
      freed    == {op.node} \ Reported(job.node_completions)
      reported == [job EXCEPT !.node_completions[op.node] = op.completion]
  IN  IF op.run_attempt < job.run_attempt \/ job.state \notin Active
      THEN UNCHANGED vars
      ELSE SetJob(op.job, advance_after_node_report(reported, warned),
                  IF job.allocated_nodes # {} THEN freed ELSE {})

\* Mutant: the slices are freed when the cancel is signalled, not when the nodes
\* report.
JobCancelSignaled_Eager(op) ==
  LET job == jobs[op.job]
  IN  IF job.state \notin Active
      THEN UNCHANGED vars
      ELSE SetJob(op.job,
                  begin_completing([job EXCEPT !.cancel_signaled = TRUE,
                                               !.preempt_pending = NoGrace]),
                  held_nodes(job))

JobCancelSignaled(op) ==
  LET job == jobs[op.job]
  IN  IF job.state \notin Active
      THEN UNCHANGED vars
      ELSE SetJob(op.job,
                  begin_completing([job EXCEPT !.cancel_signaled = TRUE,
                                               !.preempt_pending = NoGrace]),
                  {})

JobTimeLimitExpired(op) ==
  LET job == jobs[op.job]
  IN  IF job.state \notin {"Running", "Suspended"} \/ op.run_attempt # job.run_attempt
      THEN UNCHANGED vars
      ELSE SetJob(op.job,
                  begin_completing([job EXCEPT !.time_limit_signaled = TRUE,
                                               !.cancel_signaled     = TRUE]),
                  {})

JobPreemptSignaled(op) ==
  LET job == jobs[op.job]
  IN  IF \/ job.state # "Running"
         \/ job.run_attempt # op.run_attempt
         \/ job.preempt_pending # NoGrace
      THEN UNCHANGED vars
      ELSE SetJob(op.job,
                  [job EXCEPT !.preempt_pending = [run_attempt |-> op.run_attempt,
                                                   mode        |-> op.mode]],
                  {})

\* Ends a run with the given state.  A victim in its grace ends as the
\* preemption it was warned of, unless the entry carries a cancel, is the
\* controller failing the run, or reports an OOM kill.
JobComplete(op) ==
  LET job   == jobs[op.job]
      grace == /\ preempt_grace(job) /\ job.state = "Running"
               /\ ~op.cancel /\ ~op.controller_initiated
               /\ op.state # "OutOfMemory"
      ending == IF grace THEN adopt_grace_provenance(job) ELSE job
      state  == IF grace /\ job.preempt_pending.mode = "Cancel"
                THEN "Cancelled" ELSE op.state
  IN  IF \/ /\ job.state \in Finalized
            /\ ~(job.state = "Preempted" /\ op.state = "Cancelled")
         \/ ~LegalTransition(job.state, state)
            /\ ~(grace /\ job.preempt_pending.mode = "Requeue")
      THEN UNCHANGED vars
      ELSE IF grace /\ job.preempt_pending.mode = "Requeue"
      THEN SetJob(op.job, repend_after_preemption(job), held_nodes(job))
      ELSE SetJob(op.job,
                  [ending EXCEPT !.state            = state,
                                 !.preempt_pending  = NoGrace,
                                 !.node_completions = NoReports,
                                 !.pending_reason   =
                                    IF state \in {"Timeout", "OutOfMemory"}
                                    THEN "Other" ELSE @],
                  held_nodes(job))

JobExcludeUpdate(op) ==
  LET job == jobs[op.job]
  IN  IF job.state # "Pending" \/ holds_a_placement(job)
      THEN UNCHANGED vars
      ELSE SetJob(op.job, [job EXCEPT !.exclude = op.nodes], {})

\* Mutant: a hold forgets the reservation without freeing it.
JobPriorityChange_Leaky(op) ==
  LET job == jobs[op.job]
  IN  IF job.state # "Pending"
      THEN UNCHANGED vars
      ELSE SetJob(op.job,
                  [job EXCEPT !.pending_reason = op.reason, !.allocated_nodes = {}],
                  {})

\* Hold and release.  A hold frees a reservation it finds, if that is still the
\* attempt it names.
JobPriorityChange(op) ==
  LET job   == jobs[op.job]
      frees == /\ op.reason \in {"Held", "JobHoldMaxRequeue"}
               /\ job.state = "Pending"
               /\ op.run_attempt = 0 \/ op.run_attempt >= job.run_attempt
               /\ holds_a_placement(job)
      count == IF op.reset_requeue_count THEN 0 ELSE job.requeue_count
      run   == IF op.run_attempt > job.run_attempt
               THEN op.run_attempt ELSE job.run_attempt
  IN  IF job.state \notin JobState
      THEN UNCHANGED vars
      ELSE SetJob(op.job,
                  [job EXCEPT !.pending_reason  = op.reason,
                              !.run_attempt     = run,
                              !.requeue_count   = count,
                              !.allocated_nodes = IF frees THEN {} ELSE @],
                  IF frees THEN job.allocated_nodes ELSE {})

\* The jobs a lost node takes with it, and what becomes of them: a live run is
\* evicted, a reservation is freed and the job stays Pending.
TakenDown(node) == {j \in Job : /\ jobs[j].state \in Active \cup {"Pending"}
                                /\ node \in held_nodes(jobs[j])}

\* Mutant: the slices of a reservation are not freed.
FreedBy_RunsOnly(node) ==
  [j \in Job |-> IF j \in TakenDown(node) /\ jobs[j].state \in Active
                 THEN held_nodes(jobs[j]) ELSE {}]

FreedBy(node) ==
  [j \in Job |-> IF j \in TakenDown(node) THEN held_nodes(jobs[j]) ELSE {}]

evict_jobs_on_node(node) ==
  [j \in Job |->
     IF j \notin TakenDown(node) THEN jobs[j]
     ELSE IF jobs[j].state = "Pending" THEN clear_run_state_for_requeue(jobs[j])
     ELSE evict_job_locked(jobs[j])]

\* The slices accounted for by the record of a job: the held nodes of a job that
\* is not over.  A finished run keeps its allocated_nodes for the record only.
Accounted(job) ==
  IF job.state \in {"Pending"} \cup Active THEN held_nodes(job) ELSE {}

\* Inserts a fresh node record, whatever is reserved under its name.
NodeRegister(op) ==
  /\ nodes' = [nodes EXCEPT ![op.node] = [state |-> "Idle", admin_locked |-> FALSE]]
  /\ charge' = [charge EXCEPT ![op.node] = [j \in Job |-> 0]]
  /\ drift' = [drift EXCEPT ![op.node] =
                 [j \in Job |-> IF op.node \in Accounted(jobs[j]) THEN -1 ELSE 0]]
  /\ UNCHANGED jobs

\* Mutant: the proposed state is stored as it is.
NodeStateChange_Verbatim(op) ==
  LET changed == IF op.node \notin Registered THEN nodes
                 ELSE [nodes EXCEPT ![op.node] = [state        |-> op.state,
                                                  admin_locked |-> op.admin_locked]]
  IN  IF op.state = "Down"
      THEN /\ jobs' = evict_jobs_on_node(op.node)
           /\ deallocate_job_slices(changed, FreedBy(op.node))
      ELSE /\ nodes' = changed
           /\ UNCHANGED <<jobs, charge, drift>>

NodeStateChange(op) ==
  LET state   == IF op.state \in Up \cup {"Draining"}
                 THEN update_state_from_alloc(op.state, charge[op.node])
                 ELSE op.state
      changed == IF op.node \notin Registered THEN nodes
                 ELSE [nodes EXCEPT ![op.node] = [state        |-> state,
                                                  admin_locked |-> op.admin_locked]]
  IN  IF op.state = "Down"
      THEN /\ jobs' = evict_jobs_on_node(op.node)
           /\ deallocate_job_slices(changed, FreedBy(op.node))
      ELSE /\ nodes' = changed
           /\ UNCHANGED <<jobs, charge, drift>>

\* The jobs of the node are evicted first; a slice still charged goes with it.
NodeRemove(op) ==
  LET freed == FreedBy(op.node)
  IN  /\ jobs' = evict_jobs_on_node(op.node)
      /\ charge' = [Discharged(freed) EXCEPT ![op.node] = [j \in Job |-> 0]]
      /\ nodes' = [Refreshed(nodes, Discharged(freed), Touched(freed))
                     EXCEPT ![op.node] = AbsentNode]
      /\ drift' = [drift EXCEPT ![op.node] = [j \in Job |-> 0]]

EvictTerminalJobs(op) ==
  IF jobs[op.job].state \in Finalized
  THEN SetJob(op.job, [AbsentJob EXCEPT !.state = "Gone"], {})
  ELSE UNCHANGED vars

-----------------------------------------------------------------------------
(* The entries of the log.                                                 *)

Attempt == 1..MaxAttempt

Entry ==
  UNION {
    [kind : {"JobSubmit", "JobResume", "JobEvict", "JobCancelSignaled",
             "EvictTerminalJobs"}, job : Job],
    [kind : {"JobStart"}, job : Job, nodes : (SUBSET Node) \ {{}},
     run_attempt : Attempt],
    [kind : {"JobStateChange"}, job : Job, new_state : {"Running"},
     run_attempt : Attempt, reason : {"Other"}],
    [kind : {"JobStateChange"}, job : Job, new_state : {"Pending"},
     run_attempt : {0}, reason : PendingReason],
    [kind : {"JobDispatchBackoff"}, job : Job, run_attempt : Attempt,
     at_max_requeue : BOOLEAN, spare_requeue_budget : BOOLEAN],
    [kind : {"JobPreemptRequeue", "JobPreemptCancel", "JobTimeLimitExpired"},
     job : Job, run_attempt : Attempt],
    [kind : {"JobPreemptSignaled"}, job : Job, run_attempt : Attempt,
     mode : {"Cancel", "Requeue"}],
    [kind : {"JobUserRequeue"}, job : Job, hold : BOOLEAN],
    [kind : {"JobSuspend"}, job : Job, preempt : BOOLEAN],
    [kind : {"JobNodeComplete"}, job : Job, node : Node,
     completion : Completion, run_attempt : Attempt],
    [kind : {"JobComplete"}, job : Job, cancel : {FALSE},
     controller_initiated : {FALSE},
     state : {"Completed", "Failed", "Cancelled", "Timeout", "Deadline",
              "OutOfMemory"}],
    [kind : {"JobComplete"}, job : Job, cancel : {TRUE},
     controller_initiated : {FALSE}, state : {"Cancelled"}],
    [kind : {"JobComplete"}, job : Job, cancel : {FALSE},
     controller_initiated : {TRUE}, state : {"Failed"}],
    [kind : {"JobExcludeUpdate"}, job : Job, nodes : SUBSET Node],
    [kind : {"JobPriorityChange"}, job : Job, reason : PendingReason,
     run_attempt : 0..MaxAttempt, reset_requeue_count : BOOLEAN],
    [kind : {"NodeStateChange"}, node : Node,
     state : {"Idle", "Down", "Drain", "Draining"}, admin_locked : BOOLEAN],
    [kind : {"NodeRegister", "NodeRemove"}, node : Node]}

\* What the log promises of an entry when it applies.  JobNodeComplete is the
\* one arm that trusts its proposer: node_complete checks that the reporting
\* node belongs to the run, and the arm does not look again.
Admissible(op) ==
  op.kind = "JobNodeComplete" =>
    \/ jobs[op.job].state \notin Active
    \/ op.run_attempt < jobs[op.job].run_attempt
    \/ op.node \in jobs[op.job].allocated_nodes

Apply(op) ==
  \/ op.kind = "JobSubmit"           /\ JobSubmit(op)
  \/ op.kind = "JobStart"            /\ JobStart(op)
  \/ op.kind = "JobStateChange"      /\ JobStateChange(op)
  \/ op.kind = "JobDispatchBackoff"  /\ JobDispatchBackoff(op)
  \/ op.kind = "JobPreemptRequeue"   /\ JobPreemptRequeue(op)
  \/ op.kind = "JobUserRequeue"      /\ JobUserRequeue(op)
  \/ op.kind = "JobPreemptCancel"    /\ JobPreemptCancel(op)
  \/ op.kind = "JobSuspend"          /\ JobSuspend(op)
  \/ op.kind = "JobResume"           /\ JobResume(op)
  \/ op.kind = "JobEvict"            /\ JobEvict(op)
  \/ op.kind = "JobNodeComplete"     /\ JobNodeComplete(op)
  \/ op.kind = "JobCancelSignaled"   /\ JobCancelSignaled(op)
  \/ op.kind = "JobTimeLimitExpired" /\ JobTimeLimitExpired(op)
  \/ op.kind = "JobPreemptSignaled"  /\ JobPreemptSignaled(op)
  \/ op.kind = "JobComplete"         /\ JobComplete(op)
  \/ op.kind = "JobExcludeUpdate"    /\ JobExcludeUpdate(op)
  \/ op.kind = "JobPriorityChange"   /\ JobPriorityChange(op)
  \/ op.kind = "NodeRegister"        /\ NodeRegister(op)
  \/ op.kind = "NodeStateChange"     /\ NodeStateChange(op)
  \/ op.kind = "NodeRemove"          /\ NodeRemove(op)
  \/ op.kind = "EvictTerminalJobs"   /\ EvictTerminalJobs(op)

NothingCharged == [n \in Node |-> [j \in Job |-> 0]]

Init ==
  /\ jobs = [j \in Job |-> AbsentJob]
  /\ nodes = [n \in Node |-> AbsentNode]
  /\ charge = NothingCharged
  /\ drift = NothingCharged

Next == \E op \in {e \in Entry : e.kind \in Kinds} : Admissible(op) /\ Apply(op)

Spec == Init /\ [][Next]_vars

-----------------------------------------------------------------------------
(* Properties.                                                             *)

TypeOK ==
  /\ jobs \in [Job -> JobRecord]
  /\ nodes \in [Node -> NodeRecord]
  /\ charge \in [Node -> [Job -> Int]]
  /\ drift \in [Node -> [Job -> Int]]

\* Node accounting is exact: the slices of job j in the alloc_resources of a
\* registered node are the one its record accounts for, corrected by the two
\* ways the code loses track: a JobStart applied to a job that was already over,
\* and a node that registers after a JobStart named it.  No order of reservation,
\* activation, report, cancel, requeue, preemption, eviction and node loss frees
\* a slice twice or forgets one (deallocate_job_slices, JobStart,
\* JobNodeComplete, evict_jobs_on_node).
ChargeAccounted ==
  \A n \in Registered, j \in Job :
    charge[n][j] = drift[n][j] + IF n \in Accounted(jobs[j]) THEN 1 ELSE 0

\* A run is finalised by its last report: none stays live when every node it
\* was allocated has reported, whether it was warned of preemption, ran out of
\* memory, was suspended or is draining (advance_after_node_report).
LastReportEndsRun ==
  \A j \in Job : jobs[j].state \in Active /\ jobs[j].allocated_nodes # {}
                   => holds_a_placement(jobs[j])

\* A preemption grace lasts only while the run is Running, where its deadline is
\* enforced; suspending, completing, resuming or requeueing the run never
\* carries one along (apply_suspend, begin_completing, JobResume).
GraceOnlyWhileRunning ==
  \A j \in Job : preempt_grace(jobs[j]) => jobs[j].state = "Running"

\* The placement of a run is fixed: a job's allocated_nodes are set only when it
\* has none and from then on only cleared, so a charge, a report and a release
\* always speak of the same nodes (JobStart's holds_a_placement test).
PlacementNeverSwapped ==
  [][\A j \in Job : \/ jobs[j].allocated_nodes = {}
                    \/ jobs'[j].allocated_nodes \in {{}, jobs[j].allocated_nodes}]_vars

\* A verdict is final: a report, a cancel or an eviction that applies after the
\* run is over changes it in no way; only a requeue or the purge of old jobs
\* leaves a terminal state (JobComplete, JobNodeComplete, JobEvict).
VerdictIsFinal ==
  [][\A j \in Job : jobs[j].state \in Terminal
                    => jobs'[j].state \in {jobs[j].state, "Pending", "Gone"}]_vars

\* A node's state tells its load: an up node is Idle, Mixed or Allocated as its
\* slices say, and a node stops Draining with its last slice even when the
\* drain was proposed before that slice was freed (update_state_from_alloc).
NodeStateTellsLoad ==
  \A n \in Node :
    nodes[n].state \in Up \cup {"Draining"} =>
      nodes[n].state = update_state_from_alloc(nodes[n].state, charge[n])
=============================================================================
