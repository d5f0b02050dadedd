----------------------------- MODULE Controller -----------------------------
(***************************************************************************)
(* The leader's handlers over the replicated state of ClusterState.        *)
(*                                                                         *)
(* A handler of ClusterManager reads the state, decides, and proposes an   *)
(* entry; the entry applies when the log commits it.  Other entries commit *)
(* in between, so what the handler saw may be gone.  A step here is what a *)
(* thread does between two such points: one reads, checks and proposes     *)
(* (the handlers below), one commits an entry and applies it (Commit,      *)
(* CommitScheduled), one goes on after the answer (the followups and the   *)
(* phases of a dispatch).                                                  *)
(*                                                                         *)
(* RPC handlers and watchdogs are concurrent: calls holds the entries they *)
(* have decided on.  The scheduler loop is one task that awaits each of    *)
(* its proposals, or gives up waiting (OutcomeUnknown) while the entry is  *)
(* still on its way; queue holds its entries in the order proposed.        *)
(***************************************************************************)
EXTENDS ClusterState, Sequences

CONSTANTS Requeueable,    \* the jobs submitted with --requeue
          Handlers,       \* bound: the handlers that are explored
          MaxCalls,       \* bound: concurrent handler calls
          MaxTerm         \* bound: leadership terms

ASSUME ControllerConstants == Job # {} /\ MaxTerm \in Nat \ {0}

VARIABLES calls,      \* handler calls: the entry decided on, what follows it
          followups,  \* handler calls whose entry applied and that go on
          queue,      \* the scheduler's proposals not yet applied
          dispatch,   \* the assignment the scheduler is processing
          launched,   \* the parts of runs that nodes launched; a part reports
                      \* once the gate in front of its workload is open
          term        \* leadership term

leader == <<calls, followups, queue, dispatch>>
cvars  == <<vars, leader, launched, term>>

-----------------------------------------------------------------------------
(* Proposals.                                                              *)

JobComplete_op(j, state, cancel) ==
  [kind |-> "JobComplete", job |-> j, state |-> state, cancel |-> cancel,
   controller_initiated |-> FALSE]

JobDispatchBackoff_op(j, attempt, at_max, spare) ==
  [kind |-> "JobDispatchBackoff", job |-> j, run_attempt |-> attempt,
   at_max_requeue |-> at_max, spare_requeue_budget |-> spare]

JobPriorityChange_op(j, reason, attempt, reset) ==
  [kind |-> "JobPriorityChange", job |-> j, reason |-> reason,
   run_attempt |-> attempt, reset_requeue_count |-> reset]

NodeStateChange_op(n, state, locked) ==
  [kind |-> "NodeStateChange", node |-> n, state |-> state, admin_locked |-> locked]

Call(op, then) == [op |-> op, then |-> then]

\* There is room for another call of handler h.
Admits(h) == h \in Handlers /\ Cardinality(calls) + Cardinality(followups) < MaxCalls

\* A new call of handler h decides on op; then says what it does afterwards.
Handle(h, op, then) ==
  /\ Admits(h)
  /\ calls' = calls \cup {Call(op, then)}
  /\ UNCHANGED <<vars, followups, queue, dispatch, launched, term>>

\* The completing watchdog decides on op; no other call keeps it from running.
Watchdog(op) ==
  /\ "completing_timeout" \in Handlers
  /\ calls' = calls \cup {Call(op, "return")}
  /\ UNCHANGED <<vars, followups, queue, dispatch, launched, term>>

\* Call f goes on: it decides on the entries ops (none or one) and returns.
GoOn(f, ops) ==
  /\ followups' = followups \ {f}
  /\ calls' = calls \cup {Call(op, "return") : op \in ops}
  /\ UNCHANGED <<vars, queue, dispatch, launched, term>>

Known(j) == jobs[j].state \in JobState

-----------------------------------------------------------------------------
(* RPC handlers and watchdogs.                                             *)

\* A job id is drawn once.
submit_job(j) ==
  LET op == [kind |-> "JobSubmit", job |-> j]
  IN  /\ jobs[j].state = "Absent"
      /\ Call(op, "return") \notin calls
      /\ Handle("submit", op, "return")

\* Serialised per node by its registration lock.
register_node(n) ==
  LET op == [kind |-> "NodeRegister", node |-> n]
  IN  /\ n \notin Registered
      /\ Call(op, "return") \notin calls
      /\ Handle("register", op, "return")

cancel_job_for(j) ==
  /\ Known(j) /\ jobs[j].state \notin Terminal
  /\ IF jobs[j].allocated_nodes # {}
     THEN Handle("cancel", [kind |-> "JobCancelSignaled", job |-> j], "cancel")
     ELSE Handle("cancel", JobComplete_op(j, "Cancelled", TRUE), "return")

\* The second half of cancel_job_for: the signal was a no-op unless the run is
\* Completing now.
cancel_unless_completing(f) ==
  /\ f.step = "cancel"
  /\ GoOn(f, IF Known(f.job) /\ jobs[f.job].state = "Completing"
             THEN {} ELSE {JobComplete_op(f.job, "Cancelled", TRUE)})

\* The reason is written at once, in the leader's copy and past the log; it
\* hides a hold.
deadline_job(j) ==
  /\ Admits("deadline")
  /\ jobs[j].state = "Pending"
  /\ jobs' = [jobs EXCEPT ![j].pending_reason = "Other"]
  /\ calls' = calls \cup {Call(JobComplete_op(j, "Deadline", FALSE), "return")}
  /\ UNCHANGED <<nodes, charge, drift, followups, queue, dispatch, launched, term>>

requeue_one_job(j, hold) ==
  /\ Known(j)
  /\ jobs[j].state \notin {"Pending", "Completing", "Preempted", "Requeued"}
  /\ Handle("requeue", [kind |-> "JobUserRequeue", job |-> j, hold |-> hold], "return")

suspend_job_by(j) ==
  /\ jobs[j].state = "Running" /\ ~preempt_grace(jobs[j])
  /\ Handle("suspend", [kind |-> "JobSuspend", job |-> j, preempt |-> FALSE], "return")

resume_job_for(j) ==
  /\ jobs[j].state = "Suspended"
  /\ Handle("resume", [kind |-> "JobResume", job |-> j], "return")

hold_job(j) ==
  /\ jobs[j].state = "Pending"
  /\ Handle("hold", JobPriorityChange_op(j, "Held", 0, FALSE), "return")

release_job(j) ==
  /\ Known(j) /\ jobs[j].pending_reason \in {"Held", "JobHoldMaxRequeue"}
  /\ Handle("release",
            JobPriorityChange_op(j, "Other", 0,
                                 jobs[j].pending_reason = "JobHoldMaxRequeue"),
            "return")

\* A job that has been over for longer than its retention.
evict_expired_terminal_jobs(j) ==
  /\ jobs[j].state \in Finalized
  /\ Handle("purge", [kind |-> "EvictTerminalJobs", job |-> j], "return")

\* An agent reports the end of its part of a run, and retries until answered.
node_complete(run, completion) ==
  /\ run.gate = "open"
  /\ Known(run.job) /\ jobs[run.job].state \notin Terminal
  /\ run.run_attempt >= jobs[run.job].run_attempt
  /\ run.node \in jobs[run.job].allocated_nodes
  /\ Handle("report", [kind |-> "JobNodeComplete", job |-> run.job, node |-> run.node,
                       completion |-> completion, run_attempt |-> run.run_attempt],
            "return")

\* enforce_time_limits finds a run past its limit and not in a grace.
expire_run(j) ==
  /\ jobs[j].state = "Running" /\ ~preempt_grace(jobs[j])
  /\ Handle("time_limit", [kind |-> "JobTimeLimitExpired", job |-> j,
                           run_attempt |-> jobs[j].run_attempt], "expire")

finalize_timed_out_without_nodes(f) ==
  /\ f.step = "expire"
  /\ GoOn(f, IF /\ jobs[f.job].state = "Running"
                /\ jobs[f.job].run_attempt = f.run_attempt
                /\ jobs[f.job].allocated_nodes = {}
             THEN {JobComplete_op(f.job, "Timeout", FALSE)} ELSE {})

-----------------------------------------------------------------------------
(* The completing timeout: quarantine the nodes that never reported, then  *)
(* finish the run.                                                         *)

Quarantined(n) == nodes[n].admin_locked /\ nodes[n].state \in Unavailable

quarantine_node(j, n) ==
  /\ jobs[j].state = "Completing"
  /\ n \in held_nodes(jobs[j]) \cap Registered
  /\ ~Quarantined(n)
  /\ Watchdog(NodeStateChange_op(n, IF alloc_cpus(charge[n]) > 0
                                    THEN "Draining" ELSE "Drain", TRUE))

\* Mutant: a run with a node that did not report is left waiting.
force_finish_completing_job_Patient(j) ==
  /\ jobs[j].state = "Completing"
  /\ held_nodes(jobs[j]) = {}
  /\ Watchdog(JobComplete_op(j, "Failed", FALSE))

\* Mutant: the outcome of the timeout replaces the verdict signalled before.
force_finish_completing_job_Forgetful(j) ==
  /\ jobs[j].state = "Completing"
  /\ \A n \in held_nodes(jobs[j]) : Quarantined(n)
  /\ Watchdog(JobComplete_op(j, "Failed", FALSE))

\* complete_job_with replaces the outcome by the verdict signalled before.
force_finish_completing_job(j) ==
  /\ jobs[j].state = "Completing"
  /\ \A n \in held_nodes(jobs[j]) : Quarantined(n)
  /\ Watchdog(JobComplete_op(j, IF jobs[j].time_limit_signaled THEN "Timeout"
                                ELSE IF jobs[j].cancel_signaled THEN "Cancelled"
                                ELSE "Failed", FALSE))

-----------------------------------------------------------------------------
(* Nodes.                                                                  *)

\* Agent shutdown, or the heartbeat timeout of check_node_health.
mark_node_down(n) ==
  /\ n \in Registered
  /\ Handle("down", NodeStateChange_op(n, "Down", nodes[n].admin_locked), "return")

\* The heartbeat of an unlocked Down node is back.
recover_node(n) ==
  /\ nodes[n].state = "Down" /\ ~nodes[n].admin_locked
  /\ Handle("recover", NodeStateChange_op(n, "Idle", FALSE), "return")

\* Draining while a run is on the node, Drain otherwise.
Drain_op(n) ==
  NodeStateChange_op(n, IF \E j \in Job : /\ jobs[j].state \in Active
                                          /\ n \in jobs[j].allocated_nodes
                        THEN "Draining" ELSE "Drain", TRUE)

drain_node(n) == n \in Registered /\ Handle("drain", Drain_op(n), "return")

\* The operator resumes a node.
update_node_state(n) ==
  /\ nodes[n].state \in AdminHold
  /\ Handle("resume_node", NodeStateChange_op(n, "Idle", FALSE), "return")

remove_node(n, force) ==
  /\ n \in Registered
  /\ force \/ \A j \in Job : jobs[j].state \in Active => n \notin held_nodes(jobs[j])
  /\ Handle("remove", [kind |-> "NodeRemove", node |-> n], "return")

\* run_all_finalized_side_effects: a run that ended in Timeout or NodeFail goes
\* back to the queue, or is held when its requeues are used up.
maybe_requeue(f) ==
  LET job == jobs[f.job]
      requeue(reason) == [kind |-> "JobStateChange", job |-> f.job,
                          new_state |-> "Pending", run_attempt |-> 0,
                          reason |-> reason]
  IN  /\ f.step = "maybe_requeue"
      /\ GoOn(f, IF ~Known(f.job) THEN {}
                 ELSE IF job.requeue_count >= MaxBatchRequeue
                 THEN IF job.state \in {"Timeout", "NodeFail"}
                      THEN {requeue("JobHoldMaxRequeue")} ELSE {}
                 ELSE IF f.job \in Requeueable THEN {requeue("Other")} ELSE {})

-----------------------------------------------------------------------------
(* The scheduler loop: process_assignment, the orphan sweep, preemption.   *)
(* Reserving, Draining, Activating and Finishing await a proposal.         *)

Idle == [phase |-> "Idle", job |-> CHOOSE j \in Job : TRUE, nodes |-> {},
         run_attempt |-> 0]

At(phase) == dispatch.phase = phase

at_max_requeue(j) == jobs[j].requeue_count >= MaxBatchRequeue

\* The scheduler task moves to phase d having proposed ops, in this order.
Proceed(d, ops) ==
  /\ dispatch' = d
  /\ queue' = queue \o ops
  /\ UNCHANGED <<vars, calls, followups, launched, term>>

GoTo(phase) == [dispatch EXCEPT !.phase = phase]

\* external: backfill picks nodes with room for a job that is neither held nor
\* placed.
schedule(j, ns) ==
  /\ At("Idle")
  /\ jobs[j].state = "Pending"
  /\ jobs[j].pending_reason = "Other"
  /\ ~holds_a_placement(jobs[j])
  /\ jobs[j].run_attempt < MaxAttempt       \* bound
  /\ \A n \in ns : /\ nodes[n].state \in {"Idle", "Mixed"}
                   /\ alloc_cpus(charge[n]) < Cpus
                   /\ n \notin jobs[j].exclude
  /\ Proceed([phase |-> "Assigned", job |-> j, nodes |-> ns, run_attempt |-> 0], <<>>)

\* PrologSlurmctld failed before any node was touched: the job stays in the
\* queue, or is held when its requeues are used up.
requeue_job ==
  /\ At("Assigned")
  /\ IF jobs[dispatch.job].state = "Pending" /\ at_max_requeue(dispatch.job)
     THEN Proceed(GoTo("Finishing"),
                  <<JobPriorityChange_op(dispatch.job, "JobHoldMaxRequeue", 0, FALSE)>>)
     ELSE Proceed(Idle, <<>>)

\* Mutant: the reservation is proposed under the epoch of the previous run.
reserve_placement_SameRun ==
  At("Assigned") /\ Proceed(GoTo("Reserving"),
                            <<[kind |-> "JobStart", job |-> dispatch.job,
                               nodes |-> dispatch.nodes,
                               run_attempt |-> jobs[dispatch.job].run_attempt]>>)

\* Mutant: a job keeps the epoch of its first run.
reserve_placement_OneEpoch ==
  LET job     == jobs[dispatch.job]
      attempt == IF job.run_attempt = 0 THEN 1 ELSE job.run_attempt
  IN  /\ At("Assigned")
      /\ IF \/ job.state # "Pending"
            \/ holds_a_placement(job)
            \/ job.exclude \cap dispatch.nodes # {}
            \/ ~(dispatch.nodes \subseteq Registered)
         THEN Proceed(Idle, <<>>)
         ELSE Proceed([dispatch EXCEPT !.phase = "Reserving", !.run_attempt = attempt],
                      <<[kind |-> "JobStart", job |-> dispatch.job,
                         nodes |-> dispatch.nodes, run_attempt |-> attempt]>>)

reserve_placement ==
  LET job     == jobs[dispatch.job]
      attempt == job.run_attempt + 1
  IN  /\ At("Assigned")
      /\ IF \/ job.state # "Pending"
            \/ holds_a_placement(job)
            \/ job.exclude \cap dispatch.nodes # {}
            \/ ~(dispatch.nodes \subseteq Registered)
            \/ attempt > MaxAttempt                      \* bound
         THEN Proceed(Idle, <<>>)
         ELSE Proceed([dispatch EXCEPT !.phase = "Reserving", !.run_attempt = attempt],
                      <<[kind |-> "JobStart", job |-> dispatch.job,
                         nodes |-> dispatch.nodes, run_attempt |-> attempt]>>)

\* Part of run run_attempt of job j on node n, behind its gate.
Part(j, n, run_attempt, gate) ==
  [job |-> j, node |-> n, run_attempt |-> run_attempt, gate |-> gate]

\* Every node confirmed its launch; the workload waits at the gate.
confirm_dispatch_on_nodes ==
  /\ At("Launching")
  /\ dispatch.nodes \subseteq Registered
  /\ dispatch' = GoTo("Confirmed")
  /\ launched' = launched \cup {Part(dispatch.job, n, dispatch.run_attempt, "shut") :
                                  n \in dispatch.nodes}
  /\ UNCHANGED <<vars, calls, followups, queue, term>>

\* Mutant: the cap is not looked at.
backoff_pending_job_Unbounded ==
  IF jobs[dispatch.job].state # "Pending"
  THEN Proceed(Idle, <<>>)
  ELSE Proceed(GoTo("Finishing"),
               <<JobDispatchBackoff_op(dispatch.job, dispatch.run_attempt, FALSE, FALSE)>>)

backoff_pending_job ==
  IF jobs[dispatch.job].state # "Pending"
  THEN Proceed(Idle, <<>>)
  ELSE Proceed(GoTo("Finishing"),
               <<JobDispatchBackoff_op(dispatch.job, dispatch.run_attempt,
                                       at_max_requeue(dispatch.job), FALSE)>>)

hold_job_for_launch_failure ==
  IF jobs[dispatch.job].state # "Pending"
  THEN Proceed(Idle, <<>>)
  ELSE Proceed(GoTo("Finishing"),
               <<JobPriorityChange_op(dispatch.job, "Held", dispatch.run_attempt, FALSE)>>)

\* Some node did not confirm.
dispatch_failed == At("Launching") /\ backoff_pending_job

\* The prolog failed on node n: drain it, then hold the job or back it off.
prolog_failed(n) ==
  /\ At("Launching")
  /\ n \in dispatch.nodes
  /\ IF n \in Registered
     THEN Proceed(GoTo("Draining"), <<Drain_op(n)>>)
     ELSE Proceed(GoTo("Drained"), <<>>)

settle_prolog_failures ==
  At("Drained") /\ (hold_job_for_launch_failure \/ backoff_pending_job)

activate_job ==
  /\ At("Confirmed")
  /\ IF /\ jobs[dispatch.job].state = "Pending"
        /\ jobs[dispatch.job].run_attempt = dispatch.run_attempt
     THEN Proceed(GoTo("Activating"),
                  <<[kind |-> "JobStateChange", job |-> dispatch.job,
                     new_state |-> "Running", run_attempt |-> dispatch.run_attempt,
                     reason |-> "Other"]>>)
     ELSE Proceed(GoTo("Aborting"), <<>>)

abort_placement ==
  /\ At("Aborting")
  /\ IF ~holds_a_placement(jobs[dispatch.job])
     THEN Proceed(Idle, <<>>)
     ELSE Proceed(GoTo("Finishing"),
                  <<JobDispatchBackoff_op(dispatch.job, dispatch.run_attempt,
                                          at_max_requeue(dispatch.job), FALSE)>>)

\* The workload is let go on every node, or the run is evicted.
start_job_on_nodes ==
  /\ At("Releasing")
  /\ \/ dispatch.nodes \subseteq Registered /\ Proceed(Idle, <<>>)
     \/ LET job == jobs[dispatch.job]
        IN  IF job.state \in Terminal \/ job.run_attempt # dispatch.run_attempt
            THEN Proceed(Idle, <<>>)
            ELSE Proceed(GoTo("Finishing"),
                         <<[kind |-> "JobEvict", job |-> dispatch.job]>>)

\* Mutant: a reservation on top of an earlier run is spared.
sweep_orphaned_placements_FirstRun(j) ==
  /\ At("Idle")
  /\ jobs[j].state = "Pending" /\ holds_a_placement(jobs[j])
  /\ jobs[j].run_attempt > 1
  /\ Proceed([Idle EXCEPT !.phase = "Finishing"],
             <<JobDispatchBackoff_op(j, jobs[j].run_attempt, FALSE, TRUE)>>)

\* Between assignments no launch is on the wire: a reservation found now is one
\* a dead leader or an unanswered proposal left.  (The code also asks that the
\* job have no exit code; every way back to Pending clears it.)
sweep_orphaned_placements(j) ==
  /\ At("Idle")
  /\ jobs[j].state = "Pending" /\ holds_a_placement(jobs[j])
  /\ Proceed([Idle EXCEPT !.phase = "Finishing"],
             <<JobDispatchBackoff_op(j, jobs[j].run_attempt, FALSE, TRUE)>>)

\* try_preempt on a running job: at once, or a warning that opens its grace,
\* whose deadline ends it in the mode the warning named.
preempt_job(j, mode) ==
  LET job == jobs[j]
      op(kind) == [kind |-> kind, job |-> j, run_attempt |-> job.run_attempt]
  IN  /\ "preempt" \in Handlers
      /\ At("Idle")
      /\ job.state = "Running"
      /\ preempt_grace(job) => mode = job.preempt_pending.mode
      /\ \/ Proceed([Idle EXCEPT !.phase = "Finishing"],
                    <<CASE mode = "Cancel"  -> op("JobPreemptCancel")
                        [] mode = "Requeue" -> op("JobPreemptRequeue")
                        [] mode = "Suspend" -> [kind |-> "JobSuspend", job |-> j,
                                                preempt |-> TRUE]>>)
         \/ /\ mode # "Suspend" /\ ~preempt_grace(job)
            /\ Proceed([Idle EXCEPT !.phase = "Finishing"],
                       <<[kind |-> "JobPreemptSignaled", job |-> j,
                          run_attempt |-> job.run_attempt, mode |-> mode]>>)

\* propose gives up waiting; the entry may still apply.
OutcomeUnknown ==
  /\ "timeout" \in Handlers
  /\ Len(queue) = 1       \* bound: one unanswered proposal at a time
  /\ \/ At("Reserving")  /\ Proceed(Idle, <<>>)
     \/ At("Draining")   /\ Proceed(GoTo("Drained"), <<>>)
     \/ At("Activating") /\ Proceed(GoTo("Aborting"), <<>>)
     \/ At("Finishing")  /\ Proceed(Idle, <<>>)

-----------------------------------------------------------------------------
(* The log.                                                                *)

\* The calls that go on once their entry changed the state: the caller of a
\* finalised run looks after its requeue.
FinalizedSideEffects ==
  {[step |-> "maybe_requeue", job |-> j, run_attempt |-> 0] :
     j \in {i \in Job : /\ jobs[i].state \notin Terminal
                        /\ jobs'[i].state \in {"Timeout", "NodeFail"}}}

Commit(c) ==
  /\ Apply(c.op)
  /\ \/ calls' = calls \ {c}
     \/ c.op.kind = "JobNodeComplete" /\ calls' = calls   \* sent again meanwhile
  /\ followups' = followups \cup FinalizedSideEffects \cup
       IF c.then = "return" THEN {}
       ELSE {[step |-> c.then, job |-> c.op.job,
              run_attempt |-> IF c.then = "expire" THEN c.op.run_attempt ELSE 0]}
  /\ UNCHANGED <<queue, dispatch, launched, term>>

\* The answer of an entry: JobStart answers job_started, the activation
\* state_change_applied.
job_started(op) == /\ ~holds_a_placement(jobs[op.job])
                   /\ jobs[op.job].exclude \cap op.nodes = {}

Answered(op) ==
  CASE At("Reserving")  -> IF job_started(op) THEN GoTo("Launching") ELSE Idle
    [] At("Draining")   -> GoTo("Drained")
    [] At("Activating") -> IF jobs' # jobs THEN GoTo("Releasing") ELSE GoTo("Aborting")
    [] At("Finishing")  -> Idle
    [] OTHER            -> dispatch

\* The parts whose gate the activation opens.
LetGo(op) ==
  IF op.kind = "JobStateChange" /\ jobs' # jobs
  THEN {part \in launched : part.job = op.job /\ part.run_attempt = op.run_attempt}
  ELSE {}

Opened(parts) == {[part EXCEPT !.gate = "open"] : part \in parts}

CommitScheduled ==
  /\ queue # <<>>
  /\ Apply(Head(queue))
  /\ queue' = Tail(queue)
  /\ dispatch' = IF Len(queue) = 1 THEN Answered(Head(queue)) ELSE dispatch
  /\ launched' = (launched \ LetGo(Head(queue))) \cup Opened(LetGo(Head(queue)))
  /\ followups' = followups \cup FinalizedSideEffects
  /\ UNCHANGED <<calls, term>>

\* The leader is lost with what its threads had in hand; an entry that made it
\* into the log was committed before.
LeaderChange ==
  /\ term < MaxTerm
  /\ term' = term + 1
  /\ calls' = {} /\ followups' = {} /\ queue' = <<>> /\ dispatch' = Idle
  /\ UNCHANGED <<vars, launched>>

-----------------------------------------------------------------------------
CInit ==
  /\ Init
  /\ calls = {} /\ followups = {} /\ queue = <<>> /\ dispatch = Idle
  /\ launched = {}
  /\ term = 1

Request ==
  \/ \E j \in Job : \/ submit_job(j) \/ cancel_job_for(j) \/ deadline_job(j)
                    \/ suspend_job_by(j) \/ resume_job_for(j)
                    \/ hold_job(j) \/ release_job(j)
                    \/ expire_run(j) \/ evict_expired_terminal_jobs(j)
                    \/ \E hold \in BOOLEAN : requeue_one_job(j, hold)
  \/ \E n \in Node : \/ register_node(n) \/ mark_node_down(n) \/ recover_node(n)
                     \/ drain_node(n) \/ update_node_state(n)
                     \/ \E force \in BOOLEAN : remove_node(n, force)
  \/ \E run \in launched, c \in Completion : node_complete(run, c)

CompletingTimeout ==
  \E j \in Job : \/ force_finish_completing_job(j)
                 \/ \E n \in Node : quarantine_node(j, n)

Followup ==
  \E f \in followups : \/ cancel_unless_completing(f)
                       \/ finalize_timed_out_without_nodes(f)
                       \/ maybe_requeue(f)

process_assignment ==
  \/ requeue_job \/ reserve_placement
  \/ confirm_dispatch_on_nodes \/ dispatch_failed
  \/ \E n \in Node : prolog_failed(n)
  \/ settle_prolog_failures \/ activate_job \/ abort_placement
  \/ start_job_on_nodes

CNext ==
  \/ Request \/ CompletingTimeout \/ Followup
  \/ process_assignment \/ CommitScheduled
  \/ \E j \in Job : sweep_orphaned_placements(j)
  \/ \E j \in Job, ns \in (SUBSET Node) \ {{}} : schedule(j, ns)
  \/ \E j \in Job, mode \in {"Cancel", "Requeue", "Suspend"} : preempt_job(j, mode)
  \/ OutcomeUnknown
  \/ \E c \in calls : Commit(c)
  \/ LeaderChange

CSpec == CInit /\ [][CNext]_cvars

\* The kinds of entry that the calls below wait for.
AwaitedKinds == {"JobStateChange", "JobComplete", "NodeStateChange"}

\* A task that is not blocked runs: the scheduler task, the watchdog of
\* Completing jobs and the calls that go on.  A quorum is up: what is proposed
\* commits unless the leader is lost.  The sweep comes around on every tick.
\* Nothing is assumed of users, agents, backfill or the outcome of a launch.
Fairness ==
  /\ WF_cvars(process_assignment)
  /\ WF_cvars(CommitScheduled)
  /\ WF_cvars(CompletingTimeout)
  /\ WF_cvars(\E f \in followups : cancel_unless_completing(f))
  /\ WF_cvars(\E f \in followups : finalize_timed_out_without_nodes(f))
  /\ WF_cvars(\E f \in followups : maybe_requeue(f))
  /\ \A kind \in AwaitedKinds : WF_cvars(\E c \in calls : c.op.kind = kind /\ Commit(c))
  /\ \A j \in Job : SF_cvars(sweep_orphaned_placements(j))

CFairSpec == CSpec /\ Fairness

-----------------------------------------------------------------------------
(* Properties.                                                             *)

\* The handlers implement the state machine: every entry that commits is one
\* ClusterState knows and admits.  In particular a report applies only to a run
\* its node belongs to, though the arm does not test it and the run may have been
\* requeued and placed elsewhere since node_complete looked (node_complete,
\* JobNodeComplete's epoch test).
ImplementsClusterState == Spec

ControllerTypeOK ==
  /\ \A c \in calls : c.op \in Entry /\ c.then \in {"return", "cancel", "expire"}
  /\ followups \subseteq [step : {"cancel", "expire", "maybe_requeue"}, job : Job,
                          run_attempt : Nat]
  /\ \A i \in DOMAIN queue : queue[i] \in Entry
  /\ dispatch \in [phase : {"Idle", "Assigned", "Reserving", "Launching", "Draining",
                            "Drained", "Confirmed", "Activating", "Aborting",
                            "Releasing", "Finishing"},
                   job : Job, nodes : SUBSET Node, run_attempt : Nat]
  /\ launched \subseteq [job : Job, node : Node, run_attempt : Attempt,
                         gate : {"shut", "open"}]
  /\ term \in 1..MaxTerm

\* A job is Running only with nodes, and only after each of them confirmed the
\* launch of this very run: no order of requests, node loss, late proposals and
\* leader changes activates a reservation that was superseded or given up
\* (activate_job and the epoch test of its JobStateChange).
RunningWasLaunched ==
  \A j \in Job : jobs[j].state = "Running" =>
    /\ jobs[j].allocated_nodes # {}
    /\ \A n \in held_nodes(jobs[j]) :
         Part(j, n, jobs[j].run_attempt, "open") \in launched

\* The automatic requeues of a job stay within max_batch_requeue: the cap is
\* tested before the entry is proposed, and no retry, sweep or requeue that
\* commits in between lets the count pass it (abort_placement,
\* backoff_pending_job_after_dispatch_failure, maybe_requeue).
RequeueWithinBudget == \A j \in Job : jobs[j].requeue_count <= MaxBatchRequeue

\* No node runs more than it has cpus for: the scheduler places from a snapshot,
\* JobStart does not test the room again and a proposal given up on may still
\* apply, yet no two runs are let go on the same cpu (process_assignment,
\* reserve_placement, activate_job).
NoOvercommit ==
  \A n \in Node :
    Cardinality({j \in Job : jobs[j].state \in Active /\ n \in held_nodes(jobs[j])}) <= Cpus

\* No slice is stranded: each one charged to a node is accounted for by a job
\* that is Pending or running, so some step will free it (reserve_placement,
\* abort_placement, orphaned_placements).
NoStrandedSlice ==
  \A n \in Node, j \in Job : charge[n][j] > 0 => n \in Accounted(jobs[j])

\* A run stopped for its time limit ends as Timeout, unless the kernel killed it
\* for memory: not as the failure its signal looks like, nor as the preemption,
\* the node loss or the completing timeout that met it on the way
\* (completion_verdict, evict_job_locked, complete_job_with).
TimeLimitVerdictKept ==
  [][\A j \in Job : jobs[j].state = "Completing" /\ jobs[j].time_limit_signaled
                    => jobs'[j].state \in {"Completing", "Timeout", "OutOfMemory"}]_cvars

\* A reservation is settled: activated or given up, whatever became of the leader
\* that made it and of the answers to its proposals (sweep_orphaned_placements).
ReservationSettles ==
  \A j \in Job : jobs[j].state = "Pending" /\ holds_a_placement(jobs[j])
                   ~> ~(jobs[j].state = "Pending" /\ holds_a_placement(jobs[j]))

\* A Completing run ends even if no node ever reports
\* (enforce_completing_timeout).
CompletingEnds ==
  \A j \in Job : jobs[j].state = "Completing" ~> jobs[j].state # "Completing"

=============================================================================
