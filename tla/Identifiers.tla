---------------------------- MODULE Identifiers ----------------------------
(***************************************************************************)
(* How the controller hands out job ids and step ids (cluster.rs).  An id  *)
(* is reserved by a request handler from a counter of its own replica,     *)
(* before the entry that uses it is proposed; applying an entry reads the  *)
(* counter at its start and stores it back at its end, under the jobs lock *)
(* which the handlers do not take.  Counters travel in snapshots.          *)
(*                                                                         *)
(* Raft is external: log is the committed log, every replica applies it in *)
(* order, and a replica may lead before it has applied all of it (requests *)
(* are served on is_leader alone).                                         *)
(***************************************************************************)
EXTENDS Integers, Sequences, FiniteSetsExt, Functions

CONSTANTS
    Replica,
    Client,      \* request handlers
    first_job_id,
    MaxTasks,    \* bound: tasks of an array job
    MaxId,       \* bound: ids handed out by one counter
    MaxStep,     \* bound: steps handed out for one job
    MaxLog,      \* bound: committed entries
    MaxEvent     \* bound: elections, snapshots, installs and restarts together

ASSUME IdsAssumption ==
    /\ Replica # {}
    /\ {first_job_id, MaxTasks, MaxId, MaxStep, MaxLog, MaxEvent} \subseteq Nat

VARIABLES
    log,       \* committed entries
    leader,
    rep,       \* per replica: applied, next_job_id, jobs, steps, next_step_id, loaded
    snap,      \* per replica: the snapshot on its disk
    req,       \* per client: the request being handled
    events

vars == <<log, leader, rep, snap, req, events>>

Id == first_job_id..MaxId
Unset == -1

Idle == [pc |-> "idle"]

Fresh == [applied |-> 0, loaded |-> Unset, next_job_id |-> first_job_id,
          jobs |-> <<>>, steps |-> {}, next_step_id |-> <<>>]

\* What a snapshot keeps of a replica's table.
Saved(t) == [applied |-> t.applied, next_job_id |-> t.next_job_id,
             jobs |-> t.jobs, steps |-> t.steps, next_step_id |-> t.next_step_id]

TypeOK ==
    /\ leader \in Replica
    /\ Len(log) \in 0..MaxLog
    /\ events \in 0..MaxEvent
    /\ \A r \in Replica :
          /\ rep[r].applied \in 0..Len(log)
          /\ rep[r].next_job_id \in first_job_id..MaxId + 1
          /\ DOMAIN rep[r].jobs \subseteq Id
          /\ DOMAIN rep[r].next_step_id \subseteq Id
          /\ rep[r].steps \subseteq Id \X (0..MaxStep)

Init ==
    /\ log = <<>>
    /\ leader \in Replica
    /\ rep = [r \in Replica |-> Fresh]
    /\ snap = [r \in Replica |-> Saved(Fresh)]
    /\ req = [c \in Client |-> Idle]
    /\ events = 0

Bind(f, k, v) == [x \in DOMAIN f \cup {k} |-> IF x = k THEN v ELSE f[x]]
Without(f, S) == Restrict(f, DOMAIN f \ S)

(***************************************************************************)
(* Handlers.                                                               *)
(***************************************************************************)
\* next_job_id.fetch_add(1): the id it returns is the value before.
fetch_add(r) ==
    /\ rep[r].next_job_id <= MaxId
    /\ rep' = [rep EXCEPT ![r].next_job_id = @ + 1]

Reserved(r) == rep[r].next_job_id

Submission(r) == [op |-> "submit", id |-> Reserved(r)]

\* submit_job: the job's id is reserved.  An array job of n tasks keeps this one
\* as its parent id and reserves one more per task.
submit_job(c, n) ==
    /\ req[c] = Idle
    /\ fetch_add(leader)
    /\ req' = [req EXCEPT ![c] =
                 [pc |-> IF n = 0 THEN "propose" ELSE "task", r |-> leader, left |-> n,
                  entry |-> Submission(leader), at |-> 0]]
    /\ UNCHANGED <<log, leader, snap, events>>

NextTask(c) ==
    /\ req[c].pc = "task"
    /\ fetch_add(req[c].r)
    /\ req' = [req EXCEPT ![c] = [req[c] EXCEPT !.pc = "propose", !.left = @ - 1,
                                               !.entry = Submission(req[c].r)]]
    /\ UNCHANGED <<log, leader, snap, events>>

\* highest_user_step_id + 1, the seed of a mark that is not there.
StepsOf(t, j) == {s \in 0..MaxStep : <<j, s>> \in t.steps}
NextStep(t, j) ==
    IF j \in DOMAIN t.next_step_id THEN t.next_step_id[j]
    ELSE Max({-1} \cup StepsOf(t, j)) + 1

\* allocate_step_id and the JobStepCreate entry it is for.
allocate_step_id(c, j) ==
    LET s == NextStep(rep[leader], j) IN
    /\ req[c] = Idle
    /\ j \in DOMAIN rep[leader].jobs /\ rep[leader].jobs[j] = "live"
    /\ s <= MaxStep
    /\ rep' = [rep EXCEPT ![leader].next_step_id = Bind(@, j, s + 1)]
    /\ req' = [req EXCEPT ![c] = [pc |-> "propose", r |-> leader, left |-> 0,
                                  entry |-> [op |-> "step", id |-> j, step |-> s], at |-> 0]]
    /\ UNCHANGED <<log, leader, snap, events>>

\* propose: the entry is committed, if the replica still leads.
Committed(e) == Len(log) < MaxLog /\ log' = Append(log, e)

propose(c) ==
    /\ req[c].pc = "propose"
    /\ req[c].r = leader
    /\ Committed(req[c].entry)
    /\ req' = [req EXCEPT ![c] = [req[c] EXCEPT !.pc = "wait", !.at = Len(log) + 1]]
    /\ UNCHANGED <<leader, rep, snap, events>>

\* The proposer sees its entry applied; an array job goes on to its next task.
ProposeReturns(c) ==
    /\ req[c].pc = "wait"
    /\ rep[req[c].r].applied >= req[c].at
    /\ req' = [req EXCEPT ![c] = IF @.left > 0 THEN [req[c] EXCEPT !.pc = "task"] ELSE Idle]
    /\ UNCHANGED <<log, leader, rep, snap, events>>

\* The proposal is refused, or its outcome is not known in time.
ProposeFails(c) ==
    /\ req[c].pc \in {"propose", "wait"}
    /\ req' = [req EXCEPT ![c] = Idle]
    /\ UNCHANGED <<log, leader, rep, snap, events>>

\* Entries of other operations: a job ends, or a finished one is requeued.
OtherEntry(j) ==
    /\ j \in DOMAIN rep[leader].jobs
    /\ Committed([op |-> IF rep[leader].jobs[j] = "live" THEN "finish" ELSE "requeue", id |-> j])
    /\ UNCHANGED <<leader, rep, snap, req, events>>

\* evict_expired_terminal_jobs: what is finished in the leader's table.
Finished(t) == {j \in DOMAIN t.jobs : t.jobs[j] = "done"}
evict_expired_terminal_jobs(S) ==
    /\ S # {} /\ S \subseteq Finished(rep[leader])
    /\ Committed([op |-> "evict", ids |-> S])
    /\ UNCHANGED <<leader, rep, snap, req, events>>

(***************************************************************************)
(* apply_operation, between reading next_job_id and storing it.            *)
(***************************************************************************)
JobSubmit(t, e) == [t EXCEPT !.jobs = Bind(@, e.id, "live")]

\* Mutant: only the proposer's own mark moves.
Floored_Proposer(t, e) == t.next_step_id
Floored(t, e) == Bind(t.next_step_id, e.id,
    Max({e.step + 1} \cup {t.next_step_id[j] : j \in DOMAIN t.next_step_id \cap {e.id}}))

JobStepCreate(t, e) ==
    IF e.id \in DOMAIN t.jobs /\ t.jobs[e.id] = "live"
    THEN [t EXCEPT !.steps = @ \cup {<<e.id, e.step>>}, !.next_step_id = Floored(t, e)]
    ELSE t

SetState(t, j, state) == IF j \in DOMAIN t.jobs THEN [t EXCEPT !.jobs[j] = state] ELSE t

EvictTerminalJobs(t, e) ==
    LET evicted == e.ids \cap Finished(t) IN
    [t EXCEPT !.jobs = Without(@, evicted),
              !.steps = {s \in @ : s[1] \notin evicted},
              !.next_step_id = Without(@, evicted)]

Effect(t, e) ==
    CASE e.op = "submit" -> JobSubmit(t, e)
      [] e.op = "step" -> JobStepCreate(t, e)
      [] e.op = "finish" -> SetState(t, e.id, "done")
      [] e.op = "requeue" -> SetState(t, e.id, "live")
      [] e.op = "evict" -> EvictTerminalJobs(t, e)

ApplyLoads(r) ==
    /\ rep[r].applied < Len(log)
    /\ rep[r].loaded = Unset
    /\ rep' = [rep EXCEPT ![r].loaded = rep[r].next_job_id]
    /\ UNCHANGED <<log, leader, snap, req, events>>

StoredNext(t, e) == IF e.op = "submit" THEN Max({t.loaded, e.id + 1}) ELSE t.loaded

ApplyStores(r) ==
    LET e == log[rep[r].applied + 1] IN
    /\ rep[r].loaded # Unset
    /\ rep' = [rep EXCEPT ![r] = [Effect(rep[r], e) EXCEPT !.next_job_id = StoredNext(rep[r], e),
                                                      !.applied = @ + 1, !.loaded = Unset]]
    /\ UNCHANGED <<log, leader, snap, req, events>>

(***************************************************************************)
(* Snapshots, restarts, elections.                                         *)
(***************************************************************************)
Event == events < MaxEvent /\ events' = events + 1

\* snapshot_state, never during an apply.
snapshot_state(r) ==
    /\ rep[r].loaded = Unset
    /\ rep[r].applied > snap[r].applied
    /\ Event
    /\ snap' = [snap EXCEPT ![r] = Saved(rep[r])]
    /\ UNCHANGED <<log, leader, rep, req>>

\* Mutant: rebuilt from the jobs that survive.
RestoredNext_Survivors(s) == Max({first_job_id} \cup {j + 1 : j \in DOMAIN s.jobs})
RestoredNext(s) == Max({first_job_id, s.next_job_id} \cup {j + 1 : j \in DOMAIN s.jobs})

\* Marks: floors from the restored steps, the persisted marks over them.
RestoredMarks(s) ==
    LET stepped == {j \in Id : StepsOf(s, j) # {}}
        marked == DOMAIN s.next_step_id \cap DOMAIN s.jobs
    IN  [j \in stepped \cup marked |->
            Max({m + 1 : m \in StepsOf(s, j)}
                \cup IF j \in marked THEN {s.next_step_id[j]} ELSE {})]

restore_from_snapshot(s) ==
    [applied |-> s.applied, loaded |-> Unset, jobs |-> s.jobs, steps |-> s.steps,
     next_job_id |-> RestoredNext(s), next_step_id |-> RestoredMarks(s)]

\* The process restarts: its handlers are gone, its state is the snapshot's.
Restart(r) ==
    /\ Event
    /\ rep' = [rep EXCEPT ![r] = restore_from_snapshot(snap[r])]
    /\ req' = [c \in Client |-> IF req[c] # Idle /\ req[c].r = r THEN Idle ELSE req[c]]
    /\ UNCHANGED <<log, leader, snap>>

\* A follower that fell behind is sent the leader's snapshot.
InstallSnapshot(r) ==
    /\ Event
    /\ r # leader
    /\ rep[r].loaded = Unset
    /\ snap[leader].applied > rep[r].applied
    /\ rep' = [rep EXCEPT ![r] = restore_from_snapshot(snap[leader])]
    /\ snap' = [snap EXCEPT ![r] = snap[leader]]
    /\ UNCHANGED <<log, leader, req>>

Elect(r) ==
    /\ Event
    /\ r # leader
    /\ leader' = r
    /\ UNCHANGED <<log, rep, snap, req>>

Next ==
    \/ \E c \in Client :
          \/ \E n \in 0..MaxTasks : submit_job(c, n)
          \/ NextTask(c)
          \/ \E j \in Id : allocate_step_id(c, j)
          \/ propose(c) \/ ProposeReturns(c) \/ ProposeFails(c)
    \/ \E j \in Id : OtherEntry(j)
    \/ \E S \in SUBSET Id : evict_expired_terminal_jobs(S)
    \/ \E r \in Replica :
          \/ ApplyLoads(r) \/ ApplyStores(r)
          \/ snapshot_state(r) \/ Restart(r) \/ InstallSnapshot(r) \/ Elect(r)

Spec == Init /\ [][Next]_vars

(***************************************************************************)
(* Properties                                                              *)
(***************************************************************************)
\* On every replica next_job_id is above every job id it has applied, those of
\* jobs evicted since included, through snapshots, restarts, installs and
\* submissions that race with an apply.
AppliedIdsStayUsed ==
    \A r \in Replica : \A i \in 1..rep[r].applied :
        log[i].op = "submit" => log[i].id < rep[r].next_job_id

\* The step id that allocate_step_id would hand out is above every step recorded
\* for the job, on any replica that may come to lead.
RecordedStepsStayUsed ==
    \A r \in Replica : \A s \in rep[r].steps : s[2] < NextStep(rep[r], s[1])

\* A job id is used by one submission only: no committed JobSubmit replaces the
\* job of another.
JobIdsDistinct ==
    \A i, k \in DOMAIN log :
        log[i].op = "submit" /\ log[k].op = "submit" /\ log[i].id = log[k].id => i = k

=============================================================================
