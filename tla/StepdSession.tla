---------------------------- MODULE StepdSession ----------------------------
(***************************************************************************)
(* One job's batch step on one node, below the agent: the session          *)
(* directory the step leaves on disk (StepdStore, with its descriptor and  *)
(* its obligation log), the supervisor process that runs the workload      *)
(* (stepd::run_process), the cgroup of the workload and the durable record *)
(* of a cgroup that would not empty (cgroup_cleanup).  All of this         *)
(* survives the agent.  There is one session per run attempt.              *)
(*                                                                         *)
(* The obligation log is an append-only file that every reader folds into  *)
(* the same three facts, so the model keeps the facts: the last exit       *)
(* observed, whether that exit was acknowledged, and whether the resources *)
(* were released.  Exit codes are abstracted to "real" (the supervisor saw *)
(* the workload end) and "lost" (a SIGKILL invented for a supervisor that  *)
(* died first).                                                            *)
(***************************************************************************)
EXTENDS Naturals, FiniteSets

CONSTANT
    MaxAttempt    \* bound: the run attempts of the job are 1..MaxAttempt

ASSUME MaxAttemptAssumption == MaxAttempt \in Nat \ {0}

Attempt == 1..MaxAttempt

VARIABLES
    sess,   \* Attempt -> the session directory
    sup,    \* Attempt -> where its supervisor process is
    gate,   \* Attempt -> the start gate's shared decision
    work,   \* Attempt -> whether its cgroup is populated
    cln     \* Attempt -> the durable cleanup record of its cgroup

svars == <<sess, sup, gate, work, cln>>

NoSession == [desc |-> "none", exit |-> "none", acked |-> FALSE, released |-> FALSE]

Session == [desc : {"none", "prov", "gate", "run"}, exit : {"none", "real", "lost"},
            acked : BOOLEAN, released : BOOLEAN]

SupState == {"none", "boot", "gate", "work", "exited", "reap", "push", "gone"}
GateState == {"open", "released", "cancelled"}
ClnState == {"none", "pending", "expired", "acked"}

StepdTypeOK ==
    /\ sess \in [Attempt -> Session]
    /\ sup \in [Attempt -> SupState]
    /\ gate \in [Attempt -> GateState]
    /\ work \in [Attempt -> BOOLEAN]
    /\ cln \in [Attempt -> ClnState]

StepdInit ==
    /\ sess = [a \in Attempt |-> NoSession]
    /\ sup = [a \in Attempt |-> "none"]
    /\ gate = [a \in Attempt |-> "open"]
    /\ work = [a \in Attempt |-> FALSE]
    /\ cln = [a \in Attempt |-> "none"]

(***************************************************************************)
(* The obligation log                                                      *)
(***************************************************************************)
Exists(s) == s.desc # "none"

\* completion_reported: the last exit observed has been acknowledged.
Reported(s) == s.exit # "none" /\ s.acked

\* Append ExitObserved: a new exit is not yet acknowledged.  Appending to a
\* directory that is gone fails and leaves nothing.
ObserveExit(s, e) ==
    IF Exists(s)
    THEN [desc |-> s.desc, exit |-> e, acked |-> FALSE, released |-> s.released]
    ELSE s

\* sweep_finalized_session: a session that owes nothing more is removed, but
\* never while its cgroup cleanup is pending.
Sweep(s, pending) ==
    IF Reported(s) /\ s.released /\ ~pending THEN NoSession ELSE s

record_resources_released(s, pending) ==
    IF Exists(s) THEN Sweep([s EXCEPT !.released = TRUE], pending) ELSE s

acknowledge_completion(s, pending) ==
    IF Exists(s) THEN Sweep([s EXCEPT !.acked = (s.exit # "none")], pending) ELSE s

(***************************************************************************)
(* The cgroup and its cleanup record.  prepare (prepare_cleanup) kills the *)
(* cgroup and removes it once: either it empties, and a record is dropped, *)
(* or some process outlives the kill and a record is kept, with the first  *)
(* deadline it was given.                                                  *)
(***************************************************************************)
PrepareOutcomes_NoRecord(a) ==
    {[ok |-> TRUE, work |-> FALSE, cln |-> "none"]}
    \cup IF work[a] THEN {[ok |-> FALSE, work |-> TRUE, cln |-> cln[a]]} ELSE {}
PrepareOutcomes(a) ==
    {[ok |-> TRUE, work |-> FALSE, cln |-> "none"]}
    \cup IF work[a]
         THEN {[ok |-> FALSE, work |-> TRUE,
                cln |-> IF cln[a] = "none" THEN "pending" ELSE cln[a]]}
         ELSE {}

\* wait_until_reaped, without a record: the cgroup empties in time or not.
ReapOutcomes(a) == IF work[a] THEN BOOLEAN ELSE {TRUE}

\* ensure_cleanup_ready: any pending record closes the node to new work.
CleanupReady == \A a \in Attempt : cln[a] = "none"

\* The grace period of a pending cleanup runs out.
CleanupExpires(a) ==
    /\ cln[a] = "pending"
    /\ cln' = [cln EXCEPT ![a] = "expired"]
    /\ UNCHANGED <<sess, sup, gate, work>>

(***************************************************************************)
(* The supervisor process                                                  *)
(***************************************************************************)
Alive(a) == sup[a] \notin {"none", "gone"}

\* run_process up to the gate: bind the control socket, publish the
\* descriptor.  A directory removed meanwhile takes launch.json with it (the
\* process gives up) unless it had been read already (it is recreated).
SupPublish(a) ==
    /\ sup[a] = "boot"
    /\ \/ /\ sup' = [sup EXCEPT ![a] = "gate"]
          /\ sess' = [sess EXCEPT ![a].desc = "gate"]
       \/ /\ ~Exists(sess[a])
          /\ sup' = [sup EXCEPT ![a] = "gone"]
          /\ UNCHANGED sess
    /\ UNCHANGED <<gate, work, cln>>

\* claim_decision: a Shutdown always decides the gate, a Start only an
\* undecided one.
ClaimDecision_LastWins(g, req) == req
ClaimDecision(g, req) == IF req = "cancelled" \/ g = "open" THEN req ELSE g

\* The gate opens: executor::launch_job starts the workload in its cgroup and
\* the descriptor is republished with it, or the launch fails and the process
\* exits with no exit recorded.
SupLaunchWorkload(a) ==
    /\ sup[a] = "gate"
    /\ gate[a] = "released"
    /\ \/ /\ sup' = [sup EXCEPT ![a] = "work"]
          /\ work' = [work EXCEPT ![a] = TRUE]
          /\ sess' = IF Exists(sess[a]) THEN [sess EXCEPT ![a].desc = "run"] ELSE sess
       \/ /\ sup' = [sup EXCEPT ![a] = "gone"]
          /\ UNCHANGED <<work, sess>>
    /\ UNCHANGED <<gate, cln>>

\* A cancelled gate, or START_GATE_TIMEOUT: nothing was launched.
SupGiveUpAtGate(a) ==
    /\ sup[a] = "gate"
    /\ gate[a] # "released"
    /\ sup' = [sup EXCEPT ![a] = "gone"]
    /\ UNCHANGED <<sess, gate, work, cln>>

\* run_supervisor returns: the job's own process ended, its descendants in the
\* cgroup perhaps not.
SupWorkloadExits(a) ==
    /\ sup[a] = "work"
    /\ sup' = [sup EXCEPT ![a] = "exited"]
    /\ \E left \in {FALSE, work[a]} : work' = [work EXCEPT ![a] = left]
    /\ UNCHANGED <<sess, gate, cln>>

\* run_supervisor fails: the cgroup is torn down, and the process ends with no
\* exit recorded.
SupFails(a) ==
    /\ sup[a] = "work"
    /\ sup' = [sup EXCEPT ![a] = "gone"]
    /\ \E p \in PrepareOutcomes(a) :
          /\ work' = [work EXCEPT ![a] = p.work]
          /\ cln' = [cln EXCEPT ![a] = p.cln]
    /\ UNCHANGED <<sess, gate>>

\* ExitObserved is appended before the teardown; a failed append ends the
\* process.
SupRecordExit(a) ==
    /\ sup[a] = "exited"
    /\ sess' = [sess EXCEPT ![a] = ObserveExit(@, "real")]
    /\ sup' = [sup EXCEPT ![a] = IF Exists(sess[a]) THEN "reap" ELSE "gone"]
    /\ UNCHANGED <<gate, work, cln>>

\* The teardown: reap the cgroup, waiting until the cleanup deadline, then run
\* the epilog and turn to the agent.
SupTeardown(a) ==
    /\ sup[a] = "reap"
    /\ \E p \in PrepareOutcomes(a) :
          /\ work' = [work EXCEPT ![a] = p.work]
          /\ cln' = [cln EXCEPT ![a] = p.cln]
    /\ sup' = [sup EXCEPT ![a] = "push"]
    /\ UNCHANGED <<sess, gate>>

\* AGENT_NOTIFY_ATTEMPTS pushes went unanswered: the durable record is left for
\* the agent's replay.
SupPushGivesUp(a) ==
    /\ sup[a] = "push"
    /\ sup' = [sup EXCEPT ![a] = "gone"]
    /\ UNCHANGED <<sess, gate, work, cln>>

\* The supervisor is killed (a crash, or the agent's force-reclaim of a wedged
\* one); its workload is not.
SupDies(a) ==
    /\ Alive(a)
    /\ sup' = [sup EXCEPT ![a] = "gone"]
    /\ UNCHANGED <<sess, gate, work, cln>>

\* A workload nobody supervises any more ends by itself.
OrphanEnds(a) ==
    /\ ~Alive(a)
    /\ work[a]
    /\ work' = [work EXCEPT ![a] = FALSE]
    /\ UNCHANGED <<sess, sup, gate, cln>>

SupStep(a) ==
    \/ SupPublish(a)
    \/ SupLaunchWorkload(a)
    \/ SupGiveUpAtGate(a)
    \/ SupWorkloadExits(a)
    \/ SupFails(a)
    \/ SupRecordExit(a)
    \/ SupTeardown(a)

=============================================================================
