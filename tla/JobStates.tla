----------------------------- MODULE JobStates -----------------------------
(***************************************************************************)
(* The pure part of the job and node records: the state enumerations of    *)
(* spur-core (job.rs, node.rs), their predicates, the table of legal job   *)
(* transitions, and how the reports of a run's nodes become a verdict.     *)
(*                                                                         *)
(* Two more values of a job's state stand for an id that is not a key of   *)
(* ClusterManager.jobs: "Absent" before its submission, "Gone" after its   *)
(* purge.                                                                  *)
(***************************************************************************)
EXTENDS Naturals, FiniteSets

CONSTANTS Job,      \* job ids
          Node      \* names of the registered nodes

ASSUME NodeFinite == IsFiniteSet(Node)

-----------------------------------------------------------------------------
(* JobState and its predicates.                                            *)

Terminal  == {"Completed", "Failed", "Cancelled", "Timeout", "NodeFail",
              "Deadline", "OutOfMemory"}
Active    == {"Running", "Completing", "Suspended"}
Finalized == Terminal \cup {"Preempted", "Requeued"}
JobState  == {"Pending"} \cup Active \cup Finalized

\* The pairs Job::transition accepts.
LegalTransition(from, to) ==
  \/ from = "Pending"    /\ to \in {"Running", "Cancelled", "Deadline"}
  \/ from = "Running"    /\ to \in {"Completing", "Completed", "Failed",
                                    "Cancelled", "Timeout", "NodeFail",
                                    "Preempted", "Suspended", "OutOfMemory"}
  \/ from = "Completing" /\ to \in {"Completed", "Failed", "Cancelled",
                                    "Timeout", "NodeFail", "OutOfMemory"}
  \/ from = "Suspended"  /\ to \in {"Running", "Cancelled", "Completing",
                                    "Completed", "Failed", "Timeout",
                                    "NodeFail", "OutOfMemory"}
  \/ from \in {"Timeout", "Preempted", "NodeFail", "Failed"} /\ to = "Pending"
  \/ from = "Preempted"  /\ to \in {"Cancelled", "Completing"}

\* Job::requeue_to_pending, the only way back from a finished run that failed
\* no test of LegalTransition.
MayRequeueToPending(state) == state \in Terminal \cup {"Running", "Suspended"}

-----------------------------------------------------------------------------
(* NodeState and its predicates.                                           *)

AdminHold   == {"Down", "Drain", "Draining", "Error", "Suspended"}
Unavailable == {"Down", "Drain", "Draining", "Error"}
Up          == {"Idle", "Mixed", "Allocated"}
NodeState   == Up \cup AdminHold \cup {"Unknown"}

-----------------------------------------------------------------------------
(* Node reports.  A NodeCompletion (exit code and signal) matters only as  *)
(* a success, a failure, or a failure carrying OOM_SIGNAL_FLAG; Unreported *)
(* stands for a node that is no key of node_completions.                   *)

Completion == {"Success", "Failure", "Oom"}
NoReports  == [n \in Node |-> "Unreported"]

Reported(completions) == {n \in Node : completions[n] # "Unreported"}

reported_oom(completions) == \E n \in Node : completions[n] = "Oom"

\* allocated_nodes[0], the batch node.  The order of a placement is arbitrary.
Primary(nodes) == CHOOSE n \in nodes : TRUE

\* The primary's own outcome; without one, the worst outcome reported.
derived_completion(completions, nodes) ==
  LET decisive == IF nodes # {} /\ Primary(nodes) \in Reported(completions)
                  THEN {Primary(nodes)}
                  ELSE Reported(completions)
  IN  IF \A n \in decisive : completions[n] = "Success"
      THEN "Completed"
      ELSE "Failed"
=============================================================================
