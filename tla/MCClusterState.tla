--------------------------- MODULE MCClusterState ---------------------------
(***************************************************************************)
(* Instances of ClusterState for TLC.  LifecycleKinds are the entries of   *)
(* a job; the counters that no arm bounds are bounded here.                *)
(***************************************************************************)
EXTENDS ClusterState

CONSTANTS MaxStranded,       \* bound: stranded slices of a job on a node
          MaxRequeueCount    \* bound: requeue_count

LifecycleKinds == {"JobSubmit", "JobStart", "JobStateChange", "JobNodeComplete",
                   "JobDispatchBackoff", "JobPreemptRequeue", "JobPreemptCancel",
                   "JobPreemptSignaled", "JobUserRequeue", "JobSuspend",
                   "JobResume", "JobEvict", "JobCancelSignaled", "JobComplete",
                   "JobTimeLimitExpired", "EvictTerminalJobs", "NodeRegister"}

Bounded ==
  /\ \A n \in Node, j \in Job : drift[n][j] \in -1..MaxStranded
  /\ \A j \in Job : jobs[j].requeue_count <= MaxRequeueCount

MCNext == Next /\ Bounded'

MCSpec == Init /\ [][MCNext]_vars
=============================================================================
