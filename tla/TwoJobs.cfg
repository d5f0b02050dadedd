CONSTANTS
  Job = {j1, j2}
  Node = {n1}
  Cpus = 1
  MaxBatchRequeue = 1
  MaxAttempt = 1
  Kinds <- AllKinds
  Requeueable = {j1, j2}
  Handlers = {"submit", "register", "timeout", "report", "cancel", "deadline", "hold",
              "release", "drain", "resume_node"}
  MaxCalls = 1
  MaxTerm = 2
SPECIFICATION CSpec
INVARIANTS
  NoOvercommit
  NodeStateTellsLoad
CHECK_DEADLOCK FALSE
