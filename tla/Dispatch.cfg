CONSTANTS
  Job = {j1}
  Node = {n1, n2}
  Cpus = 1
  MaxBatchRequeue = 1
  MaxAttempt = 2
  Kinds <- AllKinds
  Requeueable = {j1}
  Handlers = {"submit", "register", "requeue", "report", "down"}
  MaxCalls = 2
  MaxTerm = 1
SPECIFICATION CSpec
INVARIANTS
  ControllerTypeOK
  RunningWasLaunched
  
PROPERTIES
  ImplementsClusterState
CHECK_DEADLOCK FALSE
