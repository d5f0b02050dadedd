CONSTANTS
  Job = {j1}
  Node = {n1}
  Cpus = 1
  MaxBatchRequeue = 1
  MaxAttempt = 2
  Kinds <- AllKinds
  Requeueable = {j1}
  Handlers = {"submit", "register", "cancel"}
  MaxCalls = 1
  MaxTerm = 1
SPECIFICATION CSpec
INVARIANTS
  NoStrandedSlice
CHECK_DEADLOCK FALSE
