CONSTANTS
  Job = {j1}
  Node = {n1}
  Cpus = 1
  MaxBatchRequeue = 1
  MaxAttempt = 2
  Kinds <- AllKinds
  Requeueable = {j1}
  Handlers = {"submit", "register", "report", "requeue", "hold", "release", "down",
              "recover", "remove", "purge"}
  MaxCalls = 2
  MaxTerm = 2
SPECIFICATION CSpec
INVARIANTS
  NoStrandedSlice
  RunningWasLaunched
  
CHECK_DEADLOCK FALSE
