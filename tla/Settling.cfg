CONSTANTS
  Job = {j1}
  Node = {n1}
  Cpus = 1
  MaxBatchRequeue = 1
  MaxAttempt = 1
  Kinds <- AllKinds
  Requeueable = {}
  Handlers = {"submit", "register", "deadline", "report", "time_limit",
              "completing_timeout", "timeout", "suspend", "resume", "preempt", "down"}
  MaxCalls = 2
  MaxTerm = 2
SPECIFICATION CFairSpec
PROPERTIES
  ReservationSettles
  CompletingEnds
  TimeLimitVerdictKept
CHECK_DEADLOCK FALSE
