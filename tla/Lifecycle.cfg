CONSTANTS
  Job = {j1}
  Node = {n1, n2}
  Cpus = 2
  MaxBatchRequeue = 1
  MaxAttempt = 2
  MaxStranded = 1
  MaxRequeueCount = 1
  Kinds <- LifecycleKinds
SPECIFICATION MCSpec
INVARIANTS
  TypeOK
  
  LastReportEndsRun
  GraceOnlyWhileRunning
PROPERTIES
  VerdictIsFinal
  PlacementNeverSwapped
