CONSTANTS
    Replica = {r1, r2}
    Client = {c1}
    first_job_id = 1
    MaxTasks = 1
    MaxId = 2
    MaxStep = 1
    MaxLog = 3
    MaxEvent = 2
SPECIFICATION Spec
INVARIANTS AppliedIdsStayUsed RecordedStepsStayUsed
CHECK_DEADLOCK FALSE
SYMMETRY Interchangeable
