CONSTANTS
    Replica = {r1}
    Client = {c1, c2, c3}
    first_job_id = 1
    MaxTasks = 0
    MaxId = 3
    MaxStep = 0
    MaxLog = 3
    MaxEvent = 0
SPECIFICATION Spec
INVARIANT JobIdsDistinct
CHECK_DEADLOCK FALSE
SYMMETRY Interchangeable
