CONSTANTS
    MaxAttempt = 1
    MaxEvents = 4
SPECIFICATION FairSpec
INVARIANT
    ReportsAgree
PROPERTIES
    EndIsReported
    
CHECK_DEADLOCK FALSE
