CONSTANTS
    MaxAttempt = 2
    MaxEvents = 1
SPECIFICATION Spec
INVARIANTS
    TypeOK
    OneRunAtATime
    ReportedMeansGone
    ReportsAgree
    LedgerCoversWorkload
CHECK_DEADLOCK FALSE
