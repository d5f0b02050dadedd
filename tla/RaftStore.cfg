SPECIFICATION Spec
CONSTANTS
    Op = {o1, o2}
    MaxIndex = 4
    MaxCrash = 2
    Solo = FALSE
SYMMETRY OpSymmetry
INVARIANTS
    AppliedIsCommitted
    PurgedIsCovered
PROPERTIES
    ImplementsReplicatedLog
CHECK_DEADLOCK FALSE
