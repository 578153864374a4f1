CONSTANTS
    Tables <- MCTables
    MaxRefs = 2
    MaxPreds = 2
    InitFroms <- MCInitFroms
SPECIFICATION Spec
INVARIANT NoInternalError
CHECK_DEADLOCK FALSE
