CONSTANTS
    Tables <- MCTables
    MaxRefs = 2
    MaxPreds = 2
    InitFroms <- MCInitFroms
SPECIFICATION Spec
INVARIANT PlainPredicatesStayInWhere
CHECK_DEADLOCK FALSE
