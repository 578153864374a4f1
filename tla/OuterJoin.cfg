CONSTANTS
    Tables <- MCTables
    MaxRefs = 3
    MaxPreds = 2
    InitFroms <- MCInitFroms
SPECIFICATION Spec
INVARIANT TypeOK
INVARIANT TablesConserved
INVARIANT PredicatesConserved
INVARIANT JoinQualsInScope
INVARIANT JoinRtindexes
CHECK_DEADLOCK FALSE
