CONSTANTS
    QIds <- MCQIds
    Top = 0
    InitQueries <- MCInitQueries
    Clauses <- MCClauses
    MaxClauses = 2
INIT Init
NEXT Next
INVARIANTS
    TypeOK
    RowMarksMatchClauses
    OneMarkPerRte
    ForUpdateFlag
    LockedRelationsChecked
CHECK_DEADLOCK FALSE
