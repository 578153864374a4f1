CONSTANTS
    QIds <- MCQIds
    Top = 0
    InitQueries <- MCInitQueries
    Clauses <- MCClauses
    MaxClauses = 2
INIT Init
NEXT Next
INVARIANTS
    NamedLockHitsVisible
CHECK_DEADLOCK FALSE
