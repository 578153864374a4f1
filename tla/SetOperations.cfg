CONSTANTS
    Stmts <- MCStmts
    Cat <- MCCat
    Rank <- MCRank
INIT Init
NEXT Next
INVARIANTS
    TypeOK
    ColumnListsAgree
    RtableTruncatedExactly
    LeafRefsInOrder
    TypmodOnlyWhenAllAgree
    UnknownLiteralsResolved
    ValuesRowsTransposed
CHECK_DEADLOCK FALSE
