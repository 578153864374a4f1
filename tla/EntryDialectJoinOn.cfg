CONSTANTS
    Stmts <- MCStmts
    Entries = {"gram", "varparams"}
    Grammars = {"POSTGRES", "ORACLE"}
    InitStacks <- MCInitStacks
INIT Init
NEXT Next
INVARIANTS
    DialectJoinOnChecked
CHECK_DEADLOCK FALSE
