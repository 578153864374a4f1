CONSTANTS
    Stmts <- MCStmts
    Entries = {"gram", "varparams"}
    Grammars = {"POSTGRES", "ORACLE"}
    InitStacks <- MCInitStacks
SPECIFICATION Spec
INVARIANTS
    TypeOK
    ExecDirectAuthorized
PROPERTY
    SearchPathBracket
CHECK_DEADLOCK FALSE
