CONSTANTS
    Stmts <- MCStmts
    Grammars = {"POSTGRES", "ORACLE"}
    RuleRtables <- MCRuleRtables
    NCols <- MCNCols
    Inherits <- MCInherits
INIT Init
NEXT Next
INVARIANT CmdIdSavedWhenNeeded
CHECK_DEADLOCK FALSE
