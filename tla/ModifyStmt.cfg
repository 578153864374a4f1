CONSTANTS
    Stmts <- MCStmts
    Grammars = {"POSTGRES", "ORACLE"}
    RuleRtables <- MCRuleRtables
    NCols <- MCNCols
    Inherits <- MCInherits
INIT Init
NEXT Next
INVARIANTS
    TypeOK
    TargetListMatchesColumns
    SourceRefsExact
    TargetHiddenOnlyFromFromClause
    UpdateTargetListMatchesColumns
CHECK_DEADLOCK FALSE
