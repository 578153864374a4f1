----------------------------- MODULE AnalyzeEntry -----------------------------
(***************************************************************************)
(* The entry points of src/src/backend/parser/analyze.c:                   *)
(* parse_analyze_for_gram() and parse_analyze_varparams_for_gram() push    *)
(* the grammar's override search path, analyse the statement inside        *)
(* PG_TRY, and pop the path on the normal exit and in PG_CATCH before      *)
(* re-throwing; transformTopLevelStmt() lifts SELECT ... INTO into CREATE  *)
(* TABLE AS; transformStmt() dispatches, and DECLARE CURSOR, EXPLAIN and   *)
(* CREATE TABLE AS wrap a transformed inner statement.                     *)
(*                                                                         *)
(* A statement is a record with a tag. A SELECT has a sequence of leaves   *)
(* (more than one for a set operation), each with its INTO flag, and says  *)
(* where a FOR UPDATE is: none, on the statement itself ("top"), or only   *)
(* inside a FROM subquery ("sub"). DECLARE, EXPLAIN and CREATE TABLE AS    *)
(* carry an inner statement. EXECUTE DIRECT names a node and carries the   *)
(* statements its query text parses to; the inner one is analysed by a    *)
(* nested parse_analyze() with its own push and pop of the search path.   *)
(* Errors raised by code outside this file                                 *)
(* (catalog, expression and clause transformers, the hook) are a           *)
(* nondeterministic ereport at every step that calls it.                   *)
(***************************************************************************)
EXTENDS Integers, Sequences

CONSTANTS
    Stmts,       \* raw parse trees handed to the entry points
    Entries,     \* "gram" (parse_analyze_for_gram) and/or "varparams"
    Grammars,    \* "POSTGRES", "ORACLE"
    InitStacks   \* override search paths the caller has already pushed

\* PushOverrideSearchPathForGrammar() (namespace.c): the path for a grammar
PathFor(g) == "path_" \o g

VARIABLES
    stack,       \* the override search-path stack
    entry, grammar, stmt,
    result,      \* the Query transformTopLevelStmt returned
    checked,     \* check_joinon_column_join reached a SELECT's join tree
    pc,
    stack0,      \* history: the stack when the entry point was called
    isDatanode,  \* IS_PGXC_DATANODE
    maint,       \* xc_maintenance_mode
    inner,       \* EXECUTE DIRECT: the Query parse_analyze returned
    xdType       \* EXECUTE DIRECT: step->exec_direct_type

vars == <<stack, entry, grammar, stmt, result, checked, pc, stack0,
          isDatanode, maint, inner, xdType>>

xdVars == <<isDatanode, maint, inner, xdType>>

-----------------------------------------------------------------------------
Err == [ok |-> FALSE]
Ok(cmd, marks, util) == [ok |-> TRUE, cmd |-> cmd, rowMarks |-> marks, util |-> util]

\* transformSelectStmt (INTO check, FOR UPDATE) and transformSetOperationStmt
\* (INTO on the leftmost and on the other leaves; CheckSelectLocking rejects
\* a FOR UPDATE of the set operation itself). A FOR UPDATE inside a FROM
\* subquery marks only the subquery's level.
SelectLike(s) ==
    IF \E i \in DOMAIN s.leaves : s.leaves[i].into THEN Err
    ELSE IF Len(s.leaves) > 1 /\ s.lock = "top" THEN Err
    ELSE Ok("SELECT", s.lock = "top", "none")

\* transformTopLevelStmt: drill down to the leftmost leaf; its INTO makes
\* the statement a CREATE TABLE AS with the INTO removed
TopLevel(s) ==
    IF s.tag = "SELECT" /\ s.leaves[1].into
    THEN [tag |-> "CTAS", query |-> [s EXCEPT !.leaves[1].into = FALSE]]
    ELSE s

ReadOnlyOpts == {"HOLD", "SCROLL", "INSENSITIVE"}

\* transformDeclareCursorStmt, given the transformed query r: SCROLL with
\* NO SCROLL, a non-SELECT, and row marks with a read-only option fail; the
\* statement becomes the Query's utilityStmt
DeclareCursor(s, r) ==
    IF {"SCROLL", "NO_SCROLL"} \subseteq s.opts THEN Err
    ELSE IF ~r.ok THEN r
    ELSE IF r.cmd # "SELECT" \/ r.util # "none" THEN Err
    ELSE IF r.rowMarks /\ s.opts \cap ReadOnlyOpts # {} THEN Err
    ELSE [r EXCEPT !.util = "DECLARE"]

\* transformExplainStmt and transformCreateTableAsStmt: a utility Query over
\* the transformed query (the materialized-view checks are ereports of Raise)
Wrap(util, r) == IF r.ok THEN Ok("UTILITY", FALSE, util) ELSE r

RECURSIVE TransformStmt(_)
\* transformStmt: dispatch by node tag; other statements are a utility Query
TransformStmt(s) ==
    CASE s.tag = "SELECT" -> SelectLike(s)
      [] s.tag = "DECLARE" -> DeclareCursor(s, TransformStmt(s.query))
      [] s.tag = "EXPLAIN" -> Wrap("EXPLAIN", TransformStmt(TopLevel(s.query)))
      [] s.tag = "CTAS" -> Wrap("CTAS", TransformStmt(s.query))
      [] s.tag \in {"INSERT", "UPDATE", "DELETE"} -> Ok(s.tag, FALSE, "none")
      [] OTHER -> Ok("UTILITY", FALSE, s.tag)

\* check_joinon_column_join((Node*)query->jointree): a utility Query has
\* no join tree, so it reaches a SELECT only when that is the top Query
ReachesJoinTree(r) == r.cmd # "UTILITY"

PopPath(s) == SubSeq(s, 1, Len(s) - 1)   \* PopOverrideSearchPath()

-----------------------------------------------------------------------------
Init ==
    /\ stack \in InitStacks
    /\ entry \in Entries
    /\ grammar \in Grammars
    /\ stmt \in Stmts
    /\ result = Err
    /\ checked = FALSE
    /\ pc = "push"
    /\ stack0 = stack
    /\ isDatanode \in BOOLEAN
    /\ maint \in BOOLEAN
    /\ inner = Err
    /\ xdType = "NONE"

\* mutant: the path pushed only for the alternate grammar
PushOnlyForDialect ==
    /\ pc = "push"
    /\ stack' = IF grammar = "ORACLE" THEN Append(stack, PathFor(grammar)) ELSE stack
    /\ pc' = "analyze"
    /\ UNCHANGED <<entry, grammar, stmt, result, checked, stack0>>
    /\ UNCHANGED xdVars

\* make_parsestate; PushOverrideSearchPathForGrammar(grammar); PG_TRY
Push ==
    /\ pc = "push"
    /\ stack' = Append(stack, PathFor(grammar))
    /\ pc' = "analyze"
    /\ UNCHANGED <<entry, grammar, stmt, result, checked, stack0>>
    /\ UNCHANGED xdVars

\* query = transformTopLevelStmt(pstate, parseTree)
Analyze ==
    /\ pc = "analyze" /\ stmt.tag # "EXECDIRECT"
    /\ LET r == TransformStmt(TopLevel(stmt)) IN
         /\ result' = r
         /\ pc' = IF ~r.ok THEN "catch" ELSE IF entry = "gram" THEN "joinon" ELSE "params"
    /\ UNCHANGED <<stack, entry, grammar, stmt, checked, stack0>>
    /\ UNCHANGED xdVars

\* an ereport from code this file calls
Raise ==
    /\ pc \in {"analyze", "joinon", "params", "hook"}
    /\ pc' = "catch"
    /\ UNCHANGED <<stack, entry, grammar, stmt, result, checked, stack0>>
    /\ UNCHANGED xdVars

\* for_gram: check_joinon_column_join and rewrite_rownum_query_enum
JoinOnAndRownum ==
    /\ pc = "joinon"
    /\ checked' = ReachesJoinTree(result)
    /\ pc' = "hook"
    /\ UNCHANGED <<stack, entry, grammar, stmt, result, stack0>>
    /\ UNCHANGED xdVars

\* varparams: check_variable_parameters
Params ==
    /\ pc = "params"
    /\ pc' = "hook"
    /\ UNCHANGED <<stack, entry, grammar, stmt, result, checked, stack0>>
    /\ UNCHANGED xdVars

\* post_parse_analyze_hook, if set
Hook ==
    /\ pc = "hook"
    /\ pc' = "free"
    /\ UNCHANGED <<stack, entry, grammar, stmt, result, checked, stack0>>
    /\ UNCHANGED xdVars

\* mutant: PG_CATCH re-throws without popping
CatchNoPop ==
    /\ pc = "catch"
    /\ pc' = "raised"
    /\ UNCHANGED <<stack, entry, grammar, stmt, result, checked, stack0>>
    /\ UNCHANGED xdVars

\* mutant: PG_CATCH pops but does not re-throw, and falls through to the
\* pop after PG_END_TRY
CatchNoRethrow ==
    /\ pc = "catch"
    /\ stack' = PopPath(PopPath(stack))
    /\ pc' = "returned"
    /\ UNCHANGED <<entry, grammar, stmt, result, checked, stack0>>
    /\ UNCHANGED xdVars

\* mutant: PG_CATCH retries the analysis under the same path
CatchRetry ==
    /\ pc = "catch"
    /\ pc' = "analyze"
    /\ UNCHANGED <<stack, entry, grammar, stmt, result, checked, stack0>>
    /\ UNCHANGED xdVars

\* PG_CATCH: PopOverrideSearchPath(); PG_RE_THROW()
Catch ==
    /\ pc = "catch"
    /\ stack' = PopPath(stack)
    /\ pc' = "raised"
    /\ UNCHANGED <<entry, grammar, stmt, result, checked, stack0>>
    /\ UNCHANGED xdVars

\* free_parsestate; PG_END_TRY; PopOverrideSearchPath(); return query
Return ==
    /\ pc = "free"
    /\ stack' = PopPath(stack)
    /\ pc' = "returned"
    /\ UNCHANGED <<entry, grammar, stmt, result, checked, stack0>>
    /\ UNCHANGED xdVars

\* IsExecDirectUtilityStmt: no utility statement, or CREATE/DROP TABLESPACE
Whitelisted(util) == util \in {"none", "TABLESPACE"}

\* the blank Query left when the query text parses to no statement
BlankQuery == [ok |-> TRUE, cmd |-> "UNKNOWN", rowMarks |-> FALSE, util |-> "none"]

\* transformExecDirectStmt up to pg_parse_query: not on a Datanode, one
\* node only, a defined node, at most one statement in the text
ExecDirectCheck ==
    /\ pc = "analyze" /\ stmt.tag = "EXECDIRECT"
    /\ LET ok == ~isDatanode /\ stmt.nodes = 1 /\ stmt.target # "none"
                 /\ Len(stmt.queries) <= 1
       IN  /\ pc' = IF ~ok THEN "catch"
                    ELSE IF stmt.queries = <<>> THEN "xd_auth" ELSE "xd_push"
           /\ inner' = IF ok /\ stmt.queries = <<>> THEN BlankQuery ELSE inner
    /\ UNCHANGED <<stack, entry, grammar, stmt, result, checked, stack0,
                   isDatanode, maint, xdType>>

\* parse_analyze(parsetree, ...) = parse_analyze_for_gram(..., POSTGRES):
\* a nested push of the default grammar's path and PG_TRY
ExecDirectPush ==
    /\ pc = "xd_push"
    /\ stack' = Append(stack, PathFor("POSTGRES"))
    /\ pc' = "xd_analyze"
    /\ UNCHANGED <<entry, grammar, stmt, result, checked, stack0>>
    /\ UNCHANGED xdVars

\* the nested transformTopLevelStmt; its join-on check, ROWNUM rewrite and
\* hook follow at "xd_free"
ExecDirectAnalyze ==
    /\ pc = "xd_analyze"
    /\ LET r == TransformStmt(TopLevel(stmt.queries[1])) IN
         /\ inner' = r
         /\ pc' = IF r.ok THEN "xd_free" ELSE "xd_catch"
    /\ UNCHANGED <<stack, entry, grammar, stmt, result, checked, stack0,
                   isDatanode, maint, xdType>>

\* an ereport inside the nested analysis
ExecDirectRaise ==
    /\ pc \in {"xd_analyze", "xd_free"}
    /\ pc' = "xd_catch"
    /\ UNCHANGED <<stack, entry, grammar, stmt, result, checked, stack0>>
    /\ UNCHANGED xdVars

\* the nested PG_CATCH pops its path and re-throws into the outer one
ExecDirectCatch ==
    /\ pc = "xd_catch"
    /\ stack' = PopPath(stack)
    /\ pc' = "catch"
    /\ UNCHANGED <<entry, grammar, stmt, result, checked, stack0>>
    /\ UNCHANGED xdVars

\* the nested call's PopOverrideSearchPath and return
ExecDirectReturn ==
    /\ pc = "xd_free"
    /\ stack' = PopPath(stack)
    /\ pc' = "xd_auth"
    /\ UNCHANGED <<entry, grammar, stmt, result, checked, stack0>>
    /\ UNCHANGED xdVars

\* exec_direct_type from locality and the inner command type; an unknown
\* command type leaves EXEC_DIRECT_NONE (the default: Assert(0))
ExecDirectType(local, cmd) ==
    IF local THEN IF cmd = "UTILITY" THEN "LOCAL_UTILITY" ELSE "LOCAL"
    ELSE IF cmd = "UNKNOWN" THEN "NONE" ELSE cmd

\* mutant: unlisted utilities are not checked against the whitelist
ExecDirectRefusedNoWhitelist(t, util) ==
    /\ ~maint
    /\ \/ t \in {"DELETE", "UPDATE", "INSERT"}
       \/ t = "LOCAL_UTILITY"

\* "EXECUTE DIRECT cannot execute DML queries / this utility query /
\* locally this utility query", unless in maintenance mode
ExecDirectRefused(t, util) ==
    /\ ~maint
    /\ \/ t \in {"DELETE", "UPDATE", "INSERT"}
       \/ t = "UTILITY" /\ ~Whitelisted(util)
       \/ t = "LOCAL_UTILITY"

\* the RemoteQuery step: the type, the refusals, and a non-local Query
\* carrying the step as its utilityStmt; then the outer passes continue
ExecDirectAuthorize ==
    /\ pc = "xd_auth"
    /\ LET local == stmt.target = "self"
           t     == ExecDirectType(local, inner.cmd)
       IN  /\ xdType' = t
           /\ IF ExecDirectRefused(t, inner.util)
              THEN /\ pc' = "catch"
                   /\ UNCHANGED result
              ELSE /\ result' = IF local THEN inner ELSE [inner EXCEPT !.util = "REMOTE"]
                   /\ pc' = IF entry = "gram" THEN "joinon" ELSE "params"
    /\ UNCHANGED <<stack, entry, grammar, stmt, checked, stack0, isDatanode, maint, inner>>

Next == \/ Push \/ Analyze \/ Raise \/ JoinOnAndRownum \/ Params \/ Hook \/ Catch \/ Return
        \/ ExecDirectCheck \/ ExecDirectPush \/ ExecDirectAnalyze \/ ExecDirectRaise
        \/ ExecDirectCatch \/ ExecDirectReturn \/ ExecDirectAuthorize

\* one backend runs the call straight through: every enabled step is taken
Spec == Init /\ [][Next]_vars /\ WF_vars(Next)

-----------------------------------------------------------------------------
Exits == {"returned", "raised"}
Inside == {"analyze", "joinon", "params", "hook", "free", "catch",
           "xd_push", "xd_analyze", "xd_free", "xd_catch", "xd_auth"}

\* while the nested parse_analyze holds its own path
Nested == {"xd_analyze", "xd_free", "xd_catch"}

TypeOK ==
    /\ pc \in {"push"} \cup Inside \cup Exits
    /\ stack \in Seq(STRING)
    /\ Len(stack) \in Len(stack0) .. Len(stack0) + 2
    /\ xdType \in {"NONE", "LOCAL", "LOCAL_UTILITY", "UTILITY", "SELECT",
                   "INSERT", "UPDATE", "DELETE"}
    /\ checked \in BOOLEAN
    /\ result.ok \in BOOLEAN

\* the stack as the caller sees it: the nested call's path hidden
OuterStack == IF pc \in Nested THEN PopPath(stack) ELSE stack

Phase == CASE pc = "push" -> "idle" [] pc \in Inside -> "in" [] OTHER -> "out"

Bracket == INSTANCE OverrideSearchPath
               WITH stack <- OuterStack, phase <- Phase, path <- PathFor(grammar),
                    Paths <- {PathFor(g) : g \in Grammars}

\* Spec 4.1 and 7: parse_analyze_for_gram and parse_analyze_varparams_for_gram
\* implement the search-path bracket: the grammar's path is pushed once,
\* stays on top through the transformation, the join-on check, parameter
\* checks and the hook, is popped exactly once on the normal return and in
\* PG_CATCH, and the call always gets there. The nested parse_analyze of
\* EXECUTE DIRECT pushes and pops above it and leaves it as it found it.
SearchPathBracket == Bracket!Spec

\* EXECUTE DIRECT (the distributed execution shim): without maintenance mode an accepted
\* EXECUTE DIRECT of one statement runs on another node only a SELECT or a
\* whitelisted utility (CREATE/DROP TABLESPACE), and runs no utility on
\* this coordinator; the statement was analysed by the nested call.
ExecDirectAuthorized ==
    (pc = "returned" /\ stmt.tag = "EXECDIRECT" /\ ~maint /\ Len(stmt.queries) = 1)
        => /\ inner.ok
           /\ IF stmt.target = "self" THEN inner.cmd # "UTILITY"
              ELSE \/ inner.cmd = "SELECT"
                   \/ inner.cmd = "UTILITY" /\ Whitelisted(inner.util)

RECURSIVE HasSelect(_)
HasSelect(s) ==
    \/ s.tag = "SELECT"
    \/ s.tag \in {"DECLARE", "EXPLAIN", "CTAS"} /\ HasSelect(s.query)

\* Spec 4.11: in the alternate grammar the (+) markers of explicit JOIN ...
\* ON clauses are checked and stripped by check_joinon_column_join, which
\* parse_analyze_for_gram runs after the transformation. A statement that
\* contains a SELECT and is analysed without error has had it applied.
DialectJoinOnChecked ==
    (pc = "returned" /\ grammar = "ORACLE" /\ HasSelect(stmt)) => checked

\* "Holdable/Scrollable/Insensitive cursors must be READ ONLY"
\* (transformDeclareCursorStmt): a cursor with HOLD, SCROLL or INSENSITIVE
\* that is accepted locks no rows, at any level of its query.
HoldableCursorsReadOnly ==
    (pc = "returned" /\ stmt.tag = "DECLARE" /\ stmt.opts \cap ReadOnlyOpts # {})
        => stmt.query.lock = "none"

=============================================================================
