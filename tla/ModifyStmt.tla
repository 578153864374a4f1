------------------------------ MODULE ModifyStmt ------------------------------
(***************************************************************************)
(* INSERT, UPDATE and DELETE in src/src/backend/parser/analyze.c:          *)
(* transformInsertStmt(), transformInsertRow(), transformUpdateStmt(),     *)
(* transformDeleteStmt() and transformReturningList().                     *)
(*                                                                         *)
(* INSERT opens the target with setTargetTable() before the source is      *)
(* analysed; the source is DEFAULT VALUES, one VALUES row, several VALUES  *)
(* rows (a VALUES range-table entry), or a general SELECT analysed in a    *)
(* child parse state as a "*SELECT*" subquery. In the alternate grammar    *)
(* the target is also added to the namespace.                              *)
(*                                                                         *)
(* UPDATE and DELETE open the target as a source too, hide it from the     *)
(* FROM/USING items while those are transformed, then transform the SET    *)
(* list, WHERE and RETURNING; UPDATE finally binds each SET entry to its   *)
(* column and renumbers resjunk entries past the table's columns.          *)
(*                                                                         *)
(* A range-table entry is a record with its kind; a namespace item is the  *)
(* index of its entry. A VALUES item is "const", a column name of the      *)
(* target ("col"), or a NEW/OLD reference of a rule ("rule"). A member of  *)
(* a SELECT target list is a Const, Param or Var, of UNKNOWN type or not,  *)
(* junk or not. A FROM/USING item is a relation ("rel") or a subquery that *)
(* names the target ("subref"). Expression transformation and coercion are *)
(* not modelled beyond what resolves or fails.                             *)
(***************************************************************************)
EXTENDS Integers, Sequences, FiniteSets

CONSTANTS
    Stmts,       \* raw InsertStmts, UpdateStmts and DeleteStmts
    Grammars,    \* "POSTGRES", "ORACLE"
    RuleRtables, \* range tables a caller passes in: <<>>, or OLD/NEW of a rule
    NCols,       \* columns of the target table
    Inherits     \* pg_inherits: <<parent, child>> pairs of relation names

VARIABLES
    stmt, grammar,
    rtable,      \* pstate->p_rtable
    namespace,   \* pstate->p_namespace: indexes of visible entries
    joinlist,    \* pstate->p_joinlist
    sub,         \* sub_rtable / sub_namespace parked for a general SELECT
    result,      \* qry->resultRelation
    icols,       \* attrnos from checkInsertTargets
    exprs,       \* exprList
    tlist,       \* qry->targetList
    modified,    \* target_rte->modifiedCols
    lateralOnly, \* p_lateral_only of the target's namespace item
    nextResno,   \* pstate->p_next_resno
    rlist,       \* qry->returningList: its resnos
    coord,       \* IS_PGXC_COORDINATOR && !IsConnFromCoord()
    saveCmdId,   \* qry->has_to_save_cmd_id
    sendCmdId,   \* the session's SetSendCommandId flag
    pc

vars == <<stmt, grammar, rtable, namespace, joinlist, sub, result, icols,
          exprs, tlist, modified, lateralOnly, nextResno, rlist, coord, saveCmdId,
          sendCmdId, pc>>

\* the variables only UPDATE, DELETE and RETURNING change
udVars == <<lateralOnly, nextResno, rlist>>

\* the command-id propagation flags of PGXC
cmdVars == <<coord, saveCmdId, sendCmdId>>

-----------------------------------------------------------------------------
Target == [kind |-> "RELATION", lateral |-> FALSE, vars |-> {}]

\* VALUES with ORDER BY/LIMIT/FOR UPDATE/WITH is a general SELECT
IsGeneralSelect(s) == s.src = "select"

\* checkInsertTargets (parse_target.c): an explicit list names existing,
\* distinct columns; no list means every column in order
InsertTargets(cols) ==
    IF cols = <<>> THEN [ok |-> TRUE, attrnos |-> [i \in 1..NCols |-> i]]
    ELSE [ok |-> \A i \in DOMAIN cols :
                    cols[i] \in 1..NCols /\ \A j \in DOMAIN cols : j # i => cols[j] # cols[i],
          attrnos |-> cols]

\* transformExpression of one VALUES item: a column of the target resolves
\* only if the target is in the namespace, a NEW/OLD reference only in a rule
Resolve(e, ns, res) ==
    CASE e = "const" -> [ok |-> TRUE, var |-> 0]
      [] e = "col"   -> [ok |-> res \in ns, var |-> res]
      [] e = "rule"  -> [ok |-> 1 \in ns /\ 1 # res, var |-> 1]

ResolveRow(row, ns, res) == [i \in DOMAIN row |-> Resolve(row[i], ns, res)]

\* mutant: fewer expressions than an explicit column list accepted
InsertRowNoShortCheck(n, cols, attrnos) == n <= Len(attrnos)

\* transformInsertRow's arity checks
InsertRow(n, cols, attrnos) ==
    /\ n <= Len(attrnos)
    /\ cols # <<>> => n >= Len(attrnos)

\* the SELECT's non-junk entries: UNKNOWN Const/Param copied up as they are,
\* everything else a Var of the "*SELECT*" entry
SelectExprs(tl, rti) ==
    LET keep == SelectSeq(tl, LAMBDA t : ~t.junk)
    IN  [i \in DOMAIN keep |->
           IF keep[i].kind \in {"Const", "Param"} /\ keep[i].type = "unknown"
           THEN [var |-> 0, type |-> "unknown"]
           ELSE [var |-> rti, type |-> keep[i].type]]

-----------------------------------------------------------------------------
Init ==
    /\ stmt \in Stmts
    /\ grammar \in Grammars
    /\ rtable \in RuleRtables
    /\ namespace = DOMAIN rtable
    /\ joinlist = <<>>
    /\ sub = [rtable |-> <<>>, namespace |-> {}]
    /\ result = 0
    /\ icols = <<>>
    /\ exprs = <<>>
    /\ tlist = <<>>
    /\ modified = {}
    /\ lateralOnly = FALSE
    /\ nextResno = 1
    /\ rlist = <<>>
    /\ coord \in BOOLEAN
    /\ saveCmdId = FALSE
    /\ sendCmdId = FALSE
    /\ pc = "start"

\* WITH; isGeneralSelect; a general SELECT parks the outer range table and
\* namespace for the sub-SELECT
Begin ==
    /\ pc = "start" /\ stmt.cmd = "INSERT"
    /\ IF IsGeneralSelect(stmt)
       THEN /\ sub' = [rtable |-> rtable, namespace |-> namespace]
            /\ rtable' = <<>>
            /\ namespace' = {}
       ELSE UNCHANGED <<sub, rtable, namespace>>
    /\ pc' = "target"
    /\ UNCHANGED <<stmt, grammar, joinlist, result, icols, exprs, tlist, modified>>
    /\ UNCHANGED udVars
    /\ UNCHANGED cmdVars

\* setTargetTable(..., ACL_INSERT); in the alternate grammar addRTEtoQuery
\* makes the target visible; checkInsertTargets
SetTarget ==
    /\ pc = "target"
    /\ LET it == InsertTargets(stmt.cols) IN
         /\ rtable' = Append(rtable, Target)
         /\ result' = Len(rtable) + 1
         /\ namespace' = IF grammar = "ORACLE" THEN namespace \cup {Len(rtable) + 1}
                         ELSE namespace
         /\ icols' = it.attrnos
         /\ pc' = IF it.ok THEN "source" ELSE "error"
    /\ UNCHANGED <<stmt, grammar, joinlist, sub, exprs, tlist, modified>>
    /\ UNCHANGED udVars
    /\ UNCHANGED cmdVars

\* INSERT ... DEFAULT VALUES: an empty expression list
SourceDefault ==
    /\ pc = "source" /\ stmt.src = "default"
    /\ exprs' = <<>>
    /\ pc' = "tlist"
    /\ UNCHANGED <<stmt, grammar, rtable, namespace, joinlist, sub, result, icols, tlist, modified>>
    /\ UNCHANGED udVars
    /\ UNCHANGED cmdVars

\* is_rel_child_of_rel: the entry is a relation expanded with inheritance
\* and pg_inherits lists child among its children
IsRelChildOfRel(child, e) == e.kind = "RELATION" /\ e.inh /\ <<e.rel, child>> \in Inherits

RECURSIVE IsRelationChild(_, _)
\* is_relation_child over a SELECT's range table: relation entries are
\* tested in order, and the first subquery entry returns its own answer
IsRelationChild(child, rt) ==
    IF rt = <<>> THEN FALSE
    ELSE LET e == Head(rt) IN
         IF IsRelChildOfRel(child, e) THEN TRUE
         ELSE IF e.kind = "SUBQUERY" THEN IsRelationChild(child, e.rtable)
         ELSE IsRelationChild(child, Tail(rt))

\* the INSERT ... SELECT part of transformInsertStmt's PGXC block: on a
\* coordinator not reached from another one, a SELECT scanning a parent of
\* the target latches command-id propagation on the Query and the session
CmdIdForSelect ==
    LET flag == coord /\ IsRelationChild(stmt.rel, stmt.srcRtable) IN
    /\ saveCmdId' = flag
    /\ sendCmdId' = (sendCmdId \/ flag)
    /\ UNCHANGED coord

\* the PGXC part of UPDATE's and DELETE's WITH clause: a CTE that is an
\* INSERT latches command-id propagation
CteInsertFlag == coord /\ \E i \in DOMAIN stmt.ctes : stmt.ctes[i] = "INSERT"

\* mutant: the RangeTblRef takes the length from before the subquery is added
SourceSelectIndexLag ==
    /\ pc = "source" /\ stmt.src = "select"
    /\ LET rti == Len(rtable)
            es  == SelectExprs(stmt.tl, rti)
        IN  /\ rtable' = Append(rtable, [kind |-> "SUBQUERY", lateral |-> FALSE, vars |-> {}])
            /\ joinlist' = Append(joinlist, rti)
            /\ exprs' = es
            /\ pc' = IF InsertRow(Len(es), stmt.cols, icols) THEN "tlist" ELSE "error"
    /\ UNCHANGED <<stmt, grammar, namespace, sub, result, icols, tlist, modified>>
    /\ UNCHANGED udVars
    /\ CmdIdForSelect

\* a general SELECT: transformStmt in a child parse state over the parked
\* range table and namespace, the "*SELECT*" subquery entry, its
\* RangeTblRef in the join list, the PGXC command-id check against the
\* SELECT's range table, the expression list, transformInsertRow
SourceSelect ==
    /\ pc = "source" /\ stmt.src = "select"
    /\ LET rti == Len(rtable) + 1
            es  == SelectExprs(stmt.tl, rti)
        IN  /\ rtable' = Append(rtable, [kind |-> "SUBQUERY", lateral |-> FALSE, vars |-> {}])
            /\ joinlist' = Append(joinlist, rti)
            /\ exprs' = es
            /\ pc' = IF InsertRow(Len(es), stmt.cols, icols) THEN "tlist" ELSE "error"
    /\ UNCHANGED <<stmt, grammar, namespace, sub, result, icols, tlist, modified>>
    /\ UNCHANGED udVars
    /\ CmdIdForSelect

\* several VALUES rows: each is transformed (an unresolvable name fails),
\* must be as long as the first, and goes through transformInsertRow; the
\* entry is LATERAL if the range table holds more than the target and the
\* rows contain Vars of this level
SourceValues ==
    /\ pc = "source" /\ stmt.src = "values"
    /\ LET rs   == [r \in DOMAIN stmt.rows |-> ResolveRow(stmt.rows[r], namespace, result)]
            ok   == \A r \in DOMAIN rs : \A i \in DOMAIN rs[r] : rs[r][i].ok
            len  == Len(stmt.rows[1])
            vs   == UNION {{rs[r][i].var : i \in DOMAIN rs[r]} : r \in DOMAIN rs} \ {0}
            rti  == Len(rtable) + 1
        IN  IF ok /\ \A r \in DOMAIN rs : Len(rs[r]) = len /\ InsertRow(len, stmt.cols, icols)
            THEN /\ rtable' = Append(rtable, [kind |-> "VALUES",
                                              lateral |-> Len(rtable) # 1 /\ vs # {},
                                              vars |-> vs])
                 /\ joinlist' = Append(joinlist, rti)
                 /\ exprs' = [i \in 1..len |-> [var |-> rti, type |-> "values"]]
                 /\ pc' = "tlist"
            ELSE /\ pc' = "error"
                 /\ UNCHANGED <<rtable, joinlist, exprs>>
    /\ UNCHANGED <<stmt, grammar, namespace, sub, result, icols, tlist, modified>>
    /\ UNCHANGED udVars
    /\ UNCHANGED cmdVars

\* one VALUES row: transformed as the target list directly, no entry
SourceValues1 ==
    /\ pc = "source" /\ stmt.src = "values1"
    /\ LET rs == ResolveRow(stmt.rows[1], namespace, result) IN
         IF (\A i \in DOMAIN rs : rs[i].ok) /\ InsertRow(Len(rs), stmt.cols, icols)
         THEN /\ exprs' = [i \in DOMAIN rs |-> [var |-> rs[i].var, type |-> "values"]]
              /\ pc' = "tlist"
         ELSE /\ pc' = "error"
              /\ UNCHANGED exprs
    /\ UNCHANGED <<stmt, grammar, rtable, namespace, joinlist, sub, result, icols, tlist, modified>>
    /\ UNCHANGED udVars
    /\ UNCHANGED cmdVars

\* the target list: one entry per expression with resno = its attrno, and
\* the attrno added to modifiedCols
TargetList ==
    /\ pc = "tlist"
    /\ tlist' = [i \in DOMAIN exprs |-> [resno |-> icols[i], junk |-> FALSE, expr |-> exprs[i]]]
    /\ modified' = {icols[i] : i \in DOMAIN exprs}
    /\ pc' = "returning"
    /\ UNCHANGED <<stmt, grammar, rtable, namespace, joinlist, sub, result, icols, exprs>>
    /\ UNCHANGED udVars
    /\ UNCHANGED cmdVars

Max2(a, b) == IF a > b THEN a ELSE b

\* a FROM or USING item that is not a subquery naming the target
Rel == [kind |-> "RELATION", lateral |-> FALSE, vars |-> {}]

\* transformFromClause (parse_clause.c): a subquery that names the target
\* fails while the target's item is lateral-only and not lateral-ok
\* (spec 4.4); the other items join the range table
FromClause(items, hidden) ==
    [ok   |-> ~(hidden /\ \E i \in DOMAIN items : items[i] = "subref"),
     rels |-> Len(SelectSeq(items, LAMBDA x : x = "rel"))]

\* the WITH clause (its command-id check; transformWithClause itself is
\* outside this file) and setTargetTable(..., alsoSource = true): the
\* target joins the range
\* table, the join list and the namespace; its namespace item is then made
\* lateral-only for the FROM/USING clause
OpenTargetAsSource ==
    /\ pc = "start"
    /\ rtable' = Append(rtable, Target)
    /\ result' = Len(rtable) + 1
    /\ joinlist' = Append(joinlist, Len(rtable) + 1)
    /\ namespace' = namespace \cup {Len(rtable) + 1}
    /\ lateralOnly' = TRUE
    /\ saveCmdId' = CteInsertFlag
    /\ sendCmdId' = (sendCmdId \/ CteInsertFlag)
    /\ pc' = "from"
    /\ UNCHANGED <<stmt, grammar, sub, icols, exprs, tlist, modified, nextResno, rlist, coord>>

DeleteTarget == stmt.cmd = "DELETE" /\ OpenTargetAsSource

UpdateTarget == stmt.cmd = "UPDATE" /\ OpenTargetAsSource

\* mutant: the target's item is left lateral-only after the FROM clause
FromStepNoRestore(next) ==
    /\ pc = "from"
    /\ LET fc == FromClause(stmt.from, lateralOnly)
            t  == Len(rtable)
        IN  /\ rtable' = rtable \o [i \in 1..fc.rels |-> Rel]
            /\ joinlist' = joinlist \o [i \in 1..fc.rels |-> t + i]
            /\ namespace' = namespace \cup {t + i : i \in 1..fc.rels}
            /\ pc' = IF fc.ok THEN next ELSE "error"
    /\ lateralOnly' = TRUE
    /\ UNCHANGED <<stmt, grammar, sub, result, icols, exprs, tlist, modified, nextResno, rlist>>
    /\ UNCHANGED cmdVars

\* the FROM/USING clause under the lateral-only target, then the target's
\* item made visible again for the remaining clauses
FromStep(next) ==
    /\ pc = "from"
    /\ LET fc == FromClause(stmt.from, lateralOnly)
            t  == Len(rtable)
        IN  /\ rtable' = rtable \o [i \in 1..fc.rels |-> Rel]
            /\ joinlist' = joinlist \o [i \in 1..fc.rels |-> t + i]
            /\ namespace' = namespace \cup {t + i : i \in 1..fc.rels}
            /\ pc' = IF fc.ok THEN next ELSE "error"
    /\ lateralOnly' = FALSE
    /\ UNCHANGED <<stmt, grammar, sub, result, icols, exprs, tlist, modified, nextResno, rlist>>
    /\ UNCHANGED cmdVars

DeleteUsing == stmt.cmd = "DELETE" /\ FromStep("where")

UpdateFrom == stmt.cmd = "UPDATE" /\ FromStep("utlist")

\* transformTargetList of the SET list: one entry per SET item, numbered
\* from p_next_resno, then the resjunk entries the spec allows (4.6)
UpdateTargetList ==
    /\ pc = "utlist"
    /\ LET n == Len(stmt.set) IN
         /\ tlist' = [i \in 1..n + stmt.junk |->
                        [resno |-> nextResno + i - 1, junk |-> i > n,
                         expr |-> [var |-> 0, type |-> "set"]]]
         /\ nextResno' = nextResno + n + stmt.junk
    /\ pc' = "where"
    /\ UNCHANGED <<stmt, grammar, rtable, namespace, joinlist, sub, result, icols,
                   exprs, modified, lateralOnly, rlist>>
    /\ UNCHANGED cmdVars

\* transformWhereClause: a reference to the target resolves only if its
\* item is in the namespace and no longer lateral-only
WhereClause ==
    /\ pc = "where"
    /\ pc' = IF stmt.where = "none" \/ (result \in namespace /\ ~lateralOnly)
             THEN "returning" ELSE "error"
    /\ UNCHANGED <<stmt, grammar, rtable, namespace, joinlist, sub, result, icols,
                   exprs, tlist, modified, lateralOnly, nextResno, rlist>>
    /\ UNCHANGED cmdVars

\* RETURNING: INSERT first empties the namespace and adds the target;
\* transformReturningList saves p_next_resno, numbers the list from 1 and
\* restores it
ReturningList ==
    /\ pc = "returning"
    /\ LET k == stmt.returning IN
         /\ namespace' = IF stmt.cmd = "INSERT" /\ k > 0 THEN {result} ELSE namespace
         /\ rlist' = [i \in 1..k |-> i]
    /\ pc' = IF stmt.cmd = "UPDATE" THEN "renumber" ELSE "done"
    \* p_next_resno is back at its saved value
    /\ UNCHANGED <<stmt, grammar, rtable, joinlist, sub, result, icols, exprs,
                   tlist, modified, lateralOnly, nextResno>>
    /\ UNCHANGED cmdVars

\* mutant: the entries leave renumbering with resjunk cleared
RenumberedJunkCleared(start) ==
    LET before(i, j) == Cardinality({k \in 1..i - 1 : tlist[k].junk = j})
    IN  [i \in DOMAIN tlist |->
           [tlist[i] EXCEPT !.resno = IF tlist[i].junk THEN start + before(i, TRUE)
                                      ELSE stmt.set[before(i, FALSE) + 1],
                            !.junk = FALSE]]

\* the non-junk entries, in order, each bound to the next SET item's column;
\* junk entries numbered on from start
Renumbered(start) ==
    LET before(i, j) == Cardinality({k \in 1..i - 1 : tlist[k].junk = j})
    IN  [i \in DOMAIN tlist |->
           [tlist[i] EXCEPT !.resno = IF tlist[i].junk THEN start + before(i, TRUE)
                                      ELSE stmt.set[before(i, FALSE) + 1]]]

\* the SET items that are bound, and whether each names a column
UpdateBinds ==
    LET nonjunk == Cardinality({i \in DOMAIN tlist : ~tlist[i].junk}) IN
    /\ nonjunk = Len(stmt.set)
    /\ \A i \in DOMAIN stmt.set : stmt.set[i] \in 1..NCols

\* mutant: p_next_resno raised only when below the column count
UpdateRenumberBoundary ==
    /\ pc = "renumber"
    /\ LET start == IF nextResno < NCols THEN NCols + 1 ELSE nextResno
            nj    == Cardinality({i \in DOMAIN tlist : tlist[i].junk})
        IN  IF UpdateBinds
            THEN /\ tlist' = Renumbered(start)
                 /\ modified' = {stmt.set[i] : i \in DOMAIN stmt.set}
                 /\ nextResno' = start + nj
                 /\ pc' = "done"
            ELSE /\ pc' = "error"
                 /\ UNCHANGED <<tlist, modified, nextResno>>
    /\ UNCHANGED <<stmt, grammar, rtable, namespace, joinlist, sub, result, icols,
                   exprs, lateralOnly, rlist>>
    /\ UNCHANGED cmdVars

\* p_next_resno raised past relnatts; resjunk entries take the next numbers;
\* each other entry takes the attrno of its SET column (attnameAttNum, an
\* unknown column fails) and marks it in modifiedCols; a count mismatch is
\* the internal error
UpdateRenumber ==
    /\ pc = "renumber"
    /\ LET start == IF nextResno <= NCols THEN NCols + 1 ELSE nextResno
            nj    == Cardinality({i \in DOMAIN tlist : tlist[i].junk})
        IN  IF UpdateBinds
            THEN /\ tlist' = Renumbered(start)
                 /\ modified' = {stmt.set[i] : i \in DOMAIN stmt.set}
                 /\ nextResno' = start + nj
                 /\ pc' = "done"
            ELSE /\ pc' = "error"
                 /\ UNCHANGED <<tlist, modified, nextResno>>
    /\ UNCHANGED <<stmt, grammar, rtable, namespace, joinlist, sub, result, icols,
                   exprs, lateralOnly, rlist>>
    /\ UNCHANGED cmdVars

Next == \/ Begin \/ SetTarget \/ SourceDefault \/ SourceSelect \/ SourceValues
        \/ SourceValues1 \/ TargetList
        \/ DeleteTarget \/ DeleteUsing \/ UpdateTarget \/ UpdateFrom
        \/ UpdateTargetList \/ WhereClause \/ ReturningList \/ UpdateRenumber

Spec == Init /\ [][Next]_vars /\ WF_vars(Next)

-----------------------------------------------------------------------------
TypeOK ==
    /\ pc \in {"start", "target", "source", "tlist", "from", "utlist", "where",
              "returning", "renumber", "done", "error"}
    /\ result \in 0..Len(rtable)
    /\ lateralOnly \in BOOLEAN
    /\ nextResno \in Nat \ {0}
    /\ \A i \in DOMAIN tlist : ~tlist[i].junk => tlist[i].resno \in 1..NCols
    /\ \A i \in DOMAIN rlist : rlist[i] = i
    /\ \A i \in DOMAIN exprs : exprs[i].var \in 0..Len(rtable)
    /\ {coord, saveCmdId, sendCmdId} \subseteq BOOLEAN

\* Spec 8 and 4.5 step 7: the target list assigns each listed column once:
\* resnos are distinct attribute numbers, modifiedCols is exactly their set,
\* and with an explicit column list every listed column is assigned.
TargetListMatchesColumns ==
    stmt.cmd = "INSERT" /\ pc = "done" =>
        /\ \A i, j \in DOMAIN tlist : i # j => tlist[i].resno # tlist[j].resno
        /\ modified = {tlist[i].resno : i \in DOMAIN tlist}
        /\ stmt.cols # <<>> /\ stmt.src # "default" =>
               modified = {stmt.cols[i] : i \in DOMAIN stmt.cols}

\* The source is wired to its own entry: a SELECT or multi-row VALUES is one
\* RangeTblRef in the join list, to a "*SELECT*" subquery or VALUES entry
\* that is not the target, and every Var of the expressions refers to it;
\* DEFAULT VALUES and a single row add nothing to the join list.
SourceRefsExact ==
    stmt.cmd = "INSERT" /\ pc = "done" =>
        /\ rtable[result] = Target
        /\ IF stmt.src \in {"select", "values"}
           THEN /\ Len(joinlist) = 1
                /\ rtable[joinlist[1]].kind \in {"SUBQUERY", "VALUES"}
                /\ \A i \in DOMAIN exprs : exprs[i].var \in {0, joinlist[1]}
           ELSE joinlist = <<>>

\* Spec 4.4 and 4.6: UPDATE and DELETE fail exactly when a FROM/USING
\* subquery names the target or a SET item names no column. The target's
\* namespace item is lateral-only while FROM/USING is transformed and must
\* be visible again for WHERE, so a WHERE on the target is accepted.
TargetHiddenOnlyFromFromClause ==
    stmt.cmd \in {"UPDATE", "DELETE"} /\ pc \in {"done", "error"} =>
        (pc = "error" <=>
            \/ \E i \in DOMAIN stmt.from : stmt.from[i] = "subref"
            \/ stmt.cmd = "UPDATE" /\ \E i \in DOMAIN stmt.set : stmt.set[i] \notin 1..NCols)

\* Spec 8 and 4.6: UPDATE keeps one target entry per transformed entry;
\* each SET entry's resno is its column's attrno and modifiedCols is their
\* set; resjunk entries get distinct resnos past every column of the table,
\* numbered on from the transformed list's own numbering, also after
\* RETURNING has numbered its list from 1 in between.
UpdateTargetListMatchesColumns ==
    stmt.cmd = "UPDATE" /\ pc = "done" =>
        /\ Len(tlist) = Len(stmt.set) + stmt.junk
        /\ \A i \in DOMAIN stmt.set : ~tlist[i].junk /\ tlist[i].resno = stmt.set[i]
        /\ modified = {stmt.set[i] : i \in DOMAIN stmt.set}
        /\ \A i \in DOMAIN tlist : tlist[i].junk =>
               /\ tlist[i].resno > NCols
               /\ tlist[i].resno <= Max2(Len(tlist), NCols) + stmt.junk
               /\ \A j \in DOMAIN tlist : j # i => tlist[j].resno # tlist[i].resno

RECURSIVE ScannedRels(_)
\* every relation entry of a range table and of its subqueries, at any depth
\* and in any position
ScannedRels(rt) ==
    UNION {IF rt[i].kind = "SUBQUERY" THEN ScannedRels(rt[i].rtable) ELSE {rt[i]} :
           i \in DOMAIN rt}

\* the SELECT scans, with inheritance, a parent of the INSERT's target
ReadsParentOf(child, rt) == \E e \in ScannedRels(rt) : IsRelChildOfRel(child, e)

\* The PGXC blocks of transformInsertStmt, transformUpdateStmt and
\* transformDeleteStmt, with is_relation_child's header ("whether the
\* rtable (and its subqueries) contain any relation who is the parent"): on
\* a coordinator, a finished INSERT ... SELECT saves command ids exactly
\* when its SELECT scans a parent of the target, an UPDATE or DELETE exactly
\* when a CTE inserts, and a saved Query has also set the session's flag.
CmdIdSavedWhenNeeded ==
    (pc = "done" /\ coord) =>
        /\ saveCmdId = IF stmt.cmd = "INSERT"
                       THEN stmt.src = "select" /\ ReadsParentOf(stmt.rel, stmt.srcRtable)
                       ELSE \E k \in DOMAIN stmt.ctes : stmt.ctes[k] = "INSERT"
        /\ saveCmdId => sendCmdId

\* Spec 3, invariant 3: the target list is in ascending resno order and no
\* two non-junk entries share a resno; UPDATE binds SET entries in the
\* order written, and analyze.c does not reject a column assigned twice.
TargetListOrdered ==
    pc = "done" =>
        \A i, j \in DOMAIN tlist : i < j /\ ~tlist[i].junk /\ ~tlist[j].junk =>
            tlist[i].resno < tlist[j].resno

\* Spec 4.5 step 4: a multi-row VALUES entry is marked LATERAL when its
\* rows contain Vars of the INSERT's own level; the code infers this from
\* the range table holding more than the target.
ValuesLateralWhenCurrentVars ==
    stmt.cmd = "INSERT" /\ pc = "done" /\ stmt.src = "values" =>
        (rtable[joinlist[1]].lateral <=> rtable[joinlist[1]].vars # {})

=============================================================================
