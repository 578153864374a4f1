---------------------------- MODULE SetOperations ----------------------------
(***************************************************************************)
(* UNION / INTERSECT / EXCEPT in src/src/backend/parser/analyze.c:         *)
(* transformSetOperationStmt() checks and strips the top-level clauses,    *)
(* transformSetOperationTree() turns the tree post-order into subquery     *)
(* range-table entries ("*SELECT* n") and SetOperationStmt nodes with a    *)
(* common type, typmod and collation per column, then the outer query gets *)
(* a target list of Vars over the leftmost leaf and its ORDER BY is        *)
(* resolved through a temporary join RTE that is truncated away again.     *)
(*                                                                         *)
(* A leaf SELECT is abstracted to its output columns: type, typmod, node   *)
(* kind (an UNKNOWN Const or Param is replaced in place by its coercion)   *)
(* and collation. An internal node with its own ORDER BY/LIMIT/WITH is     *)
(* "isolated": analysed as an independent subquery.                        *)
(***************************************************************************)
EXTENDS Integers, Sequences, FiniteSets

CONSTANTS
    Stmts,       \* set-operation statements
    Cat,         \* type -> type category (TYPCATEGORY)
    Rank         \* type -> preference inside its category

VARIABLES
    stmt,        \* the statement being analysed
    rtable,      \* pstate->p_rtable: one subquery entry per leaf
    sostmt,      \* qry->setOperations
    ltl,         \* the left arm's target list at the top (recursive CTEs)
    tlist,       \* qry->targetList
    svLen,       \* sv_rtable_length
    cte,         \* column types given to the parent recursive CTE
    pc

vars == <<stmt, rtable, sostmt, ltl, tlist, svLen, cte, pc>>

-----------------------------------------------------------------------------
\* select_common_type (parse_coerce.c): two UNKNOWNs resolve to text, one
\* UNKNOWN takes the other's type, different categories fail, otherwise the
\* preferred type of the category wins
CommonType(l, r) ==
    CASE l = "unknown" /\ r = "unknown" -> "text"
      [] l = "unknown" -> r
      [] r = "unknown" -> l
      [] Cat[l] # Cat[r] -> "error"
      [] OTHER -> IF Rank[r] > Rank[l] THEN r ELSE l

\* select_common_collation (parse_collate.c); none_ok for UNION ALL
CommonColl(a, b, noneOk) ==
    CASE a = b -> a
      [] a = "none" -> b
      [] b = "none" -> a
      [] OTHER -> IF noneOk THEN "none" ELSE "error"

UnknownLit(e) == e.type = "unknown" /\ e.kind \in {"Const", "Param"}

\* mutant: the typmod of the left column kept whenever the types agree
ColumnTypmodLeft(l, r, op, all) ==
    LET t == CommonType(l.type, r.type)
        c == CommonColl(l.coll, r.coll, op = "UNION" /\ all)
    IN  [type |-> t, typmod |-> IF l.type = r.type THEN l.typmod ELSE -1,
         coll |-> c, err |-> t = "error" \/ c = "error"]

\* one column of an internal node: select_common_type, the typmod rule,
\* select_common_collation (errors abort the statement)
Column(l, r, op, all) ==
    LET t == CommonType(l.type, r.type)
        c == CommonColl(l.coll, r.coll, op = "UNION" /\ all)
    IN  [type |-> t,
         typmod |-> IF l.type = r.type /\ l.typmod = r.typmod THEN l.typmod ELSE -1,
         coll |-> c, err |-> t = "error" \/ c = "error"]

\* the leaf's non-junk target list, each entry remembering its leaf's rtindex
Tles(cols, rti) ==
    [c \in DOMAIN cols |-> [type |-> cols[c].type, typmod |-> cols[c].typmod,
                            kind |-> cols[c].kind, coll |-> cols[c].coll, at |-> rti]]

Fail(st) == [err |-> TRUE, st |-> st]

\* mutant: only the left child's UNKNOWN literal is replaced in place
ReplaceLeftOnly(rt, ltes, rtes, res) ==
    [i \in DOMAIN rt |-> [rt[i] EXCEPT !.cols =
        [c \in DOMAIN @ |-> IF c \in DOMAIN res /\ ltes[c].at = i /\ UnknownLit(ltes[c])
                            THEN [@[c] EXCEPT !.type = res[c].type] ELSE @[c]]]]

\* "ltle->expr = coerce_to_common_type(...)" for an UNKNOWN Const or Param
\* of a leaf child, on either side
Replace(rt, ltes, rtes, res) ==
    [i \in DOMAIN rt |-> [rt[i] EXCEPT !.cols =
        [c \in DOMAIN @ |-> IF /\ c \in DOMAIN res
                               /\ \/ ltes[c].at = i /\ UnknownLit(ltes[c])
                                  \/ rtes[c].at = i /\ UnknownLit(rtes[c])
                            THEN [@[c] EXCEPT !.type = res[c].type] ELSE @[c]]]]

-----------------------------------------------------------------------------
\* transformValuesClause: a leaf "VALUES (...), (...)" of the set operation.
\* An item is a column record; kind "Star" is a "rel.*" reference and kind
\* "SetToDefault" a DEFAULT.

\* the elements of a finite set of integers in ascending order
Ascending(S) == [k \in 1..Cardinality(S) |-> CHOOSE x \in S : Cardinality({y \in S : y <= x}) = k]

\* transformExpressionList (EXPR_KIND_VALUES): "rel.*" expands in place to
\* the two columns of its relation, every other item stays as it is
ExpandRow(row) ==
    LET width(j) == IF row[j].kind = "Star" THEN 2 ELSE 1
        pos == Ascending(UNION {{3 * j + m : m \in 1..width(j)} : j \in DOMAIN row})
        item(j) == IF row[j].kind = "Star" THEN [row[j] EXCEPT !.kind = "Var"] ELSE row[j]
    IN  [k \in DOMAIN pos |-> item(pos[k] \div 3)]

\* mutant: the length compared before '*' is expanded; each column then
\* collects the items of the rows long enough to have one
ValuesRowsRawLength(rows) ==
    LET ex == [r \in DOMAIN rows |-> ExpandRow(rows[r])]
        has(i) == Ascending({r \in DOMAIN ex : i <= Len(ex[r])})
    IN  [err |-> \/ \E r \in DOMAIN rows : Len(rows[r]) # Len(rows[1])
                 \/ \E r \in DOMAIN ex : \E i \in DOMAIN ex[r] : ex[r][i].kind = "SetToDefault",
         len |-> Len(ex[1]),
         colexprs |-> [i \in 1..Len(ex[1]) |-> [k \in DOMAIN has(i) |-> ex[has(i)[k]][i]]]]

\* the row loop: every row, after expansion, must be as long as the first
\* ("VALUES lists must all be the same length"), a DEFAULT is refused, and
\* item i of each row is appended to colexprs[i]; any failing row aborts
ValuesRows(rows) ==
    LET ex == [r \in DOMAIN rows |-> ExpandRow(rows[r])]
        err == \/ \E r \in DOMAIN ex : Len(ex[r]) # Len(ex[1])
               \/ \E r \in DOMAIN ex : \E i \in DOMAIN ex[r] : ex[r][i].kind = "SetToDefault"
    IN  [err |-> err, len |-> Len(ex[1]),
         colexprs |-> IF err THEN <<>> ELSE [i \in 1..Len(ex[1]) |-> [r \in DOMAIN ex |-> ex[r][i]]]]

\* select_common_type over a whole column: UNKNOWNs are skipped, types of
\* two categories fail, otherwise the preferred type of the known ones
\* wins; a column of UNKNOWNs only is text
ListCommonType(ts) ==
    LET known == {ts[r] : r \in DOMAIN ts} \ {"unknown"}
    IN  CASE known = {} -> "text"
          [] \E a, b \in known : Cat[a] # Cat[b] -> "error"
          [] OTHER -> CHOOSE t \in known : \A u \in known : Rank[u] <= Rank[t]

\* select_common_collation(..., none_ok = true): conflicting implicit
\* collations give no collation instead of an error
ListCommonColl(cs) ==
    LET k == {cs[i] : i \in DOMAIN cs} \ {"none"}
    IN  IF Cardinality(k) = 1 THEN CHOOSE x \in k : TRUE ELSE "none"

\* coerce_to_common_type: an item of another type gets a coercion to the
\* column type, which has no typmod
Coerce(e, t) == IF e.type = t THEN e ELSE [e EXCEPT !.type = t, !.typmod = -1]

\* the rows rebuilt from the columns: colexprs[0] starts one list per row,
\* each further column is appended to them with forboth
Rearrange(colexprs) ==
    [r \in DOMAIN colexprs[1] |->
        LET cs == Ascending({i \in DOMAIN colexprs : r <= Len(colexprs[i])})
        IN  [k \in DOMAIN cs |-> colexprs[cs[k]][r]]]

\* the whole clause: rows, per column type, in-place coercion and collation,
\* rearrangement, the VALUES RTE; its target list is expandRelAttrs, whose
\* typmod (expandRTE, parse_relation.c) is the first row's; FOR UPDATE fails
Values(s) ==
    LET acc == ValuesRows(s.rows)
        n == IF acc.err THEN 0 ELSE acc.len
        raw == [i \in 1..n |-> acc.colexprs[i]]
        types == [i \in 1..n |-> ListCommonType([r \in DOMAIN raw[i] |-> raw[i][r].type])]
        colexprs == [i \in 1..n |-> [r \in DOMAIN raw[i] |-> Coerce(raw[i][r], types[i])]]
        colls == [i \in 1..n |-> ListCommonColl([r \in DOMAIN colexprs[i] |-> colexprs[i][r].coll])]
        rows == Rearrange(colexprs)
    IN  IF acc.err \/ (\E i \in 1..n : types[i] = "error") \/ s.lock THEN [err |-> TRUE]
        ELSE [err |-> FALSE, rows |-> rows,
              cols |-> [i \in 1..n |-> [type |-> types[i], typmod |-> rows[1][i].typmod,
                                        kind |-> "Var", coll |-> colls[i]]]]

RECURSIVE Tree(_, _, _), Leaf(_, _, _), LeafRtiBeforeAdd(_, _, _), Internal(_, _, _), InternalNoArity(_, _, _)

RECURSIVE ValuesMembers(_)
\* the VALUES members of a statement, at any depth
ValuesMembers(s) ==
    CASE s.tag = "values" -> {s}
      [] s.tag = "op" -> ValuesMembers(s.larg) \cup ValuesMembers(s.rarg)
      [] OTHER -> {}

\* transformSetOperationTree: INTO and FOR UPDATE are refused at every
\* node; a leaf (or an isolated internal node) becomes "*SELECT* n"
Tree(s, rt, vals) ==
    IF s.into \/ s.lock THEN Fail(rt)
    ELSE IF s.tag # "op" \/ s.isolated THEN Leaf(s, rt, vals) ELSE Internal(s, rt, vals)

\* mutant: the RangeTblRef takes the range-table length from before the add
LeafRtiBeforeAdd(s, rt, vals) ==
    IF s.tag = "leaf"
    THEN [err |-> FALSE, st |-> Append(rt, [cols |-> s.cols, rows |-> <<>>]),
          node |-> [tag |-> "ref", rti |-> Len(rt)], tl |-> Tles(s.cols, Len(rt) + 1), ltl |-> <<>>]
    ELSE Fail(rt)

\* parse_sub_analyze of the leaf, then addRangeTableEntryForSubquery; an
\* isolated node is a whole set operation analysed with its own rtable
Leaf(s, rt, vals) ==
    LET sub == CASE s.tag = "leaf" -> [err |-> FALSE, cols |-> s.cols, rows |-> <<>>]
                 [] s.tag = "values" -> vals[s]
                 [] OTHER ->
                    LET n == Tree([s EXCEPT !.isolated = FALSE], <<>>, vals)
                    IN  IF n.err THEN [err |-> TRUE]
                        ELSE [err |-> FALSE, rows |-> <<>>,
                              cols |-> [c \in DOMAIN n.node.colTypes |->
                                          [type |-> n.node.colTypes[c],
                                           typmod |-> n.node.colTypmods[c],
                                           kind |-> "Var", coll |-> n.node.colCollations[c]]]]
        rti == Len(rt) + 1
    IN  IF sub.err THEN Fail(rt)
        ELSE [err |-> FALSE, st |-> Append(rt, [cols |-> sub.cols, rows |-> sub.rows]),
              node |-> [tag |-> "ref", rti |-> rti], tl |-> Tles(sub.cols, rti), ltl |-> <<>>]

\* mutant: the arity check dropped; the column loop stops at the shorter side
InternalNoArity(s, rt, vals) ==
    LET l == Tree(s.larg, rt, vals)
        r == IF l.err THEN l ELSE Tree(s.rarg, l.st, vals)
        n == IF l.err \/ r.err THEN 0
             ELSE IF Len(l.tl) < Len(r.tl) THEN Len(l.tl) ELSE Len(r.tl)
        res == [c \in 1..n |-> Column(l.tl[c], r.tl[c], s.op, s.all)]
    IN  IF l.err \/ r.err \/ \E c \in 1..n : res[c].err THEN Fail(rt)
        ELSE [err |-> FALSE,
              st |-> Replace(r.st, l.tl, r.tl, res),
              node |-> [tag |-> "op", op |-> s.op, all |-> s.all,
                        larg |-> l.node, rarg |-> r.node,
                        colTypes |-> [c \in 1..n |-> res[c].type],
                        colTypmods |-> [c \in 1..n |-> res[c].typmod],
                        colCollations |-> [c \in 1..n |-> res[c].coll],
                        groups |-> IF s.op # "UNION" \/ ~s.all THEN n ELSE 0],
              tl |-> [c \in 1..n |-> [type |-> res[c].type, typmod |-> res[c].typmod,
                                      kind |-> "SetToDefault", coll |-> res[c].coll, at |-> 0]],
              ltl |-> l.tl]

\* an internal node: left, right, equal arity, then per column the common
\* type/typmod/collation, in-place coercion of UNKNOWN literals of leaf
\* children, and a SortGroupClause per column unless UNION ALL
Internal(s, rt, vals) ==
    LET l == Tree(s.larg, rt, vals)
        r == IF l.err THEN l ELSE Tree(s.rarg, l.st, vals)
        n == IF l.err \/ r.err THEN 0 ELSE Len(l.tl)
        res == [c \in 1..n |-> Column(l.tl[c], r.tl[c], s.op, s.all)]
    IN  IF l.err \/ r.err \/ Len(l.tl) # Len(r.tl) THEN Fail(rt)
        ELSE IF \E c \in 1..n : res[c].err THEN Fail(rt)
        ELSE [err |-> FALSE,
              st |-> Replace(r.st, l.tl, r.tl, res),
              node |-> [tag |-> "op", op |-> s.op, all |-> s.all,
                        larg |-> l.node, rarg |-> r.node,
                        colTypes |-> [c \in 1..n |-> res[c].type],
                        colTypmods |-> [c \in 1..n |-> res[c].typmod],
                        colCollations |-> [c \in 1..n |-> res[c].coll],
                        groups |-> IF s.op # "UNION" \/ ~s.all THEN n ELSE 0],
              tl |-> [c \in 1..n |-> [type |-> res[c].type, typmod |-> res[c].typmod,
                                      kind |-> "SetToDefault", coll |-> res[c].coll, at |-> 0]],
              ltl |-> l.tl]

RECURSIVE LeftmostStmt(_), LeftmostRti(_)
LeftmostStmt(s) == IF s.tag # "op" THEN s ELSE LeftmostStmt(s.larg)
LeftmostRti(n) == IF n.tag = "ref" THEN n.rti ELSE LeftmostRti(n.larg)

\* determineRecursiveColTypes: the CTE's columns take the expressions of
\* the non-recursive term's target list as they are when it is called
RecursiveColTypes(nrtl) == [c \in DOMAIN nrtl |-> nrtl[c].type]

-----------------------------------------------------------------------------
Init ==
    /\ stmt \in Stmts
    /\ rtable = <<>>
    /\ sostmt = [tag |-> "none"]
    /\ ltl = <<>>
    /\ tlist = <<>>
    /\ svLen = 0
    /\ cte = <<>>
    /\ pc = "start"

\* the leftmost INTO check; sortClause/limit/locking/with are extracted,
\* and a FOR UPDATE of the set operation is refused
Begin ==
    /\ pc = "start"
    /\ pc' = IF LeftmostStmt(stmt).into \/ stmt.lock THEN "error" ELSE "tree"
    /\ UNCHANGED <<stmt, rtable, sostmt, ltl, tlist, svLen, cte>>

\* transformSetOperationTree(pstate, stmt, true, NULL); at the topmost node
\* of a recursive CTE, determineRecursiveColTypes on the left arm. What
\* transformValuesClause makes of a VALUES member depends on that member
\* alone, so it is evaluated here and looked up (vals) where the member is
\* met.
Transform ==
    /\ pc = "tree"
    /\ LET r == Internal(stmt, <<>>, [v \in ValuesMembers(stmt) |-> Values(v)]) IN
         IF r.err THEN /\ pc' = "error"
                       /\ UNCHANGED <<rtable, sostmt, ltl, cte>>
         ELSE /\ rtable' = r.st
              /\ sostmt' = r.node
              /\ ltl' = r.ltl
              /\ cte' = IF stmt.recursive THEN RecursiveColTypes(r.ltl) ELSE <<>>
              /\ pc' = "tlist"
    /\ UNCHANGED <<stmt, tlist, svLen>>

\* mutant: the Vars' attribute numbers start at the second column
TargetListResnoOffByOne ==
    /\ pc = "tlist"
    /\ tlist' = [c \in DOMAIN sostmt.colTypes |->
                    [varno |-> LeftmostRti(sostmt), varattno |-> c + 1,
                     type |-> sostmt.colTypes[c], typmod |-> sostmt.colTypmods[c]]]
    /\ pc' = "sort"
    /\ UNCHANGED <<stmt, rtable, sostmt, ltl, svLen, cte>>

\* the dummy target list: Vars of the leftmost leaf (varno leftmostRTI,
\* its resnos) typed by the topmost node's column lists
TargetList ==
    /\ pc = "tlist"
    /\ tlist' = [c \in DOMAIN sostmt.colTypes |->
                    [varno |-> LeftmostRti(sostmt), varattno |-> c,
                     type |-> sostmt.colTypes[c], typmod |-> sostmt.colTypmods[c]]]
    /\ pc' = "sort"
    /\ UNCHANGED <<stmt, rtable, sostmt, ltl, svLen, cte>>

JoinRte == [cols |-> <<>>, rows |-> <<>>, join |-> TRUE]

\* mutant: sv_rtable_length read after the join RTE has been added
SortLateLength ==
    /\ pc = "sort"
    /\ svLen' = Len(rtable) + 1
    /\ rtable' = SubSeq(Append(rtable, JoinRte), 1, Len(rtable) + 1)
    /\ pc' = IF stmt.order = "expr" THEN "error" ELSE "limit"
    /\ UNCHANGED <<stmt, sostmt, ltl, tlist, cte>>

\* mutant: the range table cut one entry short
SortTruncateShort ==
    /\ pc = "sort"
    /\ svLen' = Len(rtable)
    /\ rtable' = SubSeq(Append(rtable, JoinRte), 1, Len(rtable) - 1)
    /\ pc' = IF stmt.order = "expr" THEN "error" ELSE "limit"
    /\ UNCHANGED <<stmt, sostmt, ltl, tlist, cte>>

\* sv_rtable_length; the join RTE over the output columns is added for
\* ORDER BY; transformSortClause; list_truncate back to sv_rtable_length;
\* an ORDER BY expression adds a resjunk tle and is refused
Sort ==
    /\ pc = "sort"
    /\ svLen' = Len(rtable)
    /\ rtable' = SubSeq(Append(rtable, JoinRte), 1, Len(rtable))
    /\ pc' = IF stmt.order = "expr" THEN "error" ELSE "limit"
    /\ UNCHANGED <<stmt, sostmt, ltl, tlist, cte>>

\* LIMIT/OFFSET, the (empty) locking loop, assign_query_collations
Finish ==
    /\ pc = "limit"
    /\ pc' = "done"
    /\ UNCHANGED <<stmt, rtable, sostmt, ltl, tlist, svLen, cte>>

Next == Begin \/ Transform \/ TargetList \/ Sort \/ Finish

Spec == Init /\ [][Next]_vars /\ WF_vars(Next)

-----------------------------------------------------------------------------
Col == [type : DOMAIN Cat \cup {"unknown"}, typmod : {-1, 1, 2},
        kind : {"Const", "Param", "Var"}, coll : {"none", "C", "en"}]

RECURSIVE Refs(_)
\* the RangeTblRefs of a transformed tree, left to right
Refs(n) == IF n.tag = "ref" THEN <<n.rti>> ELSE Refs(n.larg) \o Refs(n.rarg)

RECURSIVE LeafCount(_)
\* leaves of the raw statement, an isolated node counting as one
LeafCount(s) ==
    IF s.tag # "op" \/ s.isolated THEN 1 ELSE LeafCount(s.larg) + LeafCount(s.rarg)

RECURSIVE LeafStmts(_)
\* the members of the raw statement left to right, an isolated node as one
LeafStmts(s) ==
    IF s.tag # "op" \/ s.isolated THEN <<s>> ELSE LeafStmts(s.larg) \o LeafStmts(s.rarg)

Analysed == pc \in {"tlist", "sort", "limit", "done"}

TypeOK ==
    /\ pc \in {"start", "tree", "tlist", "sort", "limit", "done", "error"}
    /\ \A i \in DOMAIN rtable : rtable[i].cols \in Seq(Col)
    \* spec 8: every Var of the outer target list is an in-range attribute
    \* of an entry of the range table
    /\ \A c \in DOMAIN tlist :
          /\ tlist[c].varno \in DOMAIN rtable
          /\ tlist[c].varattno \in DOMAIN rtable[tlist[c].varno].cols

\* Spec 8: the set operation's colTypes, colTypmods and colCollations have
\* exactly as many entries as the leftmost SELECT's target list, whose
\* names label the output; every node's arity check contributes.
ColumnListsAgree ==
    Analysed =>
        LET n == Len(rtable[LeftmostRti(sostmt)].cols) IN
        /\ Len(sostmt.colTypes) = n
        /\ Len(sostmt.colTypmods) = n
        /\ Len(sostmt.colCollations) = n

\* Spec 8: the join RTE added to resolve ORDER BY is truncated away exactly:
\* afterwards the range table is the leaves' subqueries and nothing else,
\* one per leaf.
RtableTruncatedExactly ==
    pc \in {"limit", "done"} => Len(rtable) = LeafCount(stmt) /\ svLen = Len(rtable)

\* The leaves become "*SELECT* n" in post-order: the RangeTblRefs of the
\* set-operation tree, read left to right, are 1, 2, ..., n, so each refers
\* to its own leaf's subquery.
LeafRefsInOrder ==
    Analysed => Refs(sostmt) = [i \in 1..Len(rtable) |-> i]

\* "if same type and same typmod, use typmod; else default": an output
\* column keeps a typmod only when every leaf delivers that column with the
\* same type and typmod, across all levels of the tree.
TypmodOnlyWhenAllAgree ==
    Analysed =>
        \A c \in DOMAIN sostmt.colTypmods : sostmt.colTypmods[c] # -1 =>
            \A i \in DOMAIN rtable :
                /\ rtable[i].cols[c].type = sostmt.colTypes[c]
                /\ rtable[i].cols[c].typmod = sostmt.colTypmods[c]

\* Spec 3 and the comment in transformSetOperationTree: an UNKNOWN Const or
\* Param a leaf outputs is replaced by its coercion to the column's common
\* type, from whichever side of its parent it comes.
UnknownLiteralsResolved ==
    Analysed =>
        \A i \in DOMAIN rtable : \A c \in DOMAIN rtable[i].cols :
            ~UnknownLit(rtable[i].cols[c])

\* transformValuesClause builds its lists column by column and turns them
\* back into rows at the end: the VALUES entry of a member holds its rows
\* in their order, each row exactly as long as the column list after '*'
\* expansion ("VALUES lists must all be the same length", after
\* transformation), and item c of row r is that row's c-th expanded item
\* coerced to column c's type.
ValuesRowsTransposed ==
    Analysed =>
        \A i \in DOMAIN rtable : i <= Len(LeafStmts(stmt)) /\ LeafStmts(stmt)[i].tag = "values" =>
            LET ex == [r \in DOMAIN LeafStmts(stmt)[i].rows |-> ExpandRow(LeafStmts(stmt)[i].rows[r])]
                cols == rtable[i].cols
            IN  /\ \A r \in DOMAIN ex : Len(ex[r]) = Len(cols)
                /\ rtable[i].rows =
                      [r \in DOMAIN ex |-> [c \in DOMAIN cols |-> Coerce(ex[r][c], cols[c].type)]]
=============================================================================
