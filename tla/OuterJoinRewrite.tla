-------------------------- MODULE OuterJoinRewrite --------------------------
(***************************************************************************)
(* The rewrite of Oracle "(+)" outer-join markers into a join tree, in     *)
(* src/src/backend/parser/analyze.c: transformFromAndWhere() (called by    *)
(* transformSelectStmt between WHERE and the target list) with            *)
(* get_join_qual_exprs(), get_ora_column_join(), pullup_rel_for_join()     *)
(* and analyze_new_join(), and check_joinon_column_join(), which           *)
(* parse_analyze_for_gram() runs over the finished join tree.              *)
(*                                                                         *)
(* A FROM item is a base relation (RangeTblRef) or a JoinExpr; a table is  *)
(* its range-table index.  A WHERE predicate is abstracted to the column   *)
(* references the expression walker meets, in the order it meets them:    *)
(* a sequence of [t |-> table, m |-> marked with (+)].  Each predicate     *)
(* carries an id (WHERE predicates 1..n, the ON clause of an explicit      *)
(* join 0) so that where it ends up can be traced.  A namespace item is    *)
(* [rti, rel, cols]: the entry it exposes and whether its name and its     *)
(* columns are visible.                                                    *)
(***************************************************************************)
EXTENDS Integers, Sequences, SequencesExt

CONSTANTS
    Tables,     \* range-table indexes of the base relations in FROM
    MaxRefs,    \* most column references in one predicate
    MaxPreds,   \* most predicates in the WHERE AND-list
    InitFroms   \* FROM lists (sequences of FROM items) analysis may start from

ASSUME Tables \subseteq Nat \ {0}

Nil == [k |-> "nil"]
Rtr(t) == [k |-> "rtr", t |-> t]
Join(jt, l, r, quals, rti) ==
    [k |-> "join", jt |-> jt, l |-> l, r |-> r, quals |-> quals, rti |-> rti]

Refs  == [t : Tables, m : BOOLEAN]
PredRefs == UNION {[1..n -> Refs] : n \in 1..MaxRefs}

Marked(p) == \E n \in DOMAIN p.refs : p.refs[n].m    \* have_ora_column_join()

\* remove_column_join_expr(): the marker wrappers are replaced by their Var
Strip(p) == [p EXCEPT !.refs = [n \in DOMAIN @ |-> [@[n] EXCEPT !.m = FALSE]]]
StripAll(ps) == [n \in DOMAIN ps |-> Strip(ps[n])]

RECURSIVE TablesOf(_)
\* the base tables under a FROM item
TablesOf(n) == IF n.k = "rtr" THEN {n.t} ELSE TablesOf(n.l) \cup TablesOf(n.r)

RECURSIVE JoinsOf(_)
\* the JoinExpr nodes of a FROM item, the item itself included
JoinsOf(n) == IF n.k = "rtr" THEN {} ELSE {n} \cup JoinsOf(n.l) \cup JoinsOf(n.r)

ListTables(l) == UNION {TablesOf(l[n]) : n \in DOMAIN l}
ListJoins(l)  == UNION {JoinsOf(l[n]) : n \in DOMAIN l}

-----------------------------------------------------------------------------
(* get_ora_column_join(): the walker fills a JoinExprInfo from the column  *)
(* references in visiting order; the outer-joined table is rrtindex.       *)

NoInfo == [type |-> "INNER", l |-> 0, r |-> 0, err |-> FALSE]

\* get_ora_column_join_walker() on one reference
VisitRef(ji, ref) ==
    IF ji.err THEN ji
    ELSE IF ref.m
         THEN IF ji.r = 0 THEN [ji EXCEPT !.type = "LEFT", !.r = ref.t]
              ELSE IF ji.r # ref.t THEN [ji EXCEPT !.err = TRUE]
              ELSE ji
    ELSE IF ref.t = ji.l \/ ref.t = ji.r THEN ji
    ELSE IF ji.l = 0 THEN [ji EXCEPT !.l = ref.t]
    ELSE IF ji.r = 0 /\ ji.type = "INNER" THEN [ji EXCEPT !.r = ref.t]
    ELSE [ji EXCEPT !.err = TRUE]

Classify(refs) == FoldLeft(VisitRef, NoInfo, refs)

\* the JoinExprInfo of one predicate
Info(p) == LET c == Classify(p.refs)
           IN  [type |-> c.type, l |-> c.l, r |-> c.r, expr |-> <<p>>]

\* mutant: the merged predicate freed instead of appended to the entry
MergeIntoDropped(res, p) ==
    LET j2   == Info(p)
        same == {n \in DOMAIN res : /\ res[n].type = j2.type
                                    /\ res[n].l = j2.l /\ res[n].r = j2.r}
    IN  IF same = {} THEN Append(res, j2) ELSE res

\* get_join_qual_exprs(): the predicates with a marker first, in order;
\* then every other predicate is ANDed into the first entry with the same
\* (type, lrtindex, rrtindex), or becomes an entry of its own.
MergeInto(res, p) ==
    LET j2   == Info(p)
        same == {n \in DOMAIN res : /\ res[n].type = j2.type
                                    /\ res[n].l = j2.l /\ res[n].r = j2.r}
    IN  IF same = {} THEN Append(res, j2)
        ELSE [res EXCEPT ![Min(same)].expr = Append(@, p)]

JoinQualExprs(where) ==
    LET withMark == SelectSeq(where, Marked)
        others   == SelectSeq(where, LAMBDA p : ~Marked(p))
    IN  FoldLeft(MergeInto, [n \in DOMAIN withMark |-> Info(withMark[n])], others)

\* the walker raises "a predicate may reference only one outer-joined table"
WalkerError(where) == \E n \in DOMAIN where : Classify(where[n].refs).err

-----------------------------------------------------------------------------
(* pullup_rel_for_join(): the result of a call on one node is [ok: its     *)
(* return value, node: the node after the call mutated it, ctx: the        *)
(* PullupRelForJoinContext it filled, err: it raised a syntax error].      *)

NoCtx == [larg |-> Nil, rarg |-> Nil]
Found(c) == c.larg # Nil /\ c.rarg # Nil

\* combin_pullup_context(): copy the slots src filled into dest
Combine(dest, src) ==
    [larg |-> IF src.larg # Nil THEN src.larg ELSE dest.larg,
     rarg |-> IF src.rarg # Nil THEN src.rarg ELSE dest.rarg]
Filled(src) == src.larg # Nil \/ src.rarg # Nil

\* mutant: the relation found is moved out of the join, not the join
ReleaseKept(c, n) == c

\* "release [lr]arg to this join node": the whole JoinExpr is moved
Release(c, n) ==
    IF c.larg # Nil THEN [c EXCEPT !.larg = n]
    ELSE IF c.rarg # Nil THEN [c EXCEPT !.rarg = n] ELSE c

NotFound(n, c) == [ok |-> FALSE, node |-> n, ctx |-> c, err |-> FALSE]

\* the JoinExpr both endpoints were found under takes the predicate
FuseInto(n, j) ==
    IF j.type = "LEFT" /\ n.jt \notin {"LEFT", "RIGHT"}
    THEN [ok |-> FALSE, node |-> n, ctx |-> NoCtx, err |-> TRUE]
    ELSE [ok |-> TRUE, node |-> [n EXCEPT !.quals = @ \o j.expr],
          ctx |-> NoCtx, err |-> FALSE]

RECURSIVE PullNode(_, _), PullNodeEitherSide(_, _)

\* mutant: the JoinExpr takes the predicate when one endpoint is under it
PullNodeEitherSide(n, j) ==
    IF n.k = "rtr"
    THEN NotFound(n, IF n.t = j.l THEN [NoCtx EXCEPT !.larg = n]
                     ELSE IF n.t = j.r THEN [NoCtx EXCEPT !.rarg = n]
                     ELSE NoCtx)
    ELSE LET a == PullNode(n.l, j)
             b == IF Found(a.ctx) THEN NotFound(n.r, NoCtx) ELSE PullNode(n.r, j)
             c == Combine(a.ctx, b.ctx)
         IN  IF a.err \/ a.ok THEN [a EXCEPT !.node = [n EXCEPT !.l = a.node]]
             ELSE IF b.err \/ b.ok THEN [b EXCEPT !.node = [n EXCEPT !.r = b.node]]
             ELSE IF Filled(c) THEN FuseInto(n, j)
             ELSE NotFound(n, Release(c, n))

PullNode(n, j) ==
    IF n.k = "rtr"
    THEN NotFound(n, IF n.t = j.l THEN [NoCtx EXCEPT !.larg = n]
                     ELSE IF n.t = j.r THEN [NoCtx EXCEPT !.rarg = n]
                     ELSE NoCtx)
    ELSE LET a == PullNode(n.l, j)
             b == IF Found(a.ctx) THEN NotFound(n.r, NoCtx) ELSE PullNode(n.r, j)
             c == Combine(a.ctx, b.ctx)
         IN  IF a.err \/ a.ok THEN [a EXCEPT !.node = [n EXCEPT !.l = a.node]]
             ELSE IF b.err \/ b.ok THEN [b EXCEPT !.node = [n EXCEPT !.r = b.node]]
             ELSE IF Found(c) THEN FuseInto(n, j)
             ELSE NotFound(n, Release(c, n))

\* the FromExpr loop over the FROM list: items still to visit, items kept,
\* the context so far; an item that filled a slot is deleted from the list
RECURSIVE PullList(_, _, _, _)
PullList(items, kept, ctx, j) ==
    IF items = <<>> THEN [ok |-> FALSE, list |-> kept, ctx |-> ctx, err |-> FALSE]
    ELSE LET a == PullNode(Head(items), j)
             c == Combine(ctx, a.ctx)
         IN  IF a.err \/ a.ok
             THEN [ok |-> a.ok, list |-> kept \o <<a.node>> \o Tail(items),
                   ctx |-> ctx, err |-> a.err]
             ELSE IF ~Filled(a.ctx) THEN PullList(Tail(items), Append(kept, Head(items)), ctx, j)
             ELSE IF Found(c) THEN [ok |-> FALSE, list |-> kept \o Tail(items), ctx |-> c, err |-> FALSE]
             ELSE PullList(Tail(items), kept, c, j)

\* pullup_rel_for_join() on the FromExpr: a new JoinExpr of the two
\* endpoints is appended when no JoinExpr under the list took the predicate
PullUpFrom(list, j) ==
    LET a == PullList(list, <<>>, NoCtx, j)
    IN  IF a.err \/ a.ok \/ ~Found(a.ctx) THEN [ok |-> a.ok, err |-> a.err, list |-> a.list]
        ELSE [ok |-> TRUE, err |-> FALSE,
              list |-> Append(a.list, Join(j.type, a.ctx.larg, a.ctx.rarg, j.expr, 0))]

-----------------------------------------------------------------------------
(* analyze_new_join(): new JoinExprs (rtindex 0) get a join range-table    *)
(* entry bottom-up; the new namespace holds the item found in the old one  *)
(* for every base relation and old JoinExpr directly under the FROM list   *)
(* or under a new join, with columns hidden under a new join, and an item  *)
(* with hidden name and visible columns for every new join.                *)

NsItemFor(rti, ns) == {i \in ns : i.rti = rti}     \* find_namespace_item_for_rte()

RECURSIVE AnalyzeNode(_, _, _), AnalyzeNodeStaleLen(_, _, _), AnalyzeNodeEarlyIndex(_, _, _)

\* mutant: the range table is not seen to grow by the new join entry
AnalyzeNodeStaleLen(n, len, ns) ==
    IF n.k = "rtr" THEN [node |-> n, len |-> len, names |-> NsItemFor(n.t, ns)]
    ELSE IF n.rti # 0 THEN [node |-> n, len |-> len, names |-> NsItemFor(n.rti, ns)]
    ELSE LET a   == AnalyzeNode(n.l, len, ns)
             b   == AnalyzeNode(n.r, a.len, ns)
             rti == b.len + 1
         IN  [node  |-> [n EXCEPT !.l = a.node, !.r = b.node, !.rti = rti],
              len   |-> b.len,
              names |-> {[i EXCEPT !.cols = FALSE] : i \in a.names \cup b.names}
                        \cup {[rti |-> rti, rel |-> FALSE, cols |-> TRUE]}]

\* mutant: j->rtindex read before addRangeTableEntryForJoin() appends
AnalyzeNodeEarlyIndex(n, len, ns) ==
    IF n.k = "rtr" THEN [node |-> n, len |-> len, names |-> NsItemFor(n.t, ns)]
    ELSE IF n.rti # 0 THEN [node |-> n, len |-> len, names |-> NsItemFor(n.rti, ns)]
    ELSE LET a   == AnalyzeNode(n.l, len, ns)
             b   == AnalyzeNode(n.r, a.len, ns)
         IN  [node  |-> [n EXCEPT !.l = a.node, !.r = b.node, !.rti = b.len],
              len   |-> b.len + 1,
              names |-> {[i EXCEPT !.cols = FALSE] : i \in a.names \cup b.names}
                        \cup {[rti |-> b.len, rel |-> FALSE, cols |-> TRUE]}]

AnalyzeNode(n, len, ns) ==
    IF n.k = "rtr" THEN [node |-> n, len |-> len, names |-> NsItemFor(n.t, ns)]
    ELSE IF n.rti # 0 THEN [node |-> n, len |-> len, names |-> NsItemFor(n.rti, ns)]
    ELSE LET a   == AnalyzeNode(n.l, len, ns)
             b   == AnalyzeNode(n.r, a.len, ns)
             rti == b.len + 1
         IN  [node  |-> [n EXCEPT !.l = a.node, !.r = b.node, !.rti = rti],
              len   |-> rti,
              names |-> {[i EXCEPT !.cols = FALSE] : i \in a.names \cup b.names}
                        \cup {[rti |-> rti, rel |-> FALSE, cols |-> TRUE]}]

RECURSIVE AnalyzeList(_, _, _)
AnalyzeList(items, len, ns) ==
    IF items = <<>> THEN [list |-> <<>>, len |-> len, names |-> {}]
    ELSE LET a    == AnalyzeNode(Head(items), len, ns)
             rest == AnalyzeList(Tail(items), a.len, ns)
         IN  [list |-> <<a.node>> \o rest.list, len |-> rest.len,
              names |-> a.names \cup rest.names]

-----------------------------------------------------------------------------
(* check_joinon_column_join(): a JoinExpr whose ON clause still holds a    *)
(* marker (an explicit JOIN ... ON) must have the marked table on its      *)
(* nullable side where a side is a bare relation; the markers are then     *)
(* stripped.                                                               *)

OnRefs(quals) == FoldLeft(LAMBDA acc, p : acc \o p.refs, <<>>, quals)

SideConflict(n, ji) ==
    \/ n.l.k = "rtr" /\ n.l.t = ji.l /\ n.jt # "LEFT"
    \/ n.l.k = "rtr" /\ n.l.t = ji.r /\ n.jt # "RIGHT"
    \/ n.r.k = "rtr" /\ n.r.t = ji.l /\ n.jt # "RIGHT"
    \/ n.r.k = "rtr" /\ n.r.t = ji.r /\ n.jt # "LEFT"

RECURSIVE CheckNode(_)
CheckNode(n) ==
    IF n.k = "rtr" THEN [node |-> n, err |-> FALSE]
    ELSE LET a  == CheckNode(n.l)
             b  == CheckNode(n.r)
             ji == Classify(OnRefs(n.quals))
             marked == \E q \in DOMAIN n.quals : Marked(n.quals[q])
         IN  [err  |-> a.err \/ b.err \/
                       (marked /\ (ji.err \/ (ji.type # "INNER" /\ SideConflict(n, ji)))),
              node |-> [n EXCEPT !.l = a.node, !.r = b.node, !.quals = StripAll(@)]]

-----------------------------------------------------------------------------
(* The namespace transformFromClause() builds for a FROM item: a relation  *)
(* is visible by name and columns; an explicit unaliased JOIN hides the    *)
(* columns of what is under it and exposes its own columns, not its name.  *)

RECURSIVE FromNamespace(_)
FromNamespace(n) ==
    IF n.k = "rtr" THEN {[rti |-> n.t, rel |-> TRUE, cols |-> TRUE]}
    ELSE {[i EXCEPT !.cols = FALSE] : i \in FromNamespace(n.l) \cup FromNamespace(n.r)}
         \cup {[rti |-> n.rti, rel |-> FALSE, cols |-> TRUE]}

ListNamespace(l) == UNION {FromNamespace(l[n]) : n \in DOMAIN l}

VARIABLES
    joinlist,   \* pstate->p_joinlist, then query->jointree->fromlist
    where,      \* the WHERE AND-list (the quals transformFromAndWhere returns)
    qualList,   \* the JoinExprInfo list of transformFromAndWhere()
    pos,        \* its loop cursor
    namespace,  \* pstate->p_namespace
    rtableLen,  \* list_length(pstate->p_rtable)
    origin,     \* the predicates as analysis met them: id -> references
    pc          \* where the analysis is

vars == <<joinlist, where, qualList, pos, namespace, rtableLen, origin, pc>>

\* a WHERE list of predicates with their ids
Tagged(ps) == [n \in DOMAIN ps |-> [id |-> n, refs |-> ps[n]]]

RECURSIVE QualsOf(_)
\* the ON predicates of the JoinExprs under a FROM item
QualsOf(n) == IF n.k = "rtr" THEN <<>> ELSE QualsOf(n.l) \o QualsOf(n.r) \o n.quals

ListQuals(l) == FoldLeft(LAMBDA acc, item : acc \o QualsOf(item), <<>>, l)

Init ==
    \E from \in InitFroms, ps \in BoundedSeq(PredRefs, MaxPreds) :
        /\ joinlist = from
        /\ where = Tagged(ps)
        /\ qualList = <<>>
        /\ pos = 1
        /\ namespace = ListNamespace(from)
        /\ rtableLen = Cardinality(Tables) + Cardinality(ListJoins(from))
        /\ LET all == Tagged(ps) \o ListQuals(from)
           IN  origin = [id \in {all[n].id : n \in DOMAIN all} |->
                           (CHOOSE p \in Range(all) : p.id = id).refs]
        /\ pc = "start"

HasMarker == \E n \in DOMAIN where : Marked(where[n])

\* transformFromAndWhere(): nothing to do without a marker
NoMarker ==
    /\ pc = "start"
    /\ joinlist = <<>> \/ ~HasMarker
    /\ pc' = "check"
    /\ UNCHANGED <<joinlist, where, qualList, pos, namespace, rtableLen, origin>>

\* transformFromAndWhere(): a single FROM item only loses its markers
FastPath ==
    /\ pc = "start"
    /\ HasMarker /\ Len(joinlist) = 1
    /\ where' = StripAll(where)
    /\ pc' = "check"
    /\ UNCHANGED <<joinlist, qualList, pos, namespace, rtableLen, origin>>

\* get_join_qual_exprs(), or its walker's syntax error
Group ==
    /\ pc = "start"
    /\ HasMarker /\ Len(joinlist) > 1
    /\ IF WalkerError(where)
       THEN pc' = "error" /\ UNCHANGED qualList
       ELSE pc' = "loop" /\ qualList' = JoinQualExprs(where)
    /\ pos' = 1
    /\ UNCHANGED <<joinlist, where, namespace, rtableLen, origin>>

Cur == qualList[pos]

\* a clause of at most one table stays in the list with its markers stripped
KeepSingle ==
    /\ pc = "loop" /\ pos <= Len(qualList)
    /\ Cur.l = 0 \/ Cur.r = 0
    /\ qualList' = [qualList EXCEPT ![pos].expr = StripAll(@)]
    /\ pos' = pos + 1
    /\ UNCHANGED <<joinlist, where, namespace, rtableLen, origin, pc>>

\* a two-table clause is moved into the join tree by pullup_rel_for_join();
\* failing to place it is the "move filter qual to join filter failed!" error
PullUp ==
    /\ pc = "loop" /\ pos <= Len(qualList)
    /\ Cur.l # 0 /\ Cur.r # 0
    /\ LET res == PullUpFrom(joinlist, [Cur EXCEPT !.expr = StripAll(@)])
       IN  IF res.err THEN pc' = "error" /\ UNCHANGED <<joinlist, qualList>>
           ELSE IF ~res.ok THEN pc' = "internal" /\ UNCHANGED <<joinlist, qualList>>
           ELSE /\ joinlist' = res.list
                /\ qualList' = RemoveAt(qualList, pos)
                /\ pc' = "loop"
    /\ UNCHANGED <<where, pos, namespace, rtableLen, origin>>

\* after the loop: analyze_new_join() over the FROM list, the namespace
\* replaced, and the kept clauses returned as the new WHERE
Reanalyze ==
    /\ pc = "loop" /\ pos > Len(qualList)
    /\ LET a == AnalyzeList(joinlist, rtableLen, namespace)
       IN  /\ joinlist' = a.list
           /\ namespace' = a.names
           /\ rtableLen' = a.len
    /\ where' = FlattenSeq([n \in DOMAIN qualList |-> qualList[n].expr])
    /\ pc' = "check"
    /\ UNCHANGED <<qualList, pos, origin>>

\* parse_analyze_for_gram(): check_joinon_column_join() on the jointree
CheckJoinOn ==
    /\ pc = "check"
    /\ LET res == [n \in DOMAIN joinlist |-> CheckNode(joinlist[n])]
       IN  IF \E n \in DOMAIN res : res[n].err
           THEN pc' = "error" /\ UNCHANGED <<joinlist, where>>
           ELSE /\ joinlist' = [n \in DOMAIN res |-> res[n].node]
                /\ where' = StripAll(where)
                /\ pc' = "done"
    /\ UNCHANGED <<qualList, pos, namespace, rtableLen, origin>>

Next == NoMarker \/ FastPath \/ Group \/ KeepSingle \/ PullUp \/ Reanalyze \/ CheckJoinOn

Spec == Init /\ [][Next]_vars

-----------------------------------------------------------------------------
(* Properties                                                              *)

PcValues == {"start", "loop", "check", "done", "error", "internal"}

TypeOK ==
    /\ pc \in PcValues
    /\ pos \in 1..(MaxPreds + 1)
    /\ rtableLen \in Nat
    /\ \A i \in namespace : i.rti \in 1..rtableLen /\ i.rel \in BOOLEAN /\ i.cols \in BOOLEAN
    /\ \A n \in DOMAIN where : where[n].id \in DOMAIN origin
    /\ \A n \in DOMAIN qualList : qualList[n].type \in {"INNER", "LEFT"}

RECURSIVE LeafSeq(_)
LeafSeq(n) == IF n.k = "rtr" THEN <<n.t>> ELSE LeafSeq(n.l) \o LeafSeq(n.r)
ListLeaves(l) == FoldLeft(LAMBDA acc, item : acc \o LeafSeq(item), <<>>, l)

Ids(ps) == [n \in DOMAIN ps |-> ps[n].id]

NullableSide(j) ==
    CASE j.jt = "LEFT"  -> TablesOf(j.r)
      [] j.jt = "RIGHT" -> TablesOf(j.l)
      [] OTHER          -> {}

\* pullup_rel_for_join() deletes FROM items and re-inserts them under new
\* JoinExprs: every base relation stays in the FROM tree exactly once.
TablesConserved ==
    LET lv == ListLeaves(joinlist)
    IN  Len(lv) = Cardinality(Tables) /\ Range(lv) = Tables

\* When the rewrite has finished, every predicate of WHERE and of the ON
\* clauses is in exactly one place: in WHERE (kept single-table clauses)
\* or in the ON clause of one JoinExpr (fused or new), never lost by the
\* merging of get_join_qual_exprs() or duplicated by the pull-up.
PredicatesConserved ==
    pc \in {"check", "done"} =>
        SortSeq(Ids(where) \o Ids(ListQuals(joinlist)), <) = SetToSortSeq(DOMAIN origin, <)

\* A predicate moved into a JoinExpr's ON clause only references relations
\* under that JoinExpr (the released join node carries its whole subtree).
JoinQualsInScope ==
    \A j \in ListJoins(joinlist) : \A q \in DOMAIN j.quals :
        \A r \in Range(j.quals[q].refs) : r.t \in TablesOf(j)

\* analyze_new_join() gives each JoinExpr its own range-table index,
\* allocated after those of the joins under it.
JoinRtindexes ==
    pc = "done" =>
        \A j \in ListJoins(joinlist) :
            /\ j.rti \in (Cardinality(Tables) + 1)..rtableLen
            /\ \A j2 \in ListJoins(joinlist) \ {j} : j2.rti # j.rti
            /\ \A j2 \in (JoinsOf(j.l) \cup JoinsOf(j.r)) : j2.rti < j.rti

\* Spec 4.11 (edge cases): a marker must agree with the join it ends up in;
\* the table a predicate marks with (+) is on the nullable side of the
\* JoinExpr whose ON clause holds that predicate.
MarkedSideNullable ==
    pc = "done" =>
        \A j \in ListJoins(joinlist) : \A q \in DOMAIN j.quals :
            \A r \in Range(origin[j.quals[q].id]) : r.m => r.t \in NullableSide(j)

\* Spec 4.11 step 8: a WHERE predicate without a marker whose tables are
\* already joined stays in WHERE; it is never moved into the ON clause of
\* an outer join, where it would stop filtering the null-extended rows.
PlainPredicatesStayInWhere ==
    pc = "done" =>
        \A j \in ListJoins(joinlist) : \A q \in DOMAIN j.quals :
            (j.jt \in {"LEFT", "RIGHT"} /\ j.quals[q].id # 0) =>
                \E r \in Range(origin[j.quals[q].id]) : r.m

\* Spec 7: an internal error is a bug; transformFromAndWhere() must never
\* reach "move filter qual to join filter failed!".
NoInternalError == pc # "internal"

\* Spec 4.11 step 7: re-analysis keeps the namespace consistent; every
\* base relation of FROM can still be named (t.col) after the rewrite.
RelationsStayNameable ==
    pc \in {"check", "done"} =>
        \A t \in Tables : \E i \in namespace : i.rti = t /\ i.rel

=============================================================================
