--------------------------- MODULE RownumRewrite ---------------------------
(***************************************************************************)
(* The ROWNUM-to-LIMIT rewrite of the alternate (Oracle) dialect:          *)
(* rewrite_rownum_query() in src/src/backend/parser/analyze.c.             *)
(*                                                                         *)
(* The WHERE clause of one query level is an AND-list of predicates.  The  *)
(* rewrite walks the list once, classifies every predicate that mentions   *)
(* ROWNUM, and either gives up (the query is left as it was), or installs  *)
(* a LIMIT and drops the predicates it has absorbed.  Each iteration of    *)
(* the loop is one step, so that every early return, the "break" and the   *)
(* final reassembly of WHERE are separate actions.                         *)
(*                                                                         *)
(* A predicate is abstracted to what the rewrite looks at: whether it is a *)
(* plain filter on the row, a ROWNUM comparison (operator, which side      *)
(* ROWNUM is on, the other operand, whether that operand is an integer     *)
(* constant, whether it was an OpExpr or a FuncExpr), or some other        *)
(* expression that contains ROWNUM.                                        *)
(*                                                                         *)
(* The meaning of a query is given by the reference semantics of ROWNUM:   *)
(* a candidate row is numbered one more than the rows already returned,    *)
(* the WHERE clause is evaluated with that number, and aggregation,        *)
(* sorting and LIMIT come after the filter.                                *)
(***************************************************************************)
EXTENDS Integers, Sequences, SequencesExt

CONSTANTS
    KVals,      \* integer constants compared with ROWNUM
    RowVals,    \* values of the single column the filter predicate tests
    MaxRows,    \* longest scan the semantics is evaluated on
    MaxQuals,   \* longest AND-list of WHERE
    Nodes,      \* expression nodes: "op" (OpExpr), "func" (FuncExpr with an
                \* operator), "func_noop" (FuncExpr no operator is found for)
    Shapes      \* query shapes [agg, sort] the analysed queries may have

NoLimit == -1               \* limitCount == NULL

OpNames == {"<", "<=", ">", ">=", "=", "<>"}

\* get_commutator() on the comparison operators
Commutator == [o \in OpNames |->
                 CASE o = "<"  -> ">"  [] o = ">"  -> "<"
                   [] o = "<=" -> ">=" [] o = ">=" -> "<="
                   [] OTHER    -> o]

\* every predicate is one record shape; only a ROWNUM comparison ("rn")
\* gives meaning to node, op, rnLeft, arg and k.
\* arg: the other operand is an integer Const ("int"), another constant
\* or expression ("other"), or ROWNUM itself ("rownum"); k is its value
\* (only an integer's value matters to the rewrite; the others get one)
PredsOf(kinds, nodes, ops, lefts, args, ks) ==
    [kind : kinds, node : nodes, op : ops, rnLeft : lefts, arg : args, k : ks]
\* a predicate without ROWNUM, and one containing ROWNUM otherwise than as
\* "ROWNUM op x" (not an OpExpr/FuncExpr, or neither operand is ROWNUM)
Plain   == PredsOf({"filter", "complex"}, {"op"}, {"="}, {TRUE}, {"other"}, {1})
RnPreds == PredsOf({"rn"}, Nodes, OpNames, BOOLEAN, {"int"}, KVals)
           \cup PredsOf({"rn"}, Nodes, OpNames, BOOLEAN, {"other", "rownum"}, {1})
Preds   == Plain \cup RnPreds

\* limitCount: the query's own LIMIT, if any
Queries == [quals : BoundedSeq(Preds, MaxQuals) \ {<<>>},
            limitCount : {NoLimit, 1}, agg : BOOLEAN, sort : BOOLEAN]
IsQuery(q) ==
    /\ DOMAIN q = {"quals", "limitCount", "agg", "sort"}
    /\ q.quals \in Seq(Preds) /\ Len(q.quals) <= MaxQuals
    /\ q.limitCount \in Nat \cup {NoLimit}
    /\ q.agg \in BOOLEAN /\ q.sort \in BOOLEAN

VARIABLES
    query,      \* the Query being rewritten: WHERE list, limitCount, shape
    orig,       \* the Query as analysis produced it (history, unchanged)
    pc,         \* "start", "scan", "finish", "done" or "unchanged"
    qualList,   \* local qual_list
    i,          \* loop index into qualList
    limitCount, \* local limitCount
    hints       \* local bitmap of the indexes of absorbed predicates

vars == <<query, orig, pc, qualList, i, limitCount, hints>>

-----------------------------------------------------------------------------
(* Helpers of rewrite_rownum_query and the nodes it calls.                 *)

\* contain_rownum()
HasRownum(p) == p.kind \in {"rn", "complex"}

\* const_get_int64(): only an INT2/INT4/INT8 Const yields a value
IntK(p) == p.arg = "int"

\* the operator after ROWNUM has been moved to the left (commutator)
NormalOp(p) == IF p.rnLeft THEN p.op ELSE Commutator[p.op]

\* shapes the loop gives up on before looking at the operator name
Unrewritable(p) == p.kind = "complex" \/ p.node = "func_noop"

\* "ROWNUM <= k" with k <= 0, or "ROWNUM < k" with k <= 1
EmptyCase(p) ==
    /\ IntK(p)
    /\ \/ NormalOp(p) = "<=" /\ p.k <= 0
       \/ NormalOp(p) = "<"  /\ p.k <= 1

\* mutant: the k > 0 test of the "<>" case left out
LimitCaseUnsigned(p) ==
    /\ IntK(p)
    /\ \/ NormalOp(p) = "<=" /\ p.k > 0
       \/ NormalOp(p) = "<"  /\ p.k > 1
       \/ NormalOp(p) = "<>"

\* "ROWNUM <= k" (k > 0), "ROWNUM < k" (k > 1), "ROWNUM <> k" (k > 0)
LimitCase(p) ==
    /\ IntK(p)
    /\ \/ NormalOp(p) = "<=" /\ p.k > 0
       \/ NormalOp(p) = "<"  /\ p.k > 1
       \/ NormalOp(p) = "<>" /\ p.k > 0

\* mutant: "ROWNUM < k" taken as LIMIT k
LimitOfOffByOne(p) == p.k

LimitOf(p) == IF NormalOp(p) = "<=" THEN p.k ELSE p.k - 1

\* predicates dropped without a limit: <> k (k <= 0), >= 1, > 0, = ROWNUM
Tautology(p) ==
    \/ IntK(p) /\ NormalOp(p) = "<>" /\ p.k <= 0
    \/ IntK(p) /\ NormalOp(p) = ">=" /\ p.k = 1
    \/ IntK(p) /\ NormalOp(p) = ">"  /\ p.k = 0
    \/ NormalOp(p) = "=" /\ p.arg = "rownum"

\* the indexes of qualList not absorbed, in order
Remaining(ql, h) ==
    LET keep == SetToSortSeq({j \in 1..Len(ql) : j \notin h}, <)
    IN  [n \in 1..Len(keep) |-> ql[keep[n]]]

-----------------------------------------------------------------------------
Init ==
    /\ query \in {q \in Queries : [agg |-> q.agg, sort |-> q.sort] \in Shapes}
    /\ orig = query
    /\ pc = "start"
    /\ qualList = <<>>
    /\ i = 1
    /\ limitCount = NoLimit
    /\ hints = {}

\* The guard: a query with a LIMIT or OFFSET, or without ROWNUM in WHERE,
\* is left alone.
Skip ==
    /\ pc = "start"
    /\ \/ query.limitCount # NoLimit
       \/ \A j \in 1..Len(query.quals) : ~HasRownum(query.quals[j])
    /\ pc' = "unchanged"
    /\ UNCHANGED <<query, orig, qualList, i, limitCount, hints>>

\* canonicalize_qual() and the split of WHERE into its AND-list
Begin ==
    /\ pc = "start"
    /\ query.limitCount = NoLimit
    /\ \E j \in 1..Len(query.quals) : HasRownum(query.quals[j])
    /\ qualList' = query.quals
    /\ pc' = "scan"
    /\ UNCHANGED <<query, orig, i, limitCount, hints>>

Cur == qualList[i]

\* a predicate without ROWNUM: continue
PassOver ==
    /\ pc = "scan" /\ i <= Len(qualList)
    /\ ~HasRownum(Cur)
    /\ i' = i + 1
    /\ UNCHANGED <<query, orig, pc, qualList, limitCount, hints>>

\* every "return" inside the loop: the query keeps its WHERE, no LIMIT
GiveUp ==
    /\ pc = "scan" /\ i <= Len(qualList)
    /\ HasRownum(Cur)
    /\ \/ Unrewritable(Cur)
       \/ ~(EmptyCase(Cur) \/ LimitCase(Cur) \/ Tautology(Cur))
       \/ LimitCase(Cur) /\ limitCount # NoLimit
    /\ pc' = "unchanged"
    /\ UNCHANGED <<query, orig, qualList, i, limitCount, hints>>

\* the result is known to be empty: LIMIT 0, qual_list = NIL, break
EmptyResult ==
    /\ pc = "scan" /\ i <= Len(qualList)
    /\ HasRownum(Cur) /\ ~Unrewritable(Cur)
    /\ EmptyCase(Cur)
    /\ limitCount' = 0
    /\ qualList' = <<>>
    /\ pc' = "finish"
    /\ UNCHANGED <<query, orig, i, hints>>

\* the predicate becomes the LIMIT and is absorbed
TakeLimit ==
    /\ pc = "scan" /\ i <= Len(qualList)
    /\ HasRownum(Cur) /\ ~Unrewritable(Cur)
    /\ LimitCase(Cur) /\ limitCount = NoLimit
    /\ limitCount' = LimitOf(Cur)
    /\ hints' = hints \cup {i}
    /\ i' = i + 1
    /\ UNCHANGED <<query, orig, pc, qualList>>

\* the predicate always holds and is absorbed
DropTautology ==
    /\ pc = "scan" /\ i <= Len(qualList)
    /\ HasRownum(Cur) /\ ~Unrewritable(Cur)
    /\ Tautology(Cur)
    /\ hints' = hints \cup {i}
    /\ i' = i + 1
    /\ UNCHANGED <<query, orig, pc, qualList, limitCount>>

EndOfList ==
    /\ pc = "scan" /\ i > Len(qualList)
    /\ pc' = "finish"
    /\ UNCHANGED <<query, orig, qualList, i, limitCount, hints>>

\* query->limitCount = limitCount; WHERE is rebuilt only if qual_list # NIL
Finish ==
    /\ pc = "finish"
    /\ query' = [query EXCEPT
                   !.limitCount = limitCount,
                   !.quals = IF qualList = <<>> THEN @
                             ELSE Remaining(qualList, hints)]
    /\ pc' = "done"
    /\ UNCHANGED <<orig, qualList, i, limitCount, hints>>

Next ==
    \/ Skip \/ Begin
    \/ PassOver \/ GiveUp \/ EmptyResult \/ TakeLimit \/ DropTautology
    \/ EndOfList \/ Finish

Spec == Init /\ [][Next]_vars

-----------------------------------------------------------------------------
(* Reference semantics of a query over one scan of rows.                   *)

Cmp(o, a, b) ==
    CASE o = "<"  -> a < b  [] o = "<=" -> a <= b
      [] o = ">"  -> a > b  [] o = ">=" -> a >= b
      [] o = "="  -> a = b  [] o = "<>" -> a # b

\* p evaluated on a row with value v that would be ROWNUM rn
Holds(p, v, rn) ==
    CASE p.kind = "filter"  -> v = 1
      [] p.kind = "complex" -> TRUE
      [] OTHER ->
           LET a == IF p.arg = "rownum" THEN rn ELSE p.k
           IN  IF p.rnLeft THEN Cmp(p.op, rn, a) ELSE Cmp(p.op, a, rn)

\* WHERE with ROWNUM: n rows have been returned so far
RECURSIVE Filtered(_, _, _)
Filtered(rows, qs, n) ==
    IF rows = <<>> THEN <<>>
    ELSE IF \A j \in 1..Len(qs) : Holds(qs[j], Head(rows), n + 1)
         THEN <<Head(rows)>> \o Filtered(Tail(rows), qs, n + 1)
         ELSE Filtered(Tail(rows), qs, n)

\* count(*) or ORDER BY after the filter, then LIMIT
Shaped(rs, q) ==
    IF q.agg THEN <<Len(rs)>> ELSE IF q.sort THEN SortSeq(rs, <) ELSE rs

Limited(rs, lim) ==
    IF lim = NoLimit THEN rs
    ELSE SubSeq(rs, 1, IF lim < Len(rs) THEN lim ELSE Len(rs))

Result(rows, q) == Limited(Shaped(Filtered(rows, q.quals, 0), q), q.limitCount)

Scans == BoundedSeq(RowVals, MaxRows)

-----------------------------------------------------------------------------
\* The types of the variables; the LIMIT the rewrite computes is a row
\* count, never negative (a negative Const would make the executor fail).
TypeOK ==
    /\ IsQuery(query) /\ IsQuery(orig)
    /\ pc \in {"start", "scan", "finish", "done", "unchanged"}
    /\ qualList \in Seq(Preds) /\ Len(qualList) <= MaxQuals
    /\ i \in 1..(MaxQuals + 1)
    /\ limitCount \in {NoLimit} \cup Nat
    /\ hints \subseteq 1..MaxQuals

\* The rewrite keeps the meaning of the query: when rewrite_rownum_query
\* has installed its LIMIT and rebuilt WHERE, every scan of rows gives the
\* rows the original ROWNUM predicates would have returned.
RewritePreservesResult ==
    pc = "done" => \A rows \in Scans : Result(rows, query) = Result(rows, orig)

=============================================================================
