----------------------------- MODULE MCModifyStmt -----------------------------
EXTENDS ModifyStmt

\* a three-column target: a SET list of one column plus one resjunk entry
\* leaves p_next_resno exactly at the column count
MCNCols == 3

\* called at top level, or from CREATE RULE with OLD and NEW entries
MCRuleRtables == {<<>>, <<Rel, Rel>>}

\* a parent, its child and a grandchild
MCInherits == {<<"parent", "child">>, <<"child", "grandchild">>}

\* range-table entries of an INSERT's SELECT: relations read with and
\* without inheritance (ONLY), and subqueries
R(rel, inh) == [kind |-> "RELATION", rel |-> rel, inh |-> inh, rtable |-> <<>>]
Q(rt) == [kind |-> "SUBQUERY", rel |-> "none", inh |-> FALSE, rtable |-> rt]
Entries == {R("parent", TRUE), R("parent", FALSE), R("child", TRUE), Q(<<>>),
            Q(<<R("parent", TRUE)>>)}
SrcRtables == {<<e>> : e \in Entries} \cup {<<e, f>> : e, f \in Entries}

Full(cmd, cols, src, rows, tl, from, where, set, junk, ret, rel, srt, ctes) ==
    [cmd |-> cmd, cols |-> cols, src |-> src, rows |-> rows, tl |-> tl,
     from |-> from, where |-> where, set |-> set, junk |-> junk, returning |-> ret,
     rel |-> rel, srcRtable |-> srt, ctes |-> ctes]

S(cmd, cols, src, rows, tl, from, where, set, junk, ret) ==
    Full(cmd, cols, src, rows, tl, from, where, set, junk, ret, "plain", <<>>, <<>>)

Ins(cols, src, rows, tl, ret) == S("INSERT", cols, src, rows, tl, <<>>, "none", <<>>, 0, ret)

\* explicit column lists: none, one, two, a duplicate, an unknown column
Cols == {<<>>, <<1>>, <<1, 2>>, <<2, 2>>, <<4>>}

Items == {"const", "col", "rule"}
Rows1 == {<<x>> : x \in Items} \cup {<<"const", "const">>}

TE(k, t, j) == [kind |-> k, type |-> t, junk |-> j]
\* SELECT target lists: an UNKNOWN literal copied up, a junk sort column
SelectTls == {<<TE("Var", "int4", FALSE)>>,
              <<TE("Const", "unknown", FALSE), TE("Var", "int4", TRUE)>>,
              <<TE("Var", "int4", FALSE), TE("Param", "unknown", FALSE)>>}

InsertStmts ==
    {Ins(c, "default", <<>>, <<>>, r) : c \in {<<>>, <<1>>}, r \in {0, 1}}
    \cup {Ins(c, "values1", <<row>>, <<>>, 0) : c \in Cols, row \in Rows1}
    \cup {Ins(c, "values", <<r1, r2>>, <<>>, r) : c \in {<<>>, <<1>>, <<1, 2>>},
              r1 \in Rows1, r2 \in {<<"const">>, <<"col">>, <<"rule">>, <<"const", "const">>},
              r \in {0, 1}}
    \cup {Ins(c, "select", <<>>, tl, r) : c \in Cols, tl \in SelectTls, r \in {0, 1}}
    \cup {Full("INSERT", <<>>, "select", <<>>, <<TE("Var", "int4", FALSE)>>, <<>>, "none",
               <<>>, 0, 0, rel, srt, <<>>) : rel \in {"child", "grandchild"}, srt \in SrcRtables}

\* FROM/USING lists with and without a subquery naming the target
Froms == {<<>>, <<"rel">>, <<"subref">>, <<"rel", "subref">>}

\* SET lists: one column (the first or the last), an unknown column, two
\* columns out of order, the same column twice
Sets == {<<1>>, <<3>>, <<4>>, <<2, 1>>, <<2, 2>>}

UpdateStmts ==
    {S("UPDATE", <<>>, "none", <<>>, <<>>, f, w, st, j, r) :
        f \in Froms, w \in {"none", "target"}, st \in Sets, j \in {0, 1}, r \in {0, 4}}

\* WITH lists of UPDATE and DELETE: an inserting and an updating CTE
WithStmts ==
    {Full(cmd, <<>>, "none", <<>>, <<>>, <<>>, "none", IF cmd = "UPDATE" THEN <<1>> ELSE <<>>,
          0, 0, "plain", <<>>, ctes) :
        cmd \in {"UPDATE", "DELETE"}, ctes \in {<<"SELECT", "INSERT">>, <<"UPDATE">>}}

DeleteStmts ==
    {S("DELETE", <<>>, "none", <<>>, <<>>, f, w, <<>>, 0, r) :
        f \in Froms, w \in {"none", "target"}, r \in {0, 4}}

MCStmts == InsertStmts \cup UpdateStmts \cup DeleteStmts \cup WithStmts
=============================================================================
