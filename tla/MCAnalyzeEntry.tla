--------------------------- MODULE MCAnalyzeEntry ---------------------------
(***************************************************************************)
(* Statements for AnalyzeEntry: SELECTs and set operations with and        *)
(* without INTO and FOR UPDATE, DECLARE CURSOR with each option class,     *)
(* EXPLAIN and CREATE TABLE AS of a SELECT, DML and a plain utility, and   *)
(* EXECUTE DIRECT of none, one or two such statements on this coordinator, *)
(* another node or an undefined one.                                       *)
(***************************************************************************)
EXTENDS AnalyzeEntry

Leaf(into) == [into |-> into]
Select(intos, lock) == [tag |-> "SELECT", leaves |-> [i \in DOMAIN intos |-> Leaf(intos[i])],
                        lock |-> lock]

Selects == {Select(intos, lock) : intos \in {<<FALSE>>, <<TRUE>>, <<FALSE, FALSE>>,
                                             <<TRUE, FALSE>>, <<FALSE, TRUE>>},
                                  lock \in {"none", "top", "sub"}}

\* statements of the query text: a SELECT, a SELECT INTO (lifted to CREATE
\* TABLE AS), a SELECT the analysis rejects, DML, an unlisted and a
\* whitelisted utility
Inner == {Select(<<FALSE>>, "none"), Select(<<TRUE>>, "none"), Select(<<FALSE, TRUE>>, "none"),
          [tag |-> "INSERT"], [tag |-> "VACUUM"], [tag |-> "TABLESPACE"]}

XD(n, t, qs) == [tag |-> "EXECDIRECT", nodes |-> n, target |-> t, queries |-> qs]

ExecDirects ==
    {XD(1, t, <<q>>) : t \in {"self", "remote"}, q \in Inner}
    \cup {XD(1, t, <<>>) : t \in {"self", "remote"}}
    \cup {XD(1, "remote", <<Select(<<FALSE>>, "none"), [tag |-> "INSERT"]>>),
          XD(2, "remote", <<Select(<<FALSE>>, "none")>>),
          XD(1, "none", <<Select(<<FALSE>>, "none")>>)}

MCStmts ==
    Selects
    \cup {[tag |-> "DECLARE", opts |-> o, query |-> Select(<<FALSE>>, lock)] :
            o \in {{}, {"HOLD"}, {"SCROLL"}, {"INSENSITIVE"}, {"SCROLL", "NO_SCROLL"}},
            lock \in {"none", "top", "sub"}}
    \cup {[tag |-> "DECLARE", opts |-> {}, query |-> Select(<<TRUE>>, "none")]}
    \cup {[tag |-> "EXPLAIN", query |-> q] : q \in {Select(<<TRUE>>, "none"), Select(<<FALSE>>, "top")}}
    \cup {[tag |-> "CTAS", query |-> Select(<<FALSE>>, "none")]}
    \cup {[tag |-> t] : t \in {"INSERT", "UPDATE", "DELETE", "VACUUM"}}
    \cup ExecDirects

MCInitStacks == {<<>>, <<"path_caller">>}

=============================================================================
