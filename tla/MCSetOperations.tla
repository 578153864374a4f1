--------------------------- MODULE MCSetOperations ---------------------------
EXTENDS SetOperations

\* three resolvable types in two categories; numeric is preferred
MCCat == [int4 |-> "N", numeric |-> "N", text |-> "S"]
MCRank == [int4 |-> 1, numeric |-> 2, text |-> 1]

C(t, m, k, co) == [type |-> t, typmod |-> m, kind |-> k, coll |-> co]
I4 == C("int4", -1, "Var", "none")
UC == C("unknown", -1, "Const", "none")
TC == C("text", -1, "Var", "C")

\* output columns a leaf SELECT can have
ColChoices ==
    { I4, C("numeric", 1, "Var", "none"), C("numeric", 2, "Var", "none"),
      UC, C("unknown", -1, "Param", "none"), C("unknown", -1, "Var", "none"),
      TC, C("text", -1, "Var", "en") }

L(cols, into, lock) == [tag |-> "leaf", cols |-> cols, into |-> into, lock |-> lock]
Leaves1 == {L(<<c>>, FALSE, FALSE) : c \in ColChoices}
Leaves2 == {L(<<x, y>>, FALSE, FALSE) : x, y \in {I4, UC, TC}}
\* a non-leftmost INTO, a FOR UPDATE on a member SELECT
LeavesFlagged == {L(<<I4>>, TRUE, FALSE), L(<<I4>>, FALSE, TRUE)}

\* VALUES members: a "rel.*" of two int4 columns, a DEFAULT, numerics
ST == C("int4", -1, "Star", "none")
DF == C("unknown", -1, "SetToDefault", "none")
V(rows) == [tag |-> "values", rows |-> rows, into |-> FALSE, lock |-> FALSE]
VLeaves ==
    { V(<<<<I4>>, <<UC>>>>), V(<<<<UC>>, <<UC>>>>),
      V(<<<<UC>>, <<I4>>, <<C("numeric", 2, "Var", "none")>>>>),
      V(<<<<I4>>, <<TC>>>>), V(<<<<DF>>>>), V(<<<<TC>>, <<C("text", -1, "Var", "en")>>>>),
      V(<<<<ST>>, <<I4, UC>>>>), V(<<<<ST>>, <<I4>>>>), V(<<<<I4, UC>>, <<UC>>>>) }

\* the SELECT members beside a VALUES member: one and two columns, an
\* UNKNOWN literal to be coerced in the VALUES entry's neighbour
Partners == {L(<<I4>>, FALSE, FALSE), L(<<UC>>, FALSE, FALSE), L(<<I4, I4>>, FALSE, FALSE)}

\* an internal node; isolated when it has its own ORDER BY/LIMIT/WITH
N(o, a, l, r, iso, order, lock, rec) ==
    [tag |-> "op", op |-> o, all |-> a, larg |-> l, rarg |-> r, isolated |-> iso,
     into |-> FALSE, lock |-> lock, order |-> order, recursive |-> rec]

Ops == {"UNION", "INTERSECT"}

\* two members, with every column choice, arity and member flag
Two ==
    { N(o, a, l, r, FALSE, "name", FALSE, rec) :
        o \in Ops, a \in BOOLEAN, rec \in BOOLEAN,
        l, r \in Leaves1 \cup Leaves2 \cup LeavesFlagged }
    \cup
    { N("UNION", a, l, r, FALSE, "name", FALSE, FALSE) :
        a \in BOOLEAN, <<l, r>> \in (VLeaves \X Partners) \cup (Partners \X VLeaves) }

\* the top-level clauses: no ORDER BY, ORDER BY a name or an expression, and
\* FOR UPDATE of the whole statement
Clauses ==
    { N(o, a, l, r, FALSE, ord, lk, FALSE) :
        o \in Ops, a \in BOOLEAN, l, r \in {L(<<I4>>, FALSE, FALSE), L(<<UC>>, FALSE, FALSE)},
        ord \in {"none", "name", "expr"}, lk \in BOOLEAN }

\* three one-column members, nested on the left (possibly isolated) or right
Three ==
    { N(o, a, N("UNION", ia, x, y, iso, "none", FALSE, FALSE), z, FALSE, "name", FALSE, FALSE) :
        o \in Ops, a \in BOOLEAN, ia \in BOOLEAN, iso \in BOOLEAN,
        x, y, z \in Leaves1 }
    \cup
    { N(o, a, x, N("UNION", ia, y, z, FALSE, "none", FALSE, FALSE), FALSE, "name", FALSE, FALSE) :
        o \in Ops, a \in BOOLEAN, ia \in BOOLEAN, x, y, z \in Leaves1 }

MCStmts == Two \cup Clauses \cup Three

=============================================================================
