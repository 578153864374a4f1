-------------------------- MODULE MCRownumRewrite --------------------------
(* Model values for RownumRewrite.                                         *)
EXTENDS RownumRewrite

MCKVals    == {-1, 0, 1, 2}
MCRowVals  == {0, 1}
MCNodes    == {"op", "func_noop"}
\* plain SELECT ... WHERE: no aggregate, no ORDER BY
PlainShapes == {[agg |-> FALSE, sort |-> FALSE]}
\* SELECT count(*) ... WHERE
AggShapes   == {[agg |-> TRUE, sort |-> FALSE]}
=============================================================================
