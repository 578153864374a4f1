------------------------ MODULE MCOuterJoinRewrite -------------------------
(* Three base relations (range-table indexes 1..3).  FROM is either the   *)
(* list t1, t2, t3 or an explicit JOIN of t1 and t2 (range-table index 4) *)
(* followed by t3; the explicit JOIN has one ON predicate, with or        *)
(* without a marker on either side; or that JOIN CROSS JOIN t3 (range-   *)
(* table index 5) as the only FROM item.                                   *)
EXTENDS OuterJoinRewrite

MCTables == {1, 2, 3}

OnPred(refs) == [id |-> 0, refs |-> refs]

MarkRight == <<[t |-> 1, m |-> FALSE], [t |-> 2, m |-> TRUE]>>

MCOnPreds ==
    { <<[t |-> 1, m |-> FALSE], [t |-> 2, m |-> FALSE]>>,
      MarkRight,
      <<[t |-> 1, m |-> TRUE],  [t |-> 2, m |-> FALSE]>> }

MCInitFroms ==
    { <<Rtr(1), Rtr(2), Rtr(3)>> }
    \cup { <<Join(jt, Rtr(1), Rtr(2), <<OnPred(on)>>, 4), Rtr(3)>> :
             jt \in {"INNER", "LEFT", "RIGHT"}, on \in MCOnPreds }
    \cup { <<Join("INNER", Join(jt, Rtr(1), Rtr(2), <<OnPred(MarkRight)>>, 4), Rtr(3), <<>>, 5)>> :
             jt \in {"INNER", "LEFT", "RIGHT"} }

=============================================================================
