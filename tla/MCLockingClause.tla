--------------------------- MODULE MCLockingClause ---------------------------
(***************************************************************************)
(* Query levels for LockingClause: the SELECT being analysed (0), a FROM   *)
(* subquery "s" of it (1), and a subquery "t" inside that one (2).         *)
(***************************************************************************)
EXTENDS LockingClause

MCQIds == {0, 1, 2}

Rte(kind, alias, sub, visible) == [kind |-> kind, alias |-> alias, sub |-> sub, visible |-> visible]
Level(rtable, feats) == [rtable |-> rtable, feats |-> feats, rowMarks |-> <<>>,
                         hasForUpdate |-> FALSE, perms |-> {}]

\* FROM a, (SELECT ...) s
TopPlain == <<Rte("RELATION", "a", 0, TRUE), Rte("SUBQUERY", "s", 1, TRUE)>>
\* FROM (a JOIN b ON ...) AS j, a: the aliased join hides its a and b, so a
\* second a is legal and is the one the name a denotes
TopHidden == <<Rte("RELATION", "a", 0, FALSE), Rte("RELATION", "b", 0, FALSE),
               Rte("JOIN", "j", 0, TRUE), Rte("RELATION", "a", 0, TRUE)>>
\* FROM b JOIN (SELECT ...) s ON ..., f(), (VALUES ...) v, c (a WITH query)
TopKinds == <<Rte("RELATION", "b", 0, TRUE), Rte("SUBQUERY", "s", 1, TRUE),
              Rte("JOIN", "unnamed_join", 0, FALSE), Rte("FUNCTION", "f", 0, TRUE),
              Rte("VALUES", "v", 0, TRUE), Rte("CTE", "c", 0, TRUE)>>

SubRtables == {<<Rte("RELATION", "a", 0, TRUE)>>,
               <<Rte("RELATION", "a", 0, TRUE), Rte("SUBQUERY", "t", 2, TRUE)>>}

\* the subquery's own "FOR SHARE", applied when it was analysed
OwnShare == [strength |-> 2, noWait |-> FALSE, rels |-> <<>>]

Bases == {(0 :> Level(top, tf) @@ 1 :> Level(sub, sf) @@
           2 :> Level(<<Rte("RELATION", "a", 0, TRUE)>>, {})) :
            top \in {TopPlain, TopHidden, TopKinds}, sub \in SubRtables,
            tf \in {{}, {"aggs"}}, sf \in {{}, {"distinct"}}}

MCInitQueries ==
    Bases \cup {Lock(b, 1, OwnShare, FALSE).qs : b \in {b \in Bases : b[1].feats = {}}}

Name(rel, qualified) == [rel |-> rel, qualified |-> qualified]

MCClauses ==
    [strength : {2, 4}, noWait : BOOLEAN,
     rels : {<<>>, <<Name("a", FALSE)>>, <<Name("s", FALSE)>>, <<Name("b", FALSE)>>,
             <<Name("f", FALSE)>>, <<Name("j", FALSE)>>, <<Name("a", TRUE)>>,
             <<Name("z", FALSE)>>, <<Name("a", FALSE), Name("s", FALSE)>>}]

=============================================================================
