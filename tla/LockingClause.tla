---------------------------- MODULE LockingClause ----------------------------
(***************************************************************************)
(* FOR [KEY] UPDATE / FOR [NO KEY] SHARE in src/src/backend/parser/        *)
(* analyze.c: transformSelectStmt() applies each LockingClause of the      *)
(* statement in turn with transformLockingClause(), which checks the query *)
(* (CheckSelectLocking), resolves the locked names to range-table indexes  *)
(* and records row marks with applyLockingClause(), pushing a clause for   *)
(* all relations down into every locked subquery.                         *)
(*                                                                         *)
(* A query level is a record: its range table (entries with a kind, an     *)
(* alias and, for a subquery, the id of its Query), the features           *)
(* CheckSelectLocking rejects, its rowMarks, hasForUpdate, and the indexes *)
(* of the entries whose requiredPerms include ACL_SELECT_FOR_UPDATE.       *)
(***************************************************************************)
EXTENDS Integers, Sequences, SequencesExt

CONSTANTS
    QIds,        \* ids of the query levels; Top is the one being analysed
    Top,
    InitQueries, \* the query levels as analysis leaves them before locking
    Clauses,     \* the LockingClauses a statement may carry
    MaxClauses   \* most LockingClauses on one SELECT

\* LockClauseStrength, in the order of its enum (Max() compares them)
Strengths == 1..4   \* FORKEYSHARE < FORSHARE < FORNOKEYUPDATE < FORUPDATE

VARIABLES
    queries,     \* query id -> query level
    pending,     \* the statement's lockingClause list not yet applied
    pc,
    applied,     \* history: the clauses applied so far, in order
    initial      \* history: the query levels before the first clause

vars == <<queries, pending, pc, applied, initial>>

-----------------------------------------------------------------------------
\* mutant: a second clause on the same entry appends another RowMarkClause
ApplyMarkAppend(q, rti, s, nw, pd) ==
    [q EXCEPT !.hasForUpdate = @ \/ ~pd,
              !.rowMarks = Append(@, [rti |-> rti, strength |-> s,
                                      noWait |-> nw, pushedDown |-> pd])]

\* mutant: hasForUpdate set by pushed-down clauses too
ApplyMarkAlwaysFlag(q, rti, s, nw, pd) ==
    LET has == {n \in DOMAIN q.rowMarks : q.rowMarks[n].rti = rti}
        q1  == [q EXCEPT !.hasForUpdate = TRUE]
    IN  IF has = {}
        THEN [q1 EXCEPT !.rowMarks = Append(@, [rti |-> rti, strength |-> s,
                                                noWait |-> nw, pushedDown |-> pd])]
        ELSE LET n == Min(has)
             IN  [q1 EXCEPT !.rowMarks[n].strength = IF @ >= s THEN @ ELSE s,
                            !.rowMarks[n].noWait = @ \/ nw,
                            !.rowMarks[n].pushedDown = @ /\ pd]

\* mutant: pushedDown of a merged mark ORed instead of ANDed
ApplyMarkOrPushed(q, rti, s, nw, pd) ==
    LET has == {n \in DOMAIN q.rowMarks : q.rowMarks[n].rti = rti}
        q1  == IF pd THEN q ELSE [q EXCEPT !.hasForUpdate = TRUE]
    IN  IF has = {}
        THEN [q1 EXCEPT !.rowMarks = Append(@, [rti |-> rti, strength |-> s,
                                                noWait |-> nw, pushedDown |-> pd])]
        ELSE LET n == Min(has)
             IN  [q1 EXCEPT !.rowMarks[n].strength = IF @ >= s THEN @ ELSE s,
                            !.rowMarks[n].noWait = @ \/ nw,
                            !.rowMarks[n].pushedDown = @ \/ pd]

\* applyLockingClause(): an explicit clause sets hasForUpdate; a mark that
\* exists for rtindex takes the stronger strength, NOWAIT if either has it,
\* and is pushed down only if both are; otherwise a new mark is appended.
ApplyMark(q, rti, s, nw, pd) ==
    LET has == {n \in DOMAIN q.rowMarks : q.rowMarks[n].rti = rti}
        q1  == IF pd THEN q ELSE [q EXCEPT !.hasForUpdate = TRUE]
    IN  IF has = {}
        THEN [q1 EXCEPT !.rowMarks = Append(@, [rti |-> rti, strength |-> s,
                                                noWait |-> nw, pushedDown |-> pd])]
        ELSE LET n == Min(has)     \* get_parse_rowmark()
             IN  [q1 EXCEPT !.rowMarks[n].strength = IF @ >= s THEN @ ELSE s,
                            !.rowMarks[n].noWait = @ \/ nw,
                            !.rowMarks[n].pushedDown = @ /\ pd]

\* CheckSelectLocking(): set operations, DISTINCT, GROUP BY, HAVING,
\* aggregates, window functions or an SRF in the target list
Unlockable(q) == q.feats # {}

Lockable == {"RELATION", "SUBQUERY"}

\* the clause passed down to subqueries: all relations, same strength
AllRels(lc) == [lc EXCEPT !.rels = <<>>]

RECURSIVE Lock(_, _, _, _), LockAllEntry(_, _, _, _, _), LockNamedEntry(_, _, _, _, _)

\* applyLockingClause(qry, i, ...) on the query level qid
Marked(st, qid, i, lc, pushed) ==
    [st.qs EXCEPT ![qid] = ApplyMark(@, i, lc.strength, lc.noWait, pushed)]

\* mutant: the entry's index taken before "++i"
LockAllEntryIndexLag(st, qid, i, lc, pushed) ==
    IF st.qs[qid].rtable[i].kind = "RELATION"
    THEN [qs |-> [Marked(st, qid, i - 1, lc, pushed) EXCEPT ![qid].perms = @ \cup {i - 1}],
          err |-> FALSE]
    ELSE Lock(Marked(st, qid, i - 1, lc, pushed), st.qs[qid].rtable[i].sub, AllRels(lc), TRUE)

\* the switch of the all-relations loop: a RELATION is marked and gets
\* ACL_SELECT_FOR_UPDATE, a SUBQUERY is marked and gets the clause for
\* all its rels
LockAllEntry(st, qid, i, lc, pushed) ==
    IF st.qs[qid].rtable[i].kind = "RELATION"
    THEN [qs |-> [Marked(st, qid, i, lc, pushed) EXCEPT ![qid].perms = @ \cup {i}],
          err |-> FALSE]
    ELSE Lock(Marked(st, qid, i, lc, pushed), st.qs[qid].rtable[i].sub, AllRels(lc), TRUE)

\* mutant: the named copy marks a relation without ACL_SELECT_FOR_UPDATE
LockNamedEntryNoPerms(st, qid, i, lc, pushed) ==
    IF st.qs[qid].rtable[i].kind = "RELATION"
    THEN [qs |-> Marked(st, qid, i, lc, pushed), err |-> FALSE]
    ELSE Lock(Marked(st, qid, i, lc, pushed), st.qs[qid].rtable[i].sub, AllRels(lc), TRUE)

\* the same switch, written again in the loop over the named relations
LockNamedEntry(st, qid, i, lc, pushed) ==
    IF st.qs[qid].rtable[i].kind = "RELATION"
    THEN [qs |-> [Marked(st, qid, i, lc, pushed) EXCEPT ![qid].perms = @ \cup {i}],
          err |-> FALSE]
    ELSE Lock(Marked(st, qid, i, lc, pushed), st.qs[qid].rtable[i].sub, AllRels(lc), TRUE)

RECURSIVE LockAll(_, _, _, _, _)

\* no locked names: every RELATION and SUBQUERY entry of the range table
LockAll(st, qid, i, lc, pushed) ==
    IF st.err \/ i > Len(st.qs[qid].rtable) THEN st
    ELSE IF st.qs[qid].rtable[i].kind \in Lockable
         THEN LockAll(LockAllEntry(st, qid, i, lc, pushed), qid, i + 1, lc, pushed)
         ELSE LockAll(st, qid, i + 1, lc, pushed)

RECURSIVE LockNamed(_, _, _, _, _)
\* the named relations: each must be unqualified and the alias of some
\* entry; the first such entry must be a relation or a subquery
LockNamed(st, qid, names, lc, pushed) ==
    IF st.err \/ names = <<>> THEN st
    ELSE LET name    == Head(names)
             rt      == st.qs[qid].rtable
             matches == {i \in DOMAIN rt : rt[i].alias = name.rel}
         IN  IF name.qualified \/ matches = {} THEN [st EXCEPT !.err = TRUE]
             ELSE IF rt[Min(matches)].kind \notin Lockable THEN [st EXCEPT !.err = TRUE]
             ELSE LockNamed(LockNamedEntry(st, qid, Min(matches), lc, pushed),
                            qid, Tail(names), lc, pushed)

\* transformLockingClause()
Lock(qs, qid, lc, pushed) ==
    IF Unlockable(qs[qid]) THEN [qs |-> qs, err |-> TRUE]
    ELSE IF lc.rels = <<>> THEN LockAll([qs |-> qs, err |-> FALSE], qid, 1, lc, pushed)
    ELSE LockNamed([qs |-> qs, err |-> FALSE], qid, lc.rels, lc, pushed)

-----------------------------------------------------------------------------
Init ==
    /\ queries \in InitQueries
    /\ pending \in BoundedSeq(Clauses, MaxClauses)
    /\ pc = "lock"
    /\ applied = <<>>
    /\ initial = queries

\* one iteration of "foreach(l, stmt->lockingClause)"
ApplyClause ==
    /\ pc = "lock" /\ pending # <<>>
    /\ LET r == Lock(queries, Top, Head(pending), FALSE)
       IN  IF r.err THEN pc' = "error" /\ UNCHANGED <<queries, pending, applied>>
           ELSE /\ queries' = r.qs /\ pending' = Tail(pending) /\ pc' = "lock"
                /\ applied' = Append(applied, Head(pending))
    /\ UNCHANGED initial

\* the loop is over; assign_query_collations() does not touch locking
Done ==
    /\ pc = "lock" /\ pending = <<>>
    /\ pc' = "done"
    /\ UNCHANGED <<queries, pending, applied, initial>>

Next == ApplyClause \/ Done

Spec == Init /\ [][Next]_vars

-----------------------------------------------------------------------------
RowMark == [rti : Nat, strength : Strengths, noWait : BOOLEAN, pushedDown : BOOLEAN]

TypeOK ==
    /\ pc \in {"lock", "done", "error"}
    /\ \A q \in QIds :
         /\ queries[q].hasForUpdate \in BOOLEAN
         /\ queries[q].rowMarks \in Seq(RowMark)
         /\ \A n \in DOMAIN queries[q].rowMarks :
              queries[q].rowMarks[n].rti \in DOMAIN queries[q].rtable
         /\ queries[q].perms \subseteq DOMAIN queries[q].rtable

\* Reference semantics of a clause, independent of the order of merging:
\* the (query, entry) pairs it reaches, each with what it asks for.
Selected(q, lc) ==
    IF lc.rels = <<>>
    THEN {i \in DOMAIN q.rtable : q.rtable[i].kind \in Lockable}
    ELSE {Min({i \in DOMAIN q.rtable : q.rtable[i].alias = n.rel}) : n \in Range(lc.rels)}

RECURSIVE Reach(_, _, _)
Reach(qid, lc, pd) ==
    UNION {{[q |-> qid, rti |-> i, s |-> lc.strength, nw |-> lc.noWait, pd |-> pd]}
             \cup (IF initial[qid].rtable[i].kind = "SUBQUERY"
                   THEN Reach(initial[qid].rtable[i].sub, AllRels(lc), TRUE) ELSE {})
           : i \in Selected(initial[qid], lc)}

MarkOf(q, i) == {queries[q].rowMarks[n] : n \in {n \in DOMAIN queries[q].rowMarks :
                                                  queries[q].rowMarks[n].rti = i}}

Requests(q, i) ==
    {[s |-> m.strength, nw |-> m.noWait, pd |-> m.pushedDown] :
        m \in {initial[q].rowMarks[n] : n \in {n \in DOMAIN initial[q].rowMarks :
                                               initial[q].rowMarks[n].rti = i}}}
    \cup {[s |-> a.s, nw |-> a.nw, pd |-> a.pd] :
            a \in {a \in UNION {Reach(Top, applied[k], FALSE) : k \in DOMAIN applied} :
                     a.q = q /\ a.rti = i}}

\* Spec section 8: merging is commutative and associative. Whatever order
\* the clauses of a statement and their push-downs into subqueries (and a
\* subquery's own FOR UPDATE) reach an entry in, the entry has a row mark
\* iff something asked for one, and that mark has the strongest strength
\* asked for, NOWAIT if any asked for it, and is pushed down only if every
\* request was (applyLockingClause, transformLockingClause).
RowMarksMatchClauses ==
    \A q \in QIds : \A i \in DOMAIN queries[q].rtable :
        LET req == Requests(q, i) IN
        IF req = {} THEN MarkOf(q, i) = {}
        ELSE \E m \in MarkOf(q, i) :
               /\ m.strength = Max({r.s : r \in req})
               /\ m.noWait = (\E r \in req : r.nw)
               /\ m.pushedDown = (\A r \in req : r.pd)

\* get_parse_rowmark() finds the first mark of an rtindex, so a query
\* level never holds two RowMarkClauses for one entry, however many
\* clauses and push-downs reach it.
OneMarkPerRte ==
    \A q \in QIds : \A m, n \in DOMAIN queries[q].rowMarks :
        m # n => queries[q].rowMarks[m].rti # queries[q].rowMarks[n].rti

\* hasForUpdate says the query level itself had an explicit locking clause:
\* it holds iff some of its row marks is not pushed down, in the locked
\* query and in every subquery a clause was pushed into.
ForUpdateFlag ==
    \A q \in QIds :
        queries[q].hasForUpdate <=>
            \E n \in DOMAIN queries[q].rowMarks : ~queries[q].rowMarks[n].pushedDown

\* requiredPerms gets ACL_SELECT_FOR_UPDATE exactly on the relation entries
\* that carry a row mark, at every query level: the RELATION case is
\* written twice (the all-rels loop and the named loop), and both copies
\* must set the mark and the permission together, whether the clause was
\* written at that level or pushed down into a subquery.
LockedRelationsChecked ==
    \A q \in QIds :
        queries[q].perms =
            {queries[q].rowMarks[n].rti : n \in {n \in DOMAIN queries[q].rowMarks :
                queries[q].rtable[queries[q].rowMarks[n].rti].kind = "RELATION"}}

\* FOR UPDATE OF name locks the entry that name denotes in the FROM
\* clause: the one visible in the namespace under that alias. The code
\* takes the first range-table entry whose eref->aliasname matches.
NamedLockHitsVisible ==
    \A k \in DOMAIN applied : \A j \in DOMAIN applied[k].rels :
        \A i \in DOMAIN queries[Top].rtable :
            (/\ queries[Top].rtable[i].alias = applied[k].rels[j].rel
             /\ queries[Top].rtable[i].visible)
                => MarkOf(Top, i) # {}

=============================================================================
