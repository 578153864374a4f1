# TLA+ models of the AntDB semantic analyser

This directory holds TLA+ models of `src/src/backend/parser/analyze.c`: the
SQL semantic-analysis stage of AntDB, with its two Oracle-dialect rewrites.
The other two files under `src/` are headers with declarations only.

The analyser is single-threaded: one parse state per query, no suspension
points, and no persisted state. Its hard behaviours are therefore not
interleavings. They are long sequences of legal steps over trees and lists:
- a FROM tree mutated in place while it is searched;
- a namespace rebuilt from pointers into the old one;
- an AND-list walked once with early returns and a `break`;
- results that depend on the order of predicates and of the column
  references inside them.

The models make each such sequence explicit and check it against what the
spec (`spec.md`) and the dialect's semantics say.

## Inventory

| Part (spec) | Code | State it changes | Operations |
|---|---|---|---|
| C4 dispatcher | `parse_analyze_for_gram` 145, `parse_analyze_varparams_for_gram` 203, `transformTopLevelStmt` 276, `transformStmt` 315 | override search path (push/pop in `PG_TRY`), the Query | dispatch by node tag; SELECT INTO lift at top level only |
| C5 statements | `transformDeleteStmt` 456, `transformInsertStmt` 568, `transformSelectStmt` 1088, `transformValuesClause` 1229, `transformUpdateStmt` 2098, `transformDeclareCursorStmt` 2300, `transformExplainStmt` 2384, `transformCreateTableAsStmt` 2408, `transformExecDirectStmt` 2491 | parse state, Query | one transformer per statement kind |
| C3 clauses | `transformReturningList` 2259 (the rest is outside this repository) | `p_namespace`, `p_next_resno` (saved and restored) | RETURNING of INSERT, UPDATE, DELETE |
| C6 set operations | `transformSetOperationStmt` 1460, `transformSetOperationTree` 1702, `determineRecursiveColTypes` 2042 | range table (pushed and truncated), column types | post-order recursion; common type, typmod and collation |
| C7 locking | `CheckSelectLocking` 2790, `transformLockingClause` 2852, `applyLockingClause` 3007 | `rowMarks`, `hasForUpdate`, `requiredPerms` | merge of row marks, push-down into subqueries |
| C8 outer-join markers | `transformFromAndWhere` 3593 and the helpers 3062-3591, `check_joinon_column_join` 3311 | `p_joinlist`, WHERE, `p_namespace`, `p_rtable`, `p_joinexprs` | group predicates, pull relations up into JoinExprs, re-analyse |
| C9 ROWNUM | `rewrite_rownum_query` 3691, `rewrite_rownum_query_enum` 3671 | WHERE, `limitCount` | one pass over the AND-list |
| C10 helpers | `analyze_requires_snapshot` 401, `count_rowexpr_columns` 1046, `is_relation_child` 2686 | none | classifiers |

How the parts interact:
- `transformSelectStmt` runs C8 between WHERE and the target list, so the
  target list resolves names in the namespace that C8 rebuilt.
- `parse_analyze_for_gram` then runs `check_joinon_column_join` on the
  top-level join tree, and runs C9 on every Query node.
- C7 runs at the end of every SELECT transformation and pushes row marks
  down into FROM subqueries.

## Modules

### RownumRewrite (C9), MCRownumRewrite

State: `query`, the WHERE AND-list with the query's shape; the locals
`qual_list`, `i`, `limitCount` and `hints` (the bitmap); and `pc`.

A predicate is a record. It says whether it is a plain filter, a ROWNUM
comparison or another expression that contains ROWNUM. A comparison also
records its operator, which side ROWNUM is on, the other operand (an integer
constant, another expression, or ROWNUM) and its node kind (OpExpr, or a
FuncExpr with or without an operator).

Each loop iteration is one action:

| Action | Code path | Effect |
|---|---|---|
| `PassOver` | `continue` | skip a predicate without ROWNUM |
| `GiveUp` | every `return` | the query is left as it was |
| `EmptyResult` | `break` with LIMIT 0 | |
| `TakeLimit` | `limitCount = ...` | the predicate becomes the limit |
| `DropTautology` | `hints` | the predicate is absorbed |

`Finish` is the reassembly of WHERE. `Skip` and `Begin` are the guard and
`canonicalize_qual`.

The meaning of a query is a reference semantics (`Result`):
- a candidate row's ROWNUM is one more than the rows already returned;
- count(*) and ORDER BY apply after the filter, and LIMIT applies last.

### OuterJoinRewrite (C8), MCOuterJoinRewrite

State:
- `joinlist`: a FROM list of trees of `Rtr(t)` / `Join(jt, l, r, quals, rti)`.
- `where`: predicates, each with an id and the sequence of column references
  the walker visits (`[t, m]`, where `m` is "marked with (+)").
- The locals of `transformFromAndWhere`.
- `namespace`: a set of `[rti, rel, cols]` items.
- `rtableLen`.
- `origin`: the original predicates, kept for the properties.

Operators:
- `VisitRef` and `Classify` are the walker.
- `JoinQualExprs` is `get_join_qual_exprs`.
- `PullNode`, `PullList` and `PullUpFrom` are `pullup_rel_for_join`. Each
  call returns what the C function returns, the node it mutated, and the
  context it filled.
- `AnalyzeNode` and `AnalyzeList` are `analyze_new_join`.
- `CheckNode` is `check_joinon_column_join`.

The actions follow `transformFromAndWhere` in order:
1. `NoMarker` and `FastPath` are the early returns.
2. `Group` calls `get_join_qual_exprs`; the walker's syntax error goes to
   `pc = "error"`.
3. Each loop iteration is `KeepSingle` or `PullUp`. A failed placement is
   `pc = "internal"`, the "move filter qual to join filter failed!" error.
4. `Reanalyze` does the re-analysis and the new WHERE.
5. `CheckJoinOn` is the check `parse_analyze_for_gram` runs afterwards.

The initial namespace of an explicit JOIN comes from `transformFromClause`
in `parse_clause.c`, which is not in this repository. It is taken from the
spec (`FromNamespace`, `spec_modelled`). The children's columns are hidden,
their names stay visible, and an unaliased join exposes its columns under no
name.

### LockingClause (C7), MCLockingClause

State: `queries`, a function from query-level ids to levels. Each level has:
- a range table of `[kind, alias, sub, visible]` entries;
- the features `CheckSelectLocking` rejects;
- `rowMarks`, `hasForUpdate`, and `perms` (the entries whose
  `requiredPerms` include `ACL_SELECT_FOR_UPDATE`).

`pending` is the statement's `lockingClause` list. `applied` and `initial`
are history for the properties.

`ApplyClause` is one iteration of the loop in `transformSelectStmt`. It runs
the whole of `transformLockingClause` (`Lock`):
- `Unlockable` is `CheckSelectLocking`.
- `LockAll` and `LockNamed` are its two branches; `LockNamed` takes the first
  entry with a matching alias.
- `LockAllEntry` and `LockNamedEntry` are the two copies of the
  `rtekind` switch, one in each branch. Each marks a relation or a
  subquery (`Marked`). A relation also gets `ACL_SELECT_FOR_UPDATE`. A
  subquery gets a recursive call with the all-rels clause and
  `pushedDown = TRUE`. They are kept apart because the code writes them
  twice, so that one copy can drift from the other.
- `ApplyMark` is `applyLockingClause`.

Any error aborts the statement (`pc = "error"`).

The levels are a top SELECT (0), a FROM subquery `s` (1) and a subquery `t`
inside it (2). A subquery's own `FOR SHARE` is applied to the initial state
by the same `Lock`.

### AnalyzeEntry (C4), MCAnalyzeEntry

State:
- `stack`, the override search-path stack;
- the entry point, grammar and raw statement;
- `result`, the Query that `transformTopLevelStmt` returns;
- `checked`, whether `check_joinon_column_join` reached a SELECT's join tree;
- `pc`, and `stack0`, the caller's stack;
- for EXECUTE DIRECT: `isDatanode` (`IS_PGXC_DATANODE`), `maint`
  (`xc_maintenance_mode`), `inner`, the Query of the nested analysis, and
  `xdType`, the `exec_direct_type` chosen.

The actions are the steps of `parse_analyze_for_gram` and
`parse_analyze_varparams_for_gram`:
- `Push`, then `Analyze`;
- `JoinOnAndRownum` (for_gram) or `Params` (varparams);
- `Hook`, then `Return` (the pop after `PG_END_TRY`);
- `Raise`, an `ereport` from a callee outside this file at any step, then
  `Catch`, the pop in `PG_CATCH`.

EXECUTE DIRECT (`transformExecDirectStmt`) replaces `Analyze` for its
statement and composes a second, nested call of the entry point:
- `ExecDirectCheck`: the errors for a Datanode, several nodes, an undefined
  node and several statements; an empty text skips the analysis and keeps
  the blank Query (`BlankQuery`, command type unknown);
- `ExecDirectPush`, `ExecDirectAnalyze`, `ExecDirectRaise`,
  `ExecDirectCatch` (pop, then re-throw into the outer `PG_CATCH`) and
  `ExecDirectReturn` (pop): `parse_analyze`, which is the POSTGRES grammar's
  `parse_analyze_for_gram`;
- `ExecDirectAuthorize`: `ExecDirectType`, the three refusals of
  `ExecDirectRefused` with the `IsExecDirectUtilityStmt` whitelist
  (`Whitelisted`), and the RemoteQuery put in `utilityStmt` when the target
  is not this coordinator; then the outer passes continue.
The node catalogue is abstracted to the target being this coordinator,
another node or no node.

`TopLevel` is the SELECT INTO lift. `TransformStmt` is `transformStmt`'s
dispatch. `SelectLike` holds the INTO and FOR UPDATE checks of SELECT and set
operations; `DeclareCursor` is `transformDeclareCursorStmt`, and `Wrap` the
EXPLAIN and CREATE TABLE AS wrappers (the materialized-view checks are among
the errors of `Raise`). A FOR UPDATE is either
on the statement or only inside a FROM subquery. `PathFor` stands for
`PushOverrideSearchPathForGrammar` (namespace.c, not in this repository) and
is taken from the spec.

The entry points are also checked against an abstract specification,
`OverrideSearchPath`. That module has one variable for the stack, one
`phase` (idle, in, out) and the path pushed. Its two actions are `Enter`
(push) and `Leave` (pop), and its `Spec` includes weak fairness. AnalyzeEntry
defines `Bracket == INSTANCE OverrideSearchPath WITH stack <- OuterStack,
phase <- Phase, path <- PathFor(grammar)`:
- `OuterStack` hides the path of the nested EXECUTE DIRECT call while it is
  pushed, so the nested push and pop are stuttering steps and the outer
  bracket must still hold around them;
- `Phase` maps `push` to idle, the steps from `analyze` to `catch` to in,
  and `returned`/`raised` to out;
- every step other than `Push`, `Return` and `Catch` is a stuttering step of
  the abstract spec. A nested pop missing on the error path breaks it.

`SearchPathBracket == Bracket!Spec` is checked as a PROPERTY. It replaces two
earlier invariants, that the stack is restored on exit and that the
grammar's path is on top while inside, and adds that the exit is always
reached.

### SetOperations (C6, part of C10), MCSetOperations

A member SELECT is abstracted to its output columns. Each column has a
type, a typmod, a node kind and a collation:
- type: int4, numeric, text, or unknown;
- node kind: Const, Param, Var, or the internal SetToDefault.

An internal node with its own ORDER BY, LIMIT or WITH is `isolated`, and is
analysed as a subquery with its own range table, as `parse_sub_analyze`
does.

State:
- `rtable`, the subquery entries `*SELECT* n`;
- `sostmt`, the SetOperationStmt tree;
- `ltl`, the top node's left target list;
- `tlist`, the outer query's target list;
- `svLen`, `sv_rtable_length`;
- `cte`, the column types given to a parent recursive CTE;
- `pc`.

`Tree`, `Leaf` and `Internal` are `transformSetOperationTree`. Each returns
the node, the dummy target list and the range table. The per-column step is
`Column`, and `Replace` is the in-place `ltle->expr = coerce_to_common_type(...)`
for UNKNOWN Const and Param members. `RecursiveColTypes` is
`determineRecursiveColTypes`.

The actions are the phases of `transformSetOperationStmt`:
1. `Begin`: the leftmost INTO and FOR UPDATE errors.
2. `Transform`: the tree.
3. `TargetList`: the dummy Vars over the leftmost member.
4. `Sort`: the ORDER BY join RTE is added and truncated away; an ORDER BY
   expression raises "invalid UNION/INTERSECT/EXCEPT ORDER BY clause".
5. `Finish`: LIMIT and collations.

`select_common_type` and `select_common_collation` (`parse_coerce.c` and
`parse_collate.c`) are taken from the spec (`spec_modelled`):
- two UNKNOWNs give text; one UNKNOWN takes the other type;
- different categories fail; otherwise the preferred type wins;
- a collation conflict fails, except under UNION ALL, where it gives none.

A member can also be a VALUES list (`tag = "values"`), whose items are
column records; kind `Star` is a `rel.*` of a two-column relation and kind
`SetToDefault` a DEFAULT. `Leaf` calls `Values`, which is
`transformValuesClause`:
- `ValuesRows` is the row loop. `ExpandRow` stands for
  `transformExpressionList`, which expands `rel.*` in place. Every row's
  length after expansion must equal the first row's, a DEFAULT fails, and
  item i of each row goes to `colexprs[i]`. Each failing case is an ereport,
  so the loop is written as its result: an error if any row fails, else the
  columns.
- Per column, `ListCommonType` is `select_common_type` over the whole
  column (UNKNOWNs skipped, all-UNKNOWN gives text). `Coerce` is the
  in-place `coerce_to_common_type`. `ListCommonColl` is
  `select_common_collation` with `none_ok`, so a conflict gives none.
- `Rearrange` is the `forboth` loop that turns the columns back into rows.
- The entry gets the rows; its columns are Vars of the common types. Their
  typmod is the first row's, as `expandRTE` (outside this repository)
  reports it.
The two helpers from `parse_coerce.c` and `parse_collate.c` are
`spec_modelled`. The result of `transformValuesClause` depends on the
member alone, so `Transform` evaluates it once for each VALUES member of
the statement (`ValuesMembers`). It passes the results down as `vals`, and
`Leaf` looks them up where the member is met.

### ModifyStmt (INSERT, UPDATE, DELETE of C5), MCModifyStmt

`transformInsertStmt`, `transformInsertRow`, `transformUpdateStmt`,
`transformDeleteStmt` and `transformReturningList`. The state is the parse
state's `rtable`, `namespace` (indexes of visible entries) and `joinlist`,
the rule range table parked in `sub` for a general SELECT, `result`
(`resultRelation`), `icols` (the attrnos of `checkInsertTargets`), `exprs`
(`exprList`), `tlist` and `modified` (`modifiedCols`), `lateralOnly` (the
target's `p_lateral_only`/`p_lateral_ok` pair), `nextResno`
(`p_next_resno`) and `rlist` (the RETURNING list's resnos). For PGXC's
command-id propagation: `coord` (a coordinator not reached from another
one), `saveCmdId` (`has_to_save_cmd_id`) and `sendCmdId` (the session flag
of `SetSendCommandId`, which nothing in this file clears).

A VALUES item is a constant, a column of the target, or a rule's NEW/OLD
reference; it resolves (or fails) against the namespace. A SELECT target
entry is a Const, Param or Var, UNKNOWN-typed or not, junk or not.

The actions follow the code:
1. `Begin`: a general SELECT parks the range table and namespace.
2. `SetTarget`: `setTargetTable`; in the alternate grammar `addRTEtoQuery`
   also puts the target in the namespace; `checkInsertTargets`.
3. One of `SourceDefault`, `SourceSelect` (the `*SELECT*` subquery, its
   RangeTblRef, UNKNOWN Const/Param copied up, the rest Vars of it, and
   `CmdIdForSelect`: `is_relation_child` of the target against the SELECT's
   range table latches both flags),
   `SourceValues` (rows resolved, same length, `transformInsertRow`, the
   VALUES entry and its LATERAL test) and `SourceValues1`.
4. `TargetList`: one entry per expression with resno = attrno and
   `modifiedCols`.

UPDATE and DELETE:
1. `UpdateTarget` / `DeleteTarget`: the WITH clause's command-id check (a
   CTE that is an INSERT latches both flags, `CteInsertFlag`), then
   `setTargetTable` as a source (range
   table, join list and namespace), then the target's item made
   lateral-only.
2. `UpdateFrom` / `DeleteUsing`: `transformFromClause` (a subquery naming
   the target fails while it is lateral-only), then the item made visible.
3. `UpdateTargetList`: the SET entries numbered from `p_next_resno`, then
   the resjunk entries the spec allows (4.6).
4. `WhereClause`: a reference to the target resolves only when it is
   visible.
5. `ReturningList` (all three statements; INSERT first empties the
   namespace and adds the target): numbered from 1, `p_next_resno`
   restored.
6. `UpdateRenumber`: `p_next_resno` raised past `relnatts`, resjunk entries
   numbered on, every other entry bound to its SET column's attrno (an
   unknown column fails) and marked in `modifiedCols`.

`IsRelationChild` is `is_relation_child` as written: relation entries are
tested in order and the first subquery entry returns its own answer.
`IsRelChildOfRel` is `is_rel_child_of_rel` over a constant `Inherits`
(the direct parent/child pairs of `pg_inherits`). The reference
`ReadsParentOf` looks at every relation entry at any depth (`ScannedRels`).

`checkInsertTargets` (`parse_target.c`), `transformExpressionList` and
`transformFromClause` (`parse_clause.c`) are outside this repository and
are taken from the spec.

## Runs

| Run | Expect | Shows |
|---|---|---|
| `rownum_plain` | pass | On plain SELECTs, every rewrite preserves the rows of the reference semantics (`RewritePreservesResult`), for every scan of up to 3 rows, and no limit is negative (`TypeOK`). |
| `rownum_aggregate` | violation | `SELECT count(*) ... WHERE rownum < 1` should give one row, 0, but the rewritten query gives none: the LIMIT applies after the aggregate. |
| `outer_join` | pass | No relation is lost or duplicated (`TablesConserved`). Every predicate ends in exactly one place (`PredicatesConserved`). ON clauses only name relations under their join (`JoinQualsInScope`). New joins get distinct range-table indexes, allocated bottom-up (`JoinRtindexes`). |
| `locking` | pass | The row marks equal the order-independent merge (MAX, OR, AND) of every clause, push-down and the subquery's own clause (`RowMarksMatchClauses`), with one mark per entry (`OneMarkPerRte`), `hasForUpdate` iff an explicit mark (`ForUpdateFlag`), and `ACL_SELECT_FOR_UPDATE` on exactly the marked relations at every level, whichever copy of the switch marked them (`LockedRelationsChecked`). |
| `locking_visible_alias` | violation | In `FROM (a JOIN b ON ...) AS j, a ... FOR UPDATE OF a`, the hidden `a` is locked and the visible one is not. |
| `entry` | pass | Without maintenance mode an accepted EXECUTE DIRECT of one statement runs remotely only a SELECT or a whitelisted utility, and locally no utility (`ExecDirectAuthorized`). On both entry points and grammars, with an error possible at every step, the entry points refine `OverrideSearchPath` under weak fairness (`SearchPathBracket`): one push, the grammar's path on top while inside, one pop on either exit, and an exit is always reached. The stack is never shorter than the caller's nor more than two paths above it (`TypeOK`). |
| `setops` | pass | Column lists are as long as the leftmost target list (`ColumnListsAgree`). Members are `*SELECT* 1..n` in post-order (`LeafRefsInOrder`). The ORDER BY join RTE is removed exactly (`RtableTruncatedExactly`), and the outer Vars stay in range (`TypeOK`). A typmod survives only when all members agree (`TypmodOnlyWhenAllAgree`), and no member keeps an UNKNOWN literal (`UnknownLiteralsResolved`). A VALUES member's entry holds its rows in order, each as long as the column list after `*` expansion, with every item coerced to its column's type (`ValuesRowsTransposed`). |
| `entry_dialect_joinon` | violation | An alternate-grammar SELECT escapes `check_joinon_column_join`: through the varparams entry, or under CREATE TABLE AS, EXPLAIN or SELECT INTO, whose top Query has no join tree. |
| `outer_join_plain_predicate` | violation | `t1.y = t2.y`, with no marker, lands in the ON clause of a LEFT JOIN instead of WHERE. |
| `outer_join_internal_error` | violation | `t1.b = t1.a(+)` reaches the internal error. |
| `modify` | pass | INSERT assigns every listed column exactly once, with `modifiedCols` the set of resnos (`TargetListMatchesColumns`), and wires a SELECT or multi-row VALUES through one RangeTblRef to its own entry, which every Var names (`SourceRefsExact`). UPDATE and DELETE fail exactly when a FROM/USING subquery names the target or a SET item names no column (`TargetHiddenOnlyFromFromClause`). UPDATE binds every SET entry to its attrno and gives resjunk entries distinct numbers past the columns, across RETURNING's renumbering (`UpdateTargetListMatchesColumns`). Non-junk resnos are attribute numbers (`TypeOK`). |
| `modify_cmdid` | violation | On a coordinator, `INSERT INTO child SELECT ... FROM (SELECT 1) s, (SELECT ... FROM parent) p` saves no command id: `is_relation_child` returns the first subquery's answer and never reaches the second (`CmdIdSavedWhenNeeded`). |

Every property of a passing run has a mutant in `PROJECT.json`: a plausible
slip in the mapped code that the run then catches.

### Bounds

ROWNUM:
- Constants are -1, 0, 1 and 2. They straddle both thresholds (k <= 0 and
  k <= 1) and give limits of 0 and 1.
- WHERE has at most 2 predicates, enough for two competing limits and for a
  limit next to a tautology.
- Scans have at most 3 rows of values 0 and 1, so a limit can cut a scan and
  a filter can reject a row between accepted ones.

Outer joins:
- 3 relations: the least number for a chain (t1-t2, then t3) and for a JOIN
  next to another FROM item.
- FROM is a comma list, an explicit INNER, LEFT or RIGHT JOIN of t1 and t2
  followed by t3, or that JOIN cross-joined to t3 as the only item (for the
  fast path).
- WHERE has up to 2 predicates of up to 3 column references each: enough for
  the walker's third-table error, merging, and fusing into a join built by
  the previous predicate.

Locking:
- Three levels: enough for a push-down to pass through a subquery into
  another.
- Range tables with every entry kind, and an aliased join that hides a
  relation whose alias appears again.
- Up to 2 clauses, of strengths SHARE and UPDATE, with and without NOWAIT,
  naming nothing, one or two aliases, a qualified name or a missing one: two
  clauses on one entry, and a clause on a subquery that has its own
  FOR SHARE, are the merges that matter.

Entry points:
- Every statement class of `transformStmt`, with INTO on the leftmost leaf,
  on another leaf, or nested under DECLARE.
- A caller's stack that is empty or already holds a path, so that popping
  the wrong entry shows.

Set operations:
- Two members with every pair of eight column kinds, and one or two columns
  (arity errors). INTO on a non-leftmost member, FOR UPDATE on a member, and
  the recursive-CTE flag.
- The top-level clauses (no ORDER BY, ORDER BY by name or by an expression,
  FOR UPDATE of the whole statement) over int4 and UNKNOWN members. The
  clauses act after the tree, so the column kinds do not need to be crossed
  with them.
- Three one-column members, nested on the left (plain or isolated) or on the
  right. This is where typmods and UNKNOWN literals cross two levels, and
  where post-order numbering differs from left-to-right nesting.
- The types int4 and numeric share a category, so a common type means a
  promotion. text is another category, so mixing fails. numeric has two
  typmods, so they can disagree.
- A VALUES member beside a SELECT of one int4, one UNKNOWN, or two int4
  columns, on either side, under UNION and UNION ALL. The VALUES member's
  rows cover an UNKNOWN resolved by int4 or numeric, all-UNKNOWN (text), a
  category clash, a DEFAULT, and a collation conflict. They also cover
  `rel.*` with a matching second row, and `rel.*` with a one-item second row.
  That row has the same raw length but a different expanded length, which is
  the case the post-expansion check exists for. A two-item first row with a
  one-item second row is included too.

INSERT, UPDATE, DELETE:
- A three-column target; INSERT column lists that are absent, one column,
  two, a duplicate, or an unknown column; so both arity errors and both
  `checkInsertTargets` errors happen.
- Rows of one or two items of each kind, two-row VALUES whose rows differ
  in length, SELECT lists with a junk column and UNKNOWN Const/Param.
- Top level and inside a rule (OLD and NEW in the range table), in both
  grammars, with and without RETURNING.
- UPDATE SET lists of one column (the first or the last), an unknown one,
  two out of order and one column twice, with or without a resjunk entry:
  one SET column plus a resjunk entry leaves `p_next_resno` at exactly the
  column count, the boundary of the raise. A RETURNING list of four entries
  is longer than the columns, so a missing restore would show.
- FROM/USING lists that are empty, a relation, a subquery naming the
  target, or both; WHERE on the target or none.
- Command ids: a parent, child and grandchild; INSERT into the child or
  the grandchild from SELECTs whose range tables hold one or two entries
  among a parent read with and without inheritance, the child, an empty
  subquery and a subquery over the parent, so a parent before, inside and
  after a subquery all occur; UPDATE and DELETE with an inserting and an
  updating CTE; on a coordinator or not.

EXECUTE DIRECT: the inner statements are a SELECT, a SELECT INTO (lifted to
CREATE TABLE AS, an unlisted utility), a SELECT the analysis rejects, an
INSERT, VACUUM and CREATE TABLESPACE, on this coordinator or another node,
on a Datanode or not, in maintenance mode or not; plus an empty text, two
statements, two nodes and an undefined node. Every refusal and every
`exec_direct_type` but UPDATE and DELETE (handled like INSERT) occurs.

### Fairness

`AnalyzeEntry` and `SetOperations` assume weak fairness on `Next`. Each is
one backend running one call straight through, with no waiting and no other
process, so an enabled step is always taken eventually. `SearchPathBracket`
uses this for its termination part. The `CatchRetry` mutant (a PG_CATCH
that retries instead of re-throwing) shows that the liveness part is not
vacuous. `CHECK_DEADLOCK FALSE` marks only the final states of the passes:
done, unchanged, error, returned or raised.

## Not modelled, and why

- The expression transformer, catalog, type system and clause transformers
  live outside this repository; the spec lists them as external. The
  statement transformers (C5) are mostly calls into them.
- Nested query levels: the ROWNUM rewrite is applied per Query node
  independently. `check_joinon_column_join` is run only on the top level;
  this is listed as a hazard.
- In C6: the WITH clause of a set operation, LIMIT expressions, and the
  rules-context check on Vars of the same level (it needs a namespace, which
  set-operation members never have outside rules). A recursive CTE's
  reference to itself is not modelled either, nor is `analyzeCTE`'s later
  comparison of its types (`parse_cte.c`).
- One DECLARE CURSOR finding is not kept as a run: the read-only check looks
  only at the top level's rowMarks, and `HoldableCursorsReadOnly` fails under
  `MCAnalyzeEntry`. It is listed as a hazard.
- `RelationsStayNameable` (`OuterJoinRewrite`) fails under
  `MCOuterJoinRewrite`: after `analyze_new_join`, relations under an explicit
  JOIN leave the namespace. `ValuesLateralWhenCurrentVars` (`ModifyStmt`)
  fails under `MCModifyStmt`: in the alternate grammar, `INSERT INTO t
  VALUES (1), (c)` puts a level-0 Var of the target in a VALUES entry that is
  not LATERAL, because the test at line 851 assumes that a one-entry range
  table means no current-level names. Both properties stay in
  their modules and are listed as hazards; the project's runs go to the
  passing checks.
- `TargetListOrdered` (`ModifyStmt`) states the spec's invariant that a
  target list is ascending in resno with distinct non-junk resnos; it fails
  under `MCModifyStmt` for `UPDATE t SET b = 1, b = 2` (and `SET b, a`
  is not ascending). The rewriter, outside this repository, sorts the
  list and rejects a twice-assigned column, so this is kept as a hazard.
- Whether UPDATE's transformed target list can hold resjunk entries
  depends on `transformTargetList` (`parse_target.c`); the model allows
  one, as the spec does.
- In C5, SELECT, and VALUES outside a set operation: their work is in the
  clause and expression transformers. A VALUES member of a set operation is
  modelled (`Values`), but its WITH, ORDER BY and LIMIT are not. The LATERAL
  test cannot fire there, because `parse_sub_analyze` starts with an empty
  range table.
- A `rel.*` over a zero-column relation would give `sublist_length` 0, and
  `colexprs[0]` would be read beyond a zero-length allocation. The model
  expands `*` to two columns, so it does not cover this case.
- EXECUTE DIRECT on this coordinator accepts INSERT, UPDATE and DELETE
  without maintenance mode: `exec_direct_type` is LOCAL for them and the DML
  refusal tests only the remote types. The spec says all DML fail.
  `ExecDirectAuthorized` states what the code does; the difference is a
  hazard. So is an empty query text, which reaches the `Assert(0)` of the
  type switch and is accepted in a production build with type NONE.
- `MarkedSideNullable` (`OuterJoinRewrite`) fails under
  `MCOuterJoinRewrite`: `FROM t1 RIGHT JOIN t2 ON ..., t3 WHERE t1.x =
  t2.x(+)` is fused into the join where t2 is preserved. It needs (+) mixed
  with an explicit JOIN, and is listed as a hazard rather than a run.
- Command ids: the code latches propagation only for a CTE that is an
  INSERT (the spec says any modifying CTE), only in UPDATE and DELETE (not
  in INSERT's own WITH clause), and `is_rel_child_of_rel` finds only direct
  children, so a grandparent scanned with inheritance is missed.
  `CmdIdSavedWhenNeeded` follows the code's comments on these points; the
  catalogue scan and `transformWithClause` are not modelled.
- `analyze_requires_snapshot`, `parse_sub_analyze`, `LCS_asString`: they
  classify, wrap or format and change no state.

## Plan

Done:
- C9 and C8, the two rewrites the spec calls the hardest parts.
- C7 locking.
- The C4 entry points.

- C6 set operations, with `determineRecursiveColTypes`.
- A refinement of the entry points against an abstract search-path spec.

- INSERT (C5), with its arity checks and source wiring.
- UPDATE and DELETE (C5): the lateral-only bracket, RETURNING, and the
  resjunk renumbering.
- EXECUTE DIRECT (C5), composed with a nested entry-point call inside the
  search-path refinement.
- PGXC command-id propagation (C5) with `is_relation_child` (C10).
- VALUES members of set operations (`transformValuesClause`).

Next, in order:
1. Nested query levels for C8 and C9: subqueries, set-operation leaves and
   CTEs, where `check_joinon_column_join` does not run.
2. Spec scenario 5 of C8 (the join shape for chained markers).
