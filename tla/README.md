# TLA+ models of the Radon query core

This directory holds TLA+ models of the query-routing and cross-shard
execution core of Radon (`src/src`). It has modules, TLC configurations and
TLAPS proofs. `PROJECT.json` lists:

- the components;
- the runs, with what each checks;
- the mutants that show each property can fail;
- the map from every modelled definition to the Go lines it translates;
- the findings;
- the hazards.

Run everything from this directory:

```
tlasany M.tla                      # parse
tlc -workers 2 -config X.cfg M     # model-check
tlapm JoinExecProofs.tla           # check the proofs (also ProcureProofs, ShardRouteProofs,
                                   # PushDownProofs, NatLemmas)
```

## 1. The system

The source tree holds four pieces of the core:

| Part | Source | State | Operations |
|---|---|---|---|
| Join executor | `executor/join_executor.go` | per call: a `sync.WaitGroup`, a `sync.Mutex`, the shared `allErrors` slice, two result contexts | `execute` (fork, join, assemble), `joinFields`, `joinRows`, `cartesianProduct` |
| Predicate analyzer | `planner/builder/expr.go` | none (pure functions over expression trees) | `parseWhereOrJoinExprs`, `GetDMLRouting`, `transformORs`, `extractExprsFromOr`, `convertOrToIn`, `parseHaving`, `replaceCol`, `checkJoinOn`, `convertToLeftJoin` |
| Plan push-down | `planner/builder/plan_node.go` | the plan tree (JoinNodes over MergeNodes, each table owned by one MergeNode) | `findLCA`, `findParent`, `pushFilters`, `pushHavings`, `handleFilter`, `handleSelectExpr`, `handleHaving` |
| Older planner | `planner/plan_node.go` | a JoinNode's `Vars` map | `findLCA`, `procure` |

There is also `ctl/router.go`, a static table of REST routes.

The parts interact as follows:

1. The builder splits a WHERE clause into conjuncts.
2. `transformORs` rewrites the OR conjuncts into extracted common conjuncts plus IN-lists.
3. `parseWhereOrJoinExprs` classifies each conjunct and records the tables it refers to.
4. The push-down handlers send each expression to the lowest plan node that holds all of its tables, found with `findParent`/`findLCA`. They refuse it when that node is a join that cannot evaluate it (not NestLoop).
5. At run time, `JoinExecutor.execute` runs the two children of a join node concurrently.
6. It waits for both to finish, returns the first error, and otherwise builds the join's rows.

What is hard in each part:

- **Executor.** Two goroutines and the caller interleave. An error in one child does not cancel the other. Errors are collected under a mutex, and the caller reads the children's results after a WaitGroup barrier.
- **OR rewrite.** The code edits slices in place while looping over them. It records indices and uses them after the slices have shifted. It iterates over Go maps, whose order is random on every run.
- **Push-down.** The LCA recursion and its fold over the referenced tables must find the same node whatever the table order. The refusal rules differ between filters and SELECT/HAVING expressions.

## 2. The modules

### JoinExec (`executor/join_executor.go`, lines 44-130)

The model has three processes: `main` and the two children, `left` and `right`.

Variables:

- `pc`: the program counter of each process;
- `wg`: the WaitGroup counter;
- `mu`: which process holds the mutex;
- `allErrors`, `err`, `results`: the code's variables of the same names;
- `ret` and `res`: what `execute` returns.

Actions, one per step of the code:

| Action | Code |
|---|---|
| `Add` | `wg.Add(1)` (lines 64, 66) |
| `Spawn` | `go oneExec` (lines 65, 67) |
| `ExecChild` | `exec.execute`: the child fails with its error or returns up to `MaxRows` rows |
| `Lock` | `mu.Lock()` |
| `AppendErr` | `append` and `Unlock` |
| `Done` | the deferred `wg.Done()` |
| `Wait` | `wg.Wait()` |
| `Finish` | lines 69-90 |

- A row is a model value.
- A joined cell is `<<row, i>>` ("column i of row"). This keeps the signed `Cols` index arithmetic of `joinRows` exact.
- `cartesianProduct` gives, for each position k, the row the two nested loops append k-th: left row `(k-1) div n + 1` joined with right row `(k-1) mod n + 1`, where n is the number of right rows. The prover can reason about this form; it could not reason about a `FoldLeft` over the loops.
- `JoinedRows` is the `if`/`switch` of lines 78-88 as an IF chain, in the code's order. The switch has no NestLoop case, so a NestLoop node gets no rows.
- `concatLeftAndNil` is not in the source tree. It is modelled from the spec (section 4.4).
- `sortMergeJoin` and `execSubPlan` are not in the source tree either. A SortMerge node is outside the model, and the sub-plan step is not modelled.

**Refinement.** `JoinSpec` is what a join node promises, with no goroutines, WaitGroup or mutex:

- each child completes once, by failing with its error (`Fail`) or producing a result (`Succeed`);
- the node returns once (`Return`), after both children completed;
- it returns the error of some failed child, with no side preferred, or else the join of the two results.

`JoinExec` ends with `Abstract == INSTANCE JoinSpec WITH ...`. The mapping:

- a child is complete once its `pc` has left `idle`/`exec`;
- the node has returned when main's `pc` is `end`;
- `Results(s)` are the row sequences of up to `MaxRows` rows;
- `Join` is `joinFields` plus `joinRows` over the product.

Every other step of `JoinExec` (`Add`, `Spawn`, `Lock`, `AppendErr`, `Done`, `Wait`) maps to a stutter. Run `joinexec_refines` checks `ImplementsJoinSpec` (the whole `JoinSpec`, with its fairness) as a property.

Fairness: weak fairness on every action. Go's scheduler eventually runs every runnable goroutine, and no step waits on anything outside the model: a child's backend call is abstracted to its outcome.

### ExprRewrite and OrRewrite (`planner/builder/expr.go`, lines 206-378)

`Predicates` holds what the rewrite and the routing share: the atoms' columns and values (`fetchColVals`), the rows (`Envs`), and the truth of an atom in a row. It has no recursion. `ExprRewrite` extends it with the rewrite and the enumeration of inputs. `OrRewrite` adds one call of `transformORs` as a state machine. `DMLRouting` reuses the same operators.

An OR conjunct is given already flattened: a sequence of disjuncts, each a sequence of atoms. An atom is `col = v`, `col IN (...)`, or an opaque predicate. Two atoms have the same rendered text exactly when they are equal.

- `Scan` is the inner loop of `extractExprsFromOr`, with its use of `i` as written (line 240).
- `RemoveCommon` is the removal loop (lines 269-277).
- Each of the two `range strIdxsMap` loops gets its own iteration order, chosen over all permutations (`SetToSeqs`).
- A slice-bound panic is the outcome `Panic`.
- `convertOrToIn` merges single-condition disjuncts per column. The OR/AND rebuilding and `checkColInMap` are abstracted to the resulting disjuncts and IN-sets.
- The state is `input` (the OR conjunct) and `output` (one result of `transformORs`, chosen among those the map orders allow).
- `Envs` gives every column a value and every opaque predicate a truth value. `RewriteEquivalent` compares the input and the output in all of them.

This module uses RECURSIVE operators. It is only model-checked.

### DMLRouting (`planner/builder/expr.go`, lines 123-169, with 206-221 and 298-314)

This module composes the OR rewrite with the shard routing of an UPDATE or DELETE.

- A WHERE clause is a list of up to `NConjuncts` conjuncts. Each is an atom or an OR-tree from the inputs of `ExprRewrite`, with at most one OR-tree.
- `transformConjuncts` is `transformORs` over the conjunct list. It gives one outcome per map order, and a panic anywhere is a panic of the call.
- `RebuiltOr` is what `convertOrToIn` returns:
  - a single `IN` comparison when no disjunct is kept and one column remains;
  - otherwise an OR, which the routing loop skips.
- The routing decision is in `ShardRoute`, which `DMLRouting` extends. `ShardRoute` has no recursion, so the prover can use it:
  - `RouteFilters` is the loop of `GetDMLRouting`: the first `key = v` is a point lookup, the first `key IN (...)` gives the segments of its values, and without either every segment is used;
  - the router (`Lookup`, `GetIndex`, `GetSegments`) is not in this source tree. It is modelled from the spec as `ShardOf`, a map from literal to segment.
- The state is `key`, `where` and `route`. One `Route` step is one call, and its result is one of the outcomes the map orders allow.

### Procure (`planner/plan_node.go`, lines 77-112)

- The plan tree is fixed by constants: `Parent` (the JoinNode above each MergeNode) and `TableLeaf`.
- The state:
  - `fields`: each MergeNode's output fields, each with `isCol`, the field name, its table and the expression it computes (`expr`: a column reference `ColRef(t, c)` or a computed expression `Calc(t, c)`);
  - `vars`: each JoinNode's `Vars` map;
  - `returned`: the history of the calls.
- `Procure(t, c)` is one whole call:
  - an existing name is returned unchanged (line 86);
  - otherwise the first field with `isCol` set, that name and that table is bound (lines 90-99);
  - or else `Pushed(t, c)` is pushed and the index `pushSelectExpr` returns is bound.
- `pushSelectExpr` is not in the source tree. It is modelled from the spec: append, and return the old length. `Pushed(t, c)` is the tuple of lines 102-106: a column reference to `t.c` with `isCol` false, as in the code.
- The builder's select tuples are not in the source tree either. `IsColumnTuple` states what `PlanAssumption` requires of the initial outputs: `isCol` is set exactly on column references, and a column reference names its own field and table. A computed expression may share a column's name.
- `JoinVar` uses `Compliant`, a constant standing for `CompliantName`.

### PushDown (`planner/builder/plan_node.go`, lines 41-170)

- The plan tree is fixed by constants: `Joins`, `Merges`, `Left`, `Right`, `Strategy`, `TableLeaf` (tableInfo.parent).
- `TreeAssumption` states what the builder guarantees of a plan tree:
  - no node lies below itself;
  - the two subtrees of a join are disjoint;
  - every node is below the root.
- `findLCA` and `findParent` are translated directly, with nil as the model value `Nil`. Both recursions are written as recursive functions, not RECURSIVE operators, so that the prover can use the module:
  - `findLCA` recurses over the nodes below `h`;
  - the loop of `findParent` is `parent[i]`, the value of `parent` after the first `i` tables.
- `Subtree[n]`, the nodes below n, is a recursive function as well.
- `handleFilter`, `handleSelectExpr` and `handleHaving` return one outcome each: pushed to a node, an `unsupported` error, or a call on a nil parent.
- The state is `queue` (the expressions of a query still to push), `pushed` (what each node received), `status` and `failed`.
- `Push` and `Reject` are one iteration of the loops in `pushFilters`/`pushHavings`, which stop at the first error.
- `LowestCover` is the reference: the node whose subtree holds all the tables' MergeNodes and neither of whose children does.
- `IInv` is the inductive invariant that the proofs use (section 4); it is not one of the run's properties. `ReferExprs` are the expressions with at least one table, and `QueriesRefer` says that every query is made of them.

`PushDownProofs` proves the two properties for every plan tree (section 4).

## 3. Runs

| Run | Config | Expect | What it shows |
|---|---|---|---|
| joinexec_cartesian | MCJoinExec.cfg | pass | see below |
| orrewrite_equivalence | MCOrRewrite_simple.cfg | pass | see below |
| orrewrite_dup_conjunct | MCOrRewrite_equiv.cfg | violation | see below |
| orrewrite_common_panic | MCOrRewrite_panic.cfg | violation | see below |
| pushdown_lca | MCPushDown.cfg | pass | see below |
| joinexec_refines | MCJoinExec_refine.cfg | pass | see below |
| dmlrouting_covers | MCDMLRouting.cfg | pass | see below |
| dmlrouting_dup_conjunct | MCDMLRouting_dup.cfg | violation | see below |
| procure_binding | MCProcure.cfg | pass | see below |
| procure_name_collision | MCProcure_collide.cfg | violation | see below |

**joinexec_cartesian (pass).** It checks `TypeOK`, `BarrierSafety`, `ErrorsCollected`, `ReturnCorrect` and `Termination` over all interleavings. It reaches 534 distinct states.

**orrewrite_equivalence (pass).** It checks `RewriteEquivalent` on every input of the bounds below, under every map order. These inputs have at most one conjunct common to all disjuncts, so they never reach the line-271 panic; `NoPanic` is checked where it fails, in `orrewrite_common_panic`. It reaches 29,980 distinct states in about 10 s.

**orrewrite_dup_conjunct (violation).** `p OR (q AND id=1 AND q)` is rewritten to `p OR (q AND q)`. Line 240 removes `args[i]`, where `i` is the index of the disjunct.

**orrewrite_common_panic (violation).** `(p AND q) OR (p AND q)` panics at line 271: after `p` is removed, the index recorded for `q` is out of range.

**pushdown_lca (pass).** It checks `PushedAtLowestCover` and `RejectOnlyCrossShard` on every query of one or two expressions. It reaches 144,687 distinct states in about 35 s. `MCPushDown` also assumes `QueriesRefer`, so TLC checks that the instance satisfies the hypothesis of the theorems.

**joinexec_refines (pass).** `JoinExec` implements `JoinSpec` under the refinement mapping, including `JoinSpec`'s weak fairness. It reaches 534 distinct states. A mutant `Wait` that does not wait for the WaitGroup violates it: main returns before a child has completed.

**dmlrouting_covers (pass).** `RoutingCovers`: the segments returned include the segment of every row that satisfies the WHERE clause. It is checked for every WHERE clause of up to two conjuncts, with an empty or a real shard key, under every map order. It reaches 97,364 distinct states in about 11 s.

**dmlrouting_dup_conjunct (violation).** `DELETE ... WHERE (p AND id=1 AND p) OR p` is routed to the segment of `1` only.

1. The line-240 bug drops the wrong atom and returns `id=1` as a common conjunct.
2. `GetDMLRouting` then treats it as a point lookup.
3. Rows of other segments that satisfy `p` are not deleted.

**procure_binding (pass).** It checks two properties over every sequence of calls. The plan has two JoinNodes, three MergeNodes, four tables and two columns. It reaches 400 distinct states.

- `VarsResolve`: every join variable returned is bound, in the Vars of the JoinNode above the table's MergeNode, to an index of that MergeNode's output whose field computes exactly the column asked for (`ColRef(t, c)`). The first MergeNode starts with a computed expression named `a` for table `t1`, a plain column `a` of table `t3` and then the plain column `t1.a`. So a scan that drops the `isCol` test or the table test of lines 93-94 binds the wrong field, and mutants of each break the property.
- `NoColumnPushedTwice`: a MergeNode's output never holds a pushed field that computes the same column as an earlier field. The pushed tuple has `isCol` false, so the scan never finds it again. Only the name check at line 86 stops a second request from pushing it again; a mutant that drops it violates this property while `VarsResolve` still holds.

**procure_name_collision (violation).** With tables `a` and `a_b`, `a_b.c` and `a.b_c` both get the name `a_b_c`. The second request returns the binding of the first, which is a column of the other table.

Each property of a passing run has a mutant in `PROJECT.json`. A mutant is an operator defined just before the code definition it replaces, and it models a plausible slip: a missing `wg.Add`, a single error slot, a skipped `wg.Done`, swapped product loops, a dropped length test, a dropped "both sides found" test, an inverted NestLoop test, a scan that ignores `isCol` or the table, a procure that pushes without the name check. TLC finds the property violated under each one.

### Bounds and why they suffice

**JoinExec.** Each child returns 0 to 2 rows or fails. This covers:

- the empty-left and empty-right cases;
- a product where the order of the loops shows (2×2 rows);
- one and two failures, in both mutex orders.

The `Cols` mapping `<<-1, 1, -2>>` uses both signs and a left index above 1.

The inputs of OrRewrite and the WHERE clauses of DMLRouting are built by one set-map each, and the filter is applied after it. TLC evaluates these constant sets at startup, and a `UNION` of many small sets costs time quadratic in the result.

**OrRewrite.** The inputs have:

- 2 or 3 disjuncts;
- at most 3 atoms per disjunct and 5 in total;
- atoms over one column `id` (`id=1`, `id=2`, `id IN (2,3)`) and two opaque predicates.

The passing run forbids repeated atoms and allows at most one common atom: that is the domain where the code is correct. The violation runs lift both limits (repeats allowed, two common atoms), and TLC then finds the two bugs.

**PushDown.** The tree is `j1(j2(m1, m2), j3(m3, m4))`, with j2 NestLoop and j1, j3 SortMerge. m1 owns two tables. Expressions refer to one to three distinct tables, in every order. This covers:

- expressions within one leaf;
- expressions across a NestLoop join and across a SortMerge join;
- a target that is an ancestor of the other target (a join found by the fold, then a leaf);
- both subtree sides.

**DMLRouting.** The values `1, 2, 3` hash to two segments, `s1, s2, s1`. So an IN-list whose first value is not its only segment exists (`id IN (2,3)`), and so does a point lookup that misses a segment. WHERE clauses have up to two conjuncts, one of which may be an OR-tree of the OrRewrite inputs (no repeated atoms, so the known line-240 bug stays out of the passing run). The violation run allows repeats.

**Procure.** Two MergeNodes share a JoinNode, so a push into one must not disturb the bindings of the other. A third MergeNode sits under a second JoinNode. Four tables, two of them on the first MergeNode, give a same-named column of another table; a computed expression with a column's name gives a non-column field to skip; with two columns, a column is found, pushed, and re-requested after other pushes. The collision run uses the smallest pair of names that collide.

## 4. Proofs

`JoinExecProofs` proves three theorems for all values of the constants. The only assumptions are those of `JoinExec`: finite row sets, `Null` not a row, the two errors distinct from nil, and `Cols` within the widths.

- `TypeCorrect`: `Spec => []TypeOK`.
- `Barrier`: `Spec => []BarrierSafety`.
- `NoErrorLost`: `Spec => []ErrorsCollected`.

None of these invariants is inductive on its own. `IInv` strengthens them with four conjuncts:

- `WgCount`: `wg` equals the number of children spawned or about to be spawned and not yet done.
- `SpawnOrder`: how main's program counter bounds the children's.
- `ErrState`: a child past `ExecChild` has its error set exactly when it took the error path.
- `ErrorsSoFar`: `allErrors` is exactly the errors of the children that have appended, in one of the two orders.

TLC checked `IInv` as an invariant first. `InitIInv` and `NextIInv` prove it inductive, with one step per action and one sub-step per conjunct. The theorems then follow by PTL. `ErrorsCollected` also needs `FailedCount`, the cardinality of the failed set.

`JoinExecProofs` also proves `Refinement`: `Spec => Abstract!SafeSpec`, the safety part of the refinement into `JoinSpec`.

- Initial states map to `JoinSpec`'s initial state.
- Under `IInv`, every step maps to a `JoinSpec` step or a stutter, with one step per action:
  - `ExecChild` maps to `Fail` or `Succeed`;
  - `Finish` maps to `Return`;
  - every other action is a stutter, by the lemma `MappedStutter`.
- The lemma `FirstError` gives the `Return` case. At `Finish`, `allErrors` is non-empty exactly when some child failed, and its head is the error of a failed child.

`ProcureProofs` proves `Resolve`: `DistinctNames => (Spec => []VarsResolve)`.

- `DistinctNames` says that no two (table, column) pairs whose tables share a JoinNode have the same `JoinVar`. The collision run shows that the theorem is false without it.
- The inductive invariant `IInv` adds four conjuncts to `VarsResolve`:
  - `TypeOK`;
  - `Named`: every recorded call is a table, a column and that pair's `JoinVar`;
  - `Bound`: every name bound in a JoinNode's `Vars` was returned by a call for a table under that JoinNode;
  - `ColsNamed`: a field with `isCol` set computes the column of its own field name and table.
- With these and `DistinctNames`, a name found in `Vars` belongs to the column asked for. An existing binding stays valid when another column is pushed, because pushes only append.
- `FindFieldSpec` states what the scan returns, and `FindFieldNone` what a miss means. It uses `MinExists` from `NatLemmas`: the least element of a non-empty set of naturals, derived from `WellFoundedInduction`.

`ProcureProofs` also proves `PushOnce`: `Spec => []NoColumnPushedTwice`, with no hypothesis on the names.

- The inductive invariant `PInv` adds two conjuncts to `TypeOK` and the property:
  - `KeepsInit`: the output begins with the initial fields;
  - `Appended`: every field after them is `Pushed(t, c)` for a table of that MergeNode, and the name `JoinVar(t, c)` is bound in the JoinNode's `Vars`.
- A push happens only when the name is not bound, so by `Appended` no earlier push computes that column; an initial field that computes it has `isCol` set (`IsColumnTuple`), so the scan would have found it and no push happens.

`JoinExecProofs` proves `ReturnsJoin`: `Spec => []ReturnCorrect`.

- `RInv` adds three conjuncts to `IInv`:
  - `ChildResults`: a child that completed without error holds a result set of its rows;
  - `NoEarlyReturn`: `ret` is nil until `Finish`;
  - `Returned`: after `Finish`, `ret` is a failed child's error, or it is nil and `res` is `JoinedRows` of the two results.
- TLC checked `RInv` first.
- `NextRInv` has one step per action. The `Finish` step uses `FirstError`.
- `JoinedCorrect` shows that `JoinedRows` satisfies `CorrectJoin` for every pair of row sequences. Its Cartesian case rests on `DivModIndex`: row (i-1)*n + j of the product is left row i with right row j. Z3 proves this with integer division by a variable.

`ShardRouteProofs` proves `RouteSound`. Take any list of conjuncts and any row, and suppose every conjunct on the shard key holds for that row (with IN-lists of literals). Then `RouteFilters` returns a set of segments that includes the row's segment, whichever of those conjuncts comes first. `LeastIn` (in `NatLemmas`) gives the first matching index. `RoutingCovers` in `DMLRouting` therefore reduces to the rewrite keeping the meaning of the shard-key conjuncts. TLC checks that part, and the line-240 bug breaks it (run `dmlrouting_dup_conjunct`).

`PushDownProofs` proves `PushedAtLowestCoverHolds` and `RejectOnlyCrossShardHolds`. Each states `QueriesRefer => (Spec => []P)` for every plan tree allowed by `TreeAssumption`, every table placement and every query. `QueriesRefer` says that each expression refers to at least one table. It is a hypothesis because the callers that push table-less filters are not in this source tree (the hazard at `builder/plan_node.go:83`). The lemma `IInvHolds` proves the inductive invariant `IInv`, from which both follow. The argument:

1. **Subtrees.** `ChildWF`: the child relation is well-founded, from `TreeAssumption`. `WFInductiveDef` then gives the defining equation of `Subtree` (`SubtreeEq`). Lemmas on the tree shape follow by least-counterexample induction over nodes:
   - `SubtreeShape`;
   - `SubtreeTrans`: a subtree of a subtree is included in it;
   - `NotBelowChild`;
   - `Chain`: two subtrees that meet are nested.
2. **Lowest covers.** `IsLowest(n, S)` is the `LowestCover` condition.
   - `LowestUnique`: the lowest cover of a non-empty set is unique, by `Chain`.
   - `LowestAdd`: the lowest cover of `S \cup {m}` is the lowest cover of `m` and the lowest cover of `S`.
3. **findLCA.** `LCAStep` unfolds the recursion once. `WFInductiveDef` also matches the recursive function that `findLCA` declares in its LET. `LCACorrect` then proves, by induction over nodes, what `findLCA(h, p1, p2)` returns: nil, the one target below `h`, or the lowest cover of both. The case of targets on both sides uses the disjointness of a join's subtrees.
4. **findParent.** `ParentEq` unfolds the loop through `NatInductiveDef`. `ParentLowest` is the loop invariant: after `k` tables, `parent` is the lowest cover of their MergeNodes. It is proved by a least counterexample over `k` (`MinExists`), with `LowestSelf` and `LowestAdd`. So `FindParentCover` shows that `findParent(tables, Root) = LowestCover(tables)` whatever the order of the tables.
5. **Handlers and steps.** `HandleCorrect` shows what a handler does: it pushes to the lowest cover, or returns the `unsupported` error at a non-NestLoop join. It is never a nil call. `IInv` strengthens the two properties with the types of `queue` and `pushed`, and it needs them:
   - the type of `queue` makes the head of the queue a `ReferExprs` expression, so `HandleCorrect` applies;
   - the type of `pushed` makes `Append` keep the earlier positions.

   `InitIInv` and `NextIInv` have one step per action, and the theorems follow by PTL.

What stays with TLC:

- liveness (`Termination`, and the fairness part of `ImplementsJoinSpec`): the prover does not do liveness under fairness;
- `RewriteEquivalent`, `NoPanic` and `RoutingCovers`. Their modules use RECURSIVE operators for the loops of `extractExprsFromOr` and the removal loop, and for `transformORs` over a conjunct list, and a module that reaches one cannot be given to the prover's SMT backend. Proving what the rewrite computes for every OR-tree would also need:
  - a semantics of the rewritten OR;
  - lemmas over all map orders (`SetToSeqs`);
  - induction over sequences of sequences.

  PushDown's recursions follow the tree, and a least counterexample reaches them. These loops would instead need induction over data, which the installed provers cannot instantiate.
- `PushDown` for a query containing a table-less expression. The code then calls a method on a nil parent; the model excludes such expressions, and the theorems assume `QueriesRefer`.

## 5. Plan for the next sittings

1. **SortMerge join.** Model sortMergeJoin from the spec (section 4.4), since it is not under src. Add it as a run of JoinExec, with the run-cross-join reference and the `k×m` property.
2. **parseWhereOrJoinExprs** (expr.go 35-121). Classify join conditions and filters, capture literals, and cover the `literal = col` form that `GetDMLRouting` does not match.
3. **More proofs.** Give `RemoveCommon`'s removal loop a recursive-function form, in a module without RECURSIVE operators. Then prove `NoPanic` for inputs without a common atom, and keep the general case with TLC.

## 6. Not modelled

- `ctl/router.go`: a static REST route table, configuration only.
- The router's shard lookup: not in this source tree. `DMLRouting` models it from the spec as a hash of each literal.
- `planner/plan_node.go`: `findLCA` is the same code as the builder's (modelled in PushDown), and `getOneTableInfo` returns an arbitrary map entry with no state. `procure` has no caller in this tree. The assertion `node.parent.(*JoinNode)` cannot fail on a plan tree where every MergeNode's parent is a JoinNode, which `PlanAssumption` states.
- `execSubPlan`, `sortMergeJoin`, and the JoinNode/MergeNode push methods: not in this source tree.
- Formatting of expressions to text and the wording of errors: no property depends on them.
