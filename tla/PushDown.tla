------------------------------ MODULE PushDown -------------------------------
(***************************************************************************)
(* Pushing WHERE, SELECT and HAVING expressions down a plan tree           *)
(* (src/src/planner/builder/plan_node.go).  A plan tree has JoinNodes as  *)
(* inner nodes and MergeNodes (one backend query each) as leaves; every   *)
(* table of the query belongs to one MergeNode (tableInfo.parent).        *)
(* findParent folds findLCA over the tables an expression refers to; the  *)
(* handlers push the expression to that node, or reject it when it spans *)
(* the two sides of a join that is not a NestLoop join.                   *)
(*                                                                         *)
(* The planner handles the expressions of a query one after another, the *)
(* first error aborting the planning (pushFilters, lines 105-109;          *)
(* pushHavings, lines 128-132).  The recursions of the code are recursive *)
(* functions, so that PushDownProofs can reason about them.               *)
(***************************************************************************)
EXTENDS Integers, Sequences, FiniteSets

CONSTANTS
  Joins,      \* the JoinNodes
  Merges,     \* the MergeNodes
  Root,       \* the root of the plan tree
  Left,       \* Left[j]: the left child of JoinNode j
  Right,      \* Right[j]: the right child of JoinNode j
  Strategy,   \* Strategy[j]: the join strategy of JoinNode j
  Tables,     \* the tables of the query
  TableLeaf,  \* TableLeaf[t]: tableInfo.parent, the MergeNode of table t
  Queries,    \* the sequences of expressions a query may push
  Nil         \* the nil PlanNode

Nodes == Joins \cup Merges
Kinds == {"filter", "select", "having"}

Children(n) == IF n \in Joins THEN {Left[n], Right[n]} ELSE {}

(* The nodes of the plan tree below n, n included. *)
Subtree[n \in Nodes] ==
  {n} \cup IF n \in Joins THEN Subtree[Left[n]] \cup Subtree[Right[n]] ELSE {}

(***************************************************************************)
(* The builder makes a plan tree: a JoinNode's two children are new,      *)
(* disjoint subtrees, so no node lies below itself (every non-empty set  *)
(* of nodes has one with no child in the set), the two subtrees of a join *)
(* share no node, and every node is below the root.                     *)
(***************************************************************************)
ASSUME TreeAssumption ==
  /\ Joins \cap Merges = {}
  /\ Root \in Nodes
  /\ Left \in [Joins -> Nodes] /\ Right \in [Joins -> Nodes]
  /\ Strategy \in [Joins -> {"NestLoop", "SortMerge"}]
  /\ TableLeaf \in [Tables -> Merges]
  /\ Nil \notin Nodes
  /\ \A T \in SUBSET Nodes : T # {} => \E n \in T : Children(n) \cap T = {}
  /\ \A j \in Joins : Subtree[Left[j]] \cap Subtree[Right[j]] = {}
  /\ Nodes \subseteq Subtree[Root]

(* An expression: its kind and the tables it refers to, in the order of *)
(* their first occurrence (referTables).                                *)
Exprs == [kind : Kinds, tables : Seq(Tables)]

(***************************************************************************)
(* findLCA (lines 41-59): the lowest common ancestor of p1 and p2 below h *)
(* if both are there; the one of them found if only one is; else nil.    *)
(***************************************************************************)
(* Mutant: the test that both sides found a node is dropped. *)
findLCAOneSide(h, p1, p2) ==
  LET lca[n \in Nodes] ==
        IF p1 = n \/ p2 = n THEN n
        ELSE IF n \notin Joins THEN Nil
        ELSE LET pl == lca[Left[n]]
                 pr == lca[Right[n]]
             IN IF pl = Nil THEN pr ELSE pl
  IN lca[h]

findLCA(h, p1, p2) ==
  LET lca[n \in Nodes] ==
        IF p1 = n \/ p2 = n THEN n
        ELSE IF n \notin Joins THEN Nil
        ELSE LET pl == lca[Left[n]]
                 pr == lca[Right[n]]
             IN IF pl # Nil /\ pr # Nil THEN n
                ELSE IF pl = Nil THEN pr ELSE pl
  IN lca[h]

(* findParent (lines 71-84): the node an expression over tables belongs *)
(* to; nil when it refers to no table.  parent[i] is the value of parent *)
(* after the loop has seen the first i tables.                           *)
findParent(tables, node) ==
  LET parent[i \in Nat] ==
        IF i = 0 THEN Nil
        ELSE IF parent[i - 1] = Nil THEN TableLeaf[tables[i]]
        ELSE IF parent[i - 1] # TableLeaf[tables[i]]
             THEN findLCA(node, parent[i - 1], TableLeaf[tables[i]])
             ELSE parent[i - 1]
  IN parent[Len(tables)]

(* The outcome of a handler: the expression is pushed to a node, the     *)
(* handler returns an `unsupported` error, or a method is called on the  *)
(* nil parent.                                                            *)
Pushed(n) == [kind |-> "push", node |-> n]
Unsupported == [kind |-> "error", node |-> Nil]
NilCall == [kind |-> "panic", node |-> Nil]
NoExpr == [kind |-> "none", tables |-> <<>>]

(* Mutant: the NestLoop test inverted. *)
handleFilterInverted(e) ==
  LET parent == findParent(e.tables, Root)
  IN IF parent = Nil THEN NilCall
     ELSE IF parent \in Joins
          THEN IF Strategy[parent] # "NestLoop" THEN Pushed(parent) ELSE Unsupported
     ELSE Pushed(parent)

(* handleFilter (lines 146-158): a filter spanning a NestLoop join goes  *)
(* to the join's other filters, one spanning any other join is refused.  *)
handleFilter(e) ==
  LET parent == findParent(e.tables, Root)
  IN IF parent = Nil THEN NilCall
     ELSE IF parent \in Joins
          THEN IF Strategy[parent] = "NestLoop" THEN Pushed(parent) ELSE Unsupported
     ELSE Pushed(parent)

(* handleSelectExpr (lines 136-144) and handleHaving (lines 160-170):    *)
(* refused at a join that is not a NestLoop join, else pushed to parent. *)
handleSelectExpr(e) ==
  LET parent == findParent(e.tables, Root)
  IN IF parent = Nil THEN NilCall
     ELSE IF parent \in Joins /\ Strategy[parent] # "NestLoop" THEN Unsupported
     ELSE Pushed(parent)

handleHaving(e) ==
  LET parent == findParent(e.tables, Root)
  IN IF parent = Nil THEN NilCall
     ELSE IF parent \in Joins /\ Strategy[parent] # "NestLoop" THEN Unsupported
     ELSE Pushed(parent)

Handle(e) ==
  CASE e.kind = "filter" -> handleFilter(e)
    [] e.kind = "select" -> handleSelectExpr(e)
    [] e.kind = "having" -> handleHaving(e)

-----------------------------------------------------------------------------
VARIABLES
  queue,    \* the expressions not handled yet
  pushed,   \* pushed[n]: the expressions pushed to node n, in order
  status,   \* "running", "done", or the outcome that stopped the planning
  failed    \* the expression that stopped the planning

vars == <<queue, pushed, status, failed>>

Init ==
  /\ queue \in Queries
  /\ pushed = [n \in Nodes |-> <<>>]
  /\ status = "running"
  /\ failed = NoExpr

(* The handler pushes the next expression down. *)
Push ==
  /\ status = "running" /\ queue # <<>>
  /\ Handle(Head(queue)).kind = "push"
  /\ LET n == Handle(Head(queue)).node
     IN pushed' = [pushed EXCEPT ![n] = Append(@, Head(queue))]
  /\ queue' = Tail(queue)
  /\ UNCHANGED <<status, failed>>

(* The handler fails and the planning returns its error. *)
Reject ==
  /\ status = "running" /\ queue # <<>>
  /\ Handle(Head(queue)).kind # "push"
  /\ status' = Handle(Head(queue)).kind
  /\ failed' = Head(queue)
  /\ UNCHANGED <<queue, pushed>>

(* Every expression was pushed. *)
Complete ==
  /\ status = "running" /\ queue = <<>>
  /\ status' = "done"
  /\ UNCHANGED <<queue, pushed, failed>>

(* Planning has returned. *)
Returned == status # "running" /\ UNCHANGED vars

Next == Push \/ Reject \/ Complete \/ Returned
Spec == Init /\ [][Next]_vars

-----------------------------------------------------------------------------
(* The reference: the node whose subtree holds the MergeNodes of all the *)
(* tables and none of whose children does.                               *)
Leaves(tables) == {TableLeaf[tables[i]] : i \in 1..Len(tables)}
Covers(n, tables) == Leaves(tables) \subseteq Subtree[n]
LowestCover(tables) ==
  CHOOSE n \in Nodes : Covers(n, tables) /\ \A c \in Children(n) : ~Covers(c, tables)

(***************************************************************************)
(* Every expression pushed down lands on the lowest node of the plan tree *)
(* that holds all the tables it refers to, whatever order findParent     *)
(* meets those tables in: lower, the backend query lacks a table; higher, *)
(* the filter is applied late or across shards.                          *)
(***************************************************************************)
PushedAtLowestCover ==
  \A n \in Nodes : \A i \in 1..Len(pushed[n]) :
    n = LowestCover(pushed[n][i].tables)

(***************************************************************************)
(* The planning refuses an expression only when it spans the two sides of *)
(* a join that is not a NestLoop join (the `unsupported ... cross-shard`  *)
(* errors), and never calls a method on a nil parent.                     *)
(***************************************************************************)
RejectOnlyCrossShard ==
  status \in {"error", "panic"} =>
    /\ status = "error"
    /\ LowestCover(failed.tables) \in Joins
    /\ Strategy[LowestCover(failed.tables)] # "NestLoop"
-----------------------------------------------------------------------------
(* The expressions a query pushes refer to a table each: the callers that *)
(* push table-less filters (addNoTableFilter) are outside this tree.      *)
ReferExprs == {e \in Exprs : e.tables # <<>>}
QueriesRefer == Queries \subseteq Seq(ReferExprs)

(***************************************************************************)
(* The inductive invariant behind the two properties: the expressions     *)
(* still queued refer to tables, every expression pushed so far sits at   *)
(* its lowest cover, and a stopped planning stopped on a cross-shard      *)
(* expression.  It holds from the first state of a query made of         *)
(* ReferExprs and is kept by every step of the planner.                   *)
(***************************************************************************)
IInv ==
  /\ queue \in Seq(ReferExprs)
  /\ pushed \in [Nodes -> Seq(Exprs)]
  /\ PushedAtLowestCover
  /\ RejectOnlyCrossShard
=============================================================================
