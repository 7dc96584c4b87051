----------------------------- MODULE DMLRouting ------------------------------
(***************************************************************************)
(* The shard routing of an UPDATE or DELETE: GetDMLRouting                *)
(* (src/src/planner/builder/expr.go, lines 123-169).  The WHERE clause is *)
(* split into its top-level conjuncts, the OR conjuncts are rewritten by  *)
(* transformORs, and the first conjunct `key = v` or `key IN (...)` on the *)
(* shard key picks the segments (ShardRoute); without one every segment  *)
(* is used.  The statement is then sent only to the segments routed: a   *)
(* row of another segment is not updated or deleted.                      *)
(***************************************************************************)
EXTENDS ExprRewrite, ShardRoute

CONSTANT
  NConjuncts   \* bound on the top-level conjuncts of a WHERE clause

ASSUME ConjunctsAssumption == NConjuncts \in Nat \ {0}

(* A top-level conjunct is an atom or an OR-tree, given by its disjuncts. *)
OrOf(disj) == [kind |-> "or", disj |-> disj]

(***************************************************************************)
(* The expression convertOrToIn returns: rebuildOr of the kept disjuncts  *)
(* and of one IN per column.  With no disjunct kept and one column it is  *)
(* that IN comparison itself, which GetDMLRouting can match; otherwise it *)
(* is an OR (or a comparison on no column), which it skips.               *)
(***************************************************************************)
RebuiltOr(o) ==
  IF Len(o.ands) = 0 /\ Cardinality(DOMAIN o.ins) = 1
  THEN LET c == CHOOSE c \in DOMAIN o.ins : TRUE
       IN [kind |-> "in", col |-> c, vals |-> SetToSeq(o.ins[c])]
  ELSE [kind |-> "rebuilt", or |-> o]

(***************************************************************************)
(* transformORs (lines 206-221) on the list of conjuncts: an atom is kept, *)
(* an OR conjunct is replaced by the extracted conjuncts followed by the  *)
(* rebuilt OR.  One outcome per choice of map orders; a panic in any OR   *)
(* conjunct panics the whole call.                                        *)
(***************************************************************************)
RECURSIVE transformConjuncts(_)
transformConjuncts(conjs) ==
  IF conjs = <<>> THEN {[panic |-> FALSE, filters |-> <<>>]}
  ELSE
  LET c == Head(conjs)
      heads == IF c.kind # "or" THEN {[panic |-> FALSE, filters |-> <<c>>]}
               ELSE {IF e = Panic THEN [panic |-> TRUE, filters |-> <<>>]
                     ELSE [panic |-> FALSE,
                           filters |-> e.splited \o
                                       (IF e.or = NoOr THEN <<>> ELSE <<RebuiltOr(e.or)>>)]
                     : e \in transformORs(c.disj)}
  IN {IF h.panic \/ t.panic THEN [panic |-> TRUE, filters |-> <<>>]
      ELSE [panic |-> FALSE, filters |-> h.filters \o t.filters]
      : h \in heads, t \in transformConjuncts(Tail(conjs))}

(* GetDMLRouting (lines 123-164): its possible outcomes.  A nil WHERE is  *)
(* the empty conjunct list, and an empty shard key skips the rewrite.    *)
GetDMLRouting(key, where) ==
  IF key = "" \/ where = <<>> THEN {[segs |-> LookupAll]}
  ELSE {IF t.panic THEN Panic ELSE [segs |-> RouteFilters(key, t.filters)]
        : t \in transformConjuncts(where)}

-----------------------------------------------------------------------------
(* The WHERE clauses: up to NConjuncts conjuncts, atoms or OR-trees of    *)
(* Inputs, at most one of them an OR-tree.                               *)
AtomLists(n) == UNION {[1..m -> Atoms] : m \in 0..n}
Wheres ==
  AtomLists(NConjuncts) \cup
  {InsertAt(p[1], p[2], OrOf(p[3]))
   : p \in {p \in AtomLists(NConjuncts - 1) \X (1..NConjuncts) \X Inputs :
             p[2] <= Len(p[1]) + 1}}

VARIABLES key, where, route
vars == <<key, where, route>>

Init ==
  /\ key \in {ShardKey, ""}
  /\ where \in Wheres
  /\ route = Pending

(* One call of GetDMLRouting. *)
Route ==
  /\ route = Pending
  /\ route' \in GetDMLRouting(key, where)
  /\ UNCHANGED <<key, where>>

(* The call has returned. *)
Returned == route # Pending /\ UNCHANGED vars

Next == Route \/ Returned
Spec == Init /\ [][Next]_vars

-----------------------------------------------------------------------------
(* Truth of a WHERE clause for a row (a value per column and a truth      *)
(* value per opaque predicate).                                           *)
ConjHolds(c, env) == IF c.kind = "or" THEN InputHolds(c.disj, env) ELSE Holds(c, env)
WhereHolds(w, env) == \A j \in 1..Len(w) : ConjHolds(w[j], env)

(***************************************************************************)
(* An UPDATE or DELETE reaches every row it must change: the segments     *)
(* GetDMLRouting returns include the segment of every row that satisfies  *)
(* the WHERE clause.  A missing segment silently leaves matching rows     *)
(* unchanged.                                                             *)
(***************************************************************************)
RoutingCovers ==
  route \notin {Pending, Panic} =>
    \A env \in Envs : WhereHolds(where, env) => ShardOf[env.col[ShardKey]] \in route.segs
=============================================================================
