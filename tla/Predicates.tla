----------------------------- MODULE Predicates ------------------------------
(***************************************************************************)
(* The conjuncts of a WHERE clause and their truth in a row, shared by    *)
(* the OR rewrite and the shard routing.  A conjunct is `col = v`,        *)
(* `col IN (v, ...)` (literal values only), or an opaque predicate; a row *)
(* gives every column a value and every opaque predicate a truth value.  *)
(***************************************************************************)
EXTENDS Integers, Sequences, FiniteSets, Functions

CONSTANTS
  Columns,     \* column names
  Values,      \* literal values
  Names        \* opaque predicates (b > 1, a < 1, ...)

(* fetchColVals (expr.go, lines 353-378): the column and values of       *)
(* `col = v` and `col IN (...)`, or no column.                          *)
HasColVals(a) == a.kind \in {"eq", "in"}
ColVals(a) == IF a.kind = "eq" THEN {a.val} ELSE Range(a.vals)

(* The rows, and the truth of a conjunct and of a list of conjuncts. *)
Envs == [col : [Columns -> Values], pred : [Names -> BOOLEAN]]
Holds(a, env) ==
  IF a.kind = "other" THEN env.pred[a.name] ELSE env.col[a.col] \in ColVals(a)
AllHold(conj, env) == \A j \in 1..Len(conj) : Holds(conj[j], env)
=============================================================================
