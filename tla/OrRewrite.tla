---------------------------- MODULE OrRewrite ------------------------------
(***************************************************************************)
(* One call of transformORs (src/src/planner/builder/expr.go, lines        *)
(* 206-221) on an OR conjunct of a WHERE clause, checked against the      *)
(* meaning of the conjunct.  The rewrite itself is in ExprRewrite.        *)
(***************************************************************************)
EXTENDS ExprRewrite
VARIABLES input, output
vars == <<input, output>>

Init == input \in Inputs /\ output = Pending

(* One call of transformORs on the input. *)
Rewrite ==
  /\ output = Pending
  /\ output' \in transformORs(input)
  /\ UNCHANGED input

(* The call has returned. *)
Returned == output # Pending /\ UNCHANGED vars

Next == Rewrite \/ Returned
Spec == Init /\ [][Next]_vars

-----------------------------------------------------------------------------
(***************************************************************************)
(* The rewrite keeps the meaning of the WHERE clause: the conjuncts it    *)
(* returns select exactly the rows the OR-tree selects (spec 4.1: the     *)
(* rewritten expression must be logically equivalent to the original).  *)
(***************************************************************************)
RewriteEquivalent ==
  output \notin {Pending, Panic} =>
    \A env \in Envs : InputHolds(input, env) = OutputHolds(output, env)

(* transformORs returns for every OR-tree, rather than panicking on a    *)
(* slice bound (a planning error is an `unsupported` rejection, spec 7).*)
NoPanic == output # Panic
=============================================================================
