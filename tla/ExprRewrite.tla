---------------------------- MODULE ExprRewrite -----------------------------
(***************************************************************************)
(* transformORs (src/src/planner/builder/expr.go): the rewrite of a WHERE *)
(* conjunct that is an OR-tree.  extractExprsFromOr splits the OR into    *)
(* its disjuncts, splits each disjunct into its AND-conjuncts, drops       *)
(* conjuncts repeated inside a disjunct, and pulls the conjuncts common to *)
(* every disjunct out of the OR; convertOrToIn merges the single-condition *)
(* disjuncts `col = v` / `col IN (...)` into one IN-list per column.       *)
(*                                                                         *)
(* An OR-tree is given flattened, as the sequence of its disjuncts, each   *)
(* the sequence of its conjuncts (splitOrExpression / splitAndExpression). *)
(* A conjunct is an atom record; two atoms have the same rendered text iff *)
(* they are equal.  Go map iteration order is a nondeterministic choice,   *)
(* and a Go slice-bounds panic is the outcome Panic.  The operators here   *)
(* are shared by OrRewrite (the rewrite alone) and DMLRouting (the rewrite *)
(* feeding the shard lookup of UPDATE and DELETE).  Only model-checked:   *)
(* the loops of the code are RECURSIVE operators.                          *)
(***************************************************************************)
EXTENDS Predicates, SequencesExt, TLC

CONSTANTS
  Atoms,       \* the conjuncts an input may use
  NDisjuncts,  \* the numbers of disjuncts an input may have
  MaxLen,      \* bound on the conjuncts of one disjunct
  MaxAtoms,    \* bound on the conjuncts of a whole input
  AllowDup,    \* whether a disjunct may repeat a conjunct
  MaxCommon    \* bound on the conjuncts common to every disjunct

ASSUME InputBounds ==
  /\ NDisjuncts \subseteq Nat \ {0, 1}
  /\ {MaxLen, MaxAtoms, MaxCommon} \subseteq Nat
  /\ AllowDup \in BOOLEAN

Panic == [panic |-> TRUE]
Pending == [pending |-> TRUE]
NoOr == [none |-> TRUE]

(***************************************************************************)
(* The inner loop of extractExprsFromOr (lines 231-250) over disjunct i   *)
(* (0-based, as in the code).  A repeated conjunct is removed with        *)
(* append(args[:i], args[i+1:]...): index i of the OUTER loop, not idx,   *)
(* and without advancing idx.  rec records, for every first occurrence,  *)
(* the idx at which it was seen (strIdxsMap's entry for this disjunct).  *)
(***************************************************************************)
RECURSIVE Scan(_, _, _, _, _)
Scan(args, idx, seen, rec, i) ==
  IF idx >= Len(args) THEN [args |-> args, rec |-> rec]
  ELSE IF args[idx + 1] \in seen
       THEN IF i >= Len(args) THEN Panic
            ELSE Scan(RemoveAt(args, i + 1), idx, seen, rec, i)
       ELSE Scan(args, idx + 1, seen \cup {args[idx + 1]},
                 rec @@ (args[idx + 1] :> idx), i)

(***************************************************************************)
(* Lines 269-277: for each common conjunct (in map order) and each        *)
(* disjunct k, remove the element at the recorded index; a disjunct left  *)
(* empty makes the whole OR degenerate to the extracted conjuncts.       *)
(***************************************************************************)
RECURSIVE RemoveCommon(_, _)
RemoveCommon(sub, steps) ==
  IF steps = <<>> THEN [panic |-> FALSE, sub |-> sub]
  ELSE LET k == Head(steps)[1]
           idx == Head(steps)[2]
       IN IF idx >= Len(sub[k]) THEN [panic |-> TRUE, sub |-> sub]
          ELSE LET sub2 == [sub EXCEPT ![k] = RemoveAt(@, idx + 1)]
               IN IF Len(sub2[k]) = 0 THEN [panic |-> FALSE, sub |-> <<>>]
                  ELSE RemoveCommon(sub2, Tail(steps))

(* extractExprsFromOr (lines 224-279): the set of its possible outcomes, *)
(* one per pair of iteration orders of strIdxsMap.                      *)
extractExprsFromOr(disj) ==
  LET n == Len(disj)
      scans == [k \in 1..n |-> Scan(disj[k], 0, {}, <<>>, k - 1)]
  IN IF \E k \in 1..n : scans[k] = Panic THEN {Panic}
     ELSE
     LET sub == [k \in 1..n |-> scans[k].args]
         rec == [k \in 1..n |-> scans[k].rec]
         common == {s \in DOMAIN rec[1] : \A k \in 1..n : s \in DOMAIN rec[k]}
         SplitedPanics(order) ==
           \E j \in 1..Len(order) : rec[1][order[j]] >= Len(sub[1])
         Splited(order) == [j \in 1..Len(order) |-> sub[1][rec[1][order[j]] + 1]]
         Steps(order) ==
           [m \in 1..Len(order) * n |->
              LET s == order[(m - 1) \div n + 1]
                  k == ((m - 1) % n) + 1
              IN <<k, rec[k][s]>>]
     IN IF common = {} THEN {[sub |-> sub, splited |-> <<>>]}
        ELSE {IF SplitedPanics(o1) \/ RemoveCommon(sub, Steps(o2)).panic
              THEN Panic
              ELSE [sub |-> RemoveCommon(sub, Steps(o2)).sub, splited |-> Splited(o1)]
              : o1, o2 \in SetToSeqs(common)}

(***************************************************************************)
(* convertOrToIn (lines 282-315): single-condition disjuncts with a       *)
(* column are merged into one IN-list per column (checkColInMap); the     *)
(* other disjuncts stay, in order, OR-ed before the IN-lists.             *)
(***************************************************************************)
(* Mutant: the single-condition test dropped. *)
MergeableAnyLen(d) == HasColVals(d[1])

Mergeable(d) == Len(d) = 1 /\ HasColVals(d[1])
convertOrToIn(sub) ==
  LET merged == {i \in 1..Len(sub) : Mergeable(sub[i])}
      cols == {sub[i][1].col : i \in merged}
  IN [ands |-> SelectSeq(sub, LAMBDA d : ~Mergeable(d)),
      ins  |-> [c \in cols |->
                  UNION {ColVals(sub[i][1]) : i \in {j \in merged : sub[j][1].col = c}}]]

(* transformORs (lines 206-221) on one OR conjunct. *)
transformORs(disj) ==
  {IF e = Panic THEN Panic
   ELSE [splited |-> e.splited,
         or      |-> IF Len(e.sub) > 0 THEN convertOrToIn(e.sub) ELSE NoOr]
   : e \in extractExprsFromOr(disj)}

-----------------------------------------------------------------------------
(* The inputs: OR-trees over Atoms within the bounds, enumerated as a     *)
(* shape (the length of every disjunct) and the flat list of conjuncts.  *)
RECURSIVE Total(_, _)
Total(l, k) == IF k = 0 THEN 0 ELSE l[k] + Total(l, k - 1)
Shapes == {l \in UNION {[1..n -> 1..MaxLen] : n \in NDisjuncts} :
             Total(l, Len(l)) <= MaxAtoms}
Offset(l, k) == Total(l, k - 1)
Split(f, l) == [k \in 1..Len(l) |-> [j \in 1..l[k] |-> f[Offset(l, k) + j]]]
Disjuncts == UNION {[1..m -> Atoms] : m \in 1..MaxLen}
Common(disj) == {a \in Atoms : \A k \in 1..Len(disj) : a \in Range(disj[k])}
IsInput(disj) ==
  /\ AllowDup \/ \A k \in 1..Len(disj) : Cardinality(Range(disj[k])) = Len(disj[k])
  /\ Cardinality(Common(disj)) <= MaxCommon
Inputs ==
  {disj \in {Split(f, l) : l \in Shapes, f \in [1..MaxAtoms -> Atoms]} : IsInput(disj)}

-----------------------------------------------------------------------------
(* Truth of the input and of the rewritten conjuncts in a row. *)
InputHolds(disj, env) == \E k \in 1..Len(disj) : AllHold(disj[k], env)
OutputHolds(o, env) ==
  /\ AllHold(o.splited, env)
  /\ \/ o.or = NoOr
     \/ \E k \in 1..Len(o.or.ands) : AllHold(o.or.ands[k], env)
     \/ \E c \in DOMAIN o.or.ins : env.col[c] \in o.or.ins[c]

=============================================================================
