----------------------------- MODULE MCPushDown ------------------------------
(* A plan tree j1(j2(m1, m2), j3(m3, m4)) where j2 is a NestLoop join and  *)
(* j1, j3 are SortMerge joins; m1 holds two tables.  A query pushes one or *)
(* two expressions, each over one to three distinct tables.               *)
EXTENDS PushDown, SequencesExt

CONSTANTS j1, j2, j3, m1, m2, m3, m4, t1, t2, t3, t4, t5

MCJoins == {j1, j2, j3}
MCMerges == {m1, m2, m3, m4}
MCLeft == (j1 :> j2) @@ (j2 :> m1) @@ (j3 :> m3)
MCRight == (j1 :> j3) @@ (j2 :> m2) @@ (j3 :> m4)
MCStrategy == (j1 :> "SortMerge") @@ (j2 :> "NestLoop") @@ (j3 :> "SortMerge")
MCTables == {t1, t2, t3, t4, t5}
MCTableLeaf == (t1 :> m1) @@ (t2 :> m1) @@ (t3 :> m2) @@ (t4 :> m3) @@ (t5 :> m4)
MCReferTables ==
  {s \in UNION {[1..k -> MCTables] : k \in 1..3} : Cardinality(Range(s)) = Len(s)}
MCExprs == [kind : Kinds, tables : MCReferTables]
MCQueries == {<<e>> : e \in MCExprs} \cup {<<e, f>> : e, f \in MCExprs}

(* Every query of the instance pushes only expressions over tables. *)
ASSUME MCQueriesRefer == QueriesRefer
=============================================================================
