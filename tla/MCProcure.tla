----------------------------- MODULE MCProcure -------------------------------
EXTENDS Procure, TLC

(* j1(j2(m1, m2), m3): t1 and t3 in m1, t2 in m2, t4 in m3. *)
MCParent == ("m1" :> "j2") @@ ("m2" :> "j2") @@ ("m3" :> "j1")
MCTableLeaf == ("t1" :> "m1") @@ ("t3" :> "m1") @@ ("t2" :> "m2") @@ ("t4" :> "m3")

(* Identifiers: CompliantName leaves letters, digits and `_` as they are. *)
MCCompliant == [n \in Tables \cup Columns |-> n]

(* m1 outputs an expression named a (t1.a + 1 AS a), then t3.a, then     *)
(* t1.a: a scan that skipped the isCol test or the table test would stop *)
(* at the wrong one.  m2 outputs t2.b.                                   *)
MCInitFields ==
  ("m1" :> <<[isCol |-> FALSE, field |-> "a", table |-> "t1", expr |-> Calc("t1", "a")],
             [isCol |-> TRUE, field |-> "a", table |-> "t3", expr |-> ColRef("t3", "a")],
             [isCol |-> TRUE, field |-> "a", table |-> "t1", expr |-> ColRef("t1", "a")]>>) @@
  ("m2" :> <<[isCol |-> TRUE, field |-> "b", table |-> "t2", expr |-> ColRef("t2", "b")]>>) @@
  ("m3" :> <<>>)

(* Names that collide once joined with `_`: a.b_c and a_b.c. *)
MCCollideLeaf == ("a" :> "m1") @@ ("a_b" :> "m2")
MCCollideFields == [m \in {"m1", "m2", "m3"} |-> <<>>]
=============================================================================
