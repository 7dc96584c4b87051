---------------------------- MODULE MCDMLRouting -----------------------------
EXTENDS DMLRouting

(* id = 1, id = 2, id IN (2, 3) and two opaque conditions. *)
MCAtoms ==
  {[kind |-> "eq", col |-> "id", val |-> 1],
   [kind |-> "eq", col |-> "id", val |-> 2],
   [kind |-> "in", col |-> "id", vals |-> <<2, 3>>],
   [kind |-> "other", name |-> "p"],
   [kind |-> "other", name |-> "q"]}

(* 1 and 3 hash to s1, 2 to s2. *)
MCShardOf == (1 :> "s1") @@ (2 :> "s2") @@ (3 :> "s1")
=============================================================================
