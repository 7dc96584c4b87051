---------------------------- MODULE MCOrRewrite -----------------------------
EXTENDS OrRewrite

(* id = 1, id = 2, id IN (2, 3) and two opaque conditions. *)
MCAtoms ==
  {[kind |-> "eq", col |-> "id", val |-> 1],
   [kind |-> "eq", col |-> "id", val |-> 2],
   [kind |-> "in", col |-> "id", vals |-> <<2, 3>>],
   [kind |-> "other", name |-> "p"],
   [kind |-> "other", name |-> "q"]}
=============================================================================
