-------------------------- MODULE ShardRouteProofs ---------------------------
(***************************************************************************)
(* The routing decision of GetDMLRouting is sound: when the first         *)
(* conjunct on the shard key holds for a row, the segments returned       *)
(* include the row's segment.  Together with the rewrite keeping the      *)
(* meaning of the WHERE clause (checked by TLC in OrRewrite and           *)
(* DMLRouting), this is why an UPDATE or DELETE reaches every row it      *)
(* must change.                                                           *)
(***************************************************************************)
EXTENDS ShardRoute, NatLemmas, TLAPS

(***************************************************************************)
(* For every list of conjuncts and every row: if each conjunct on the     *)
(* shard key holds for the row (and an IN-list is a list of literals),    *)
(* the segments the loop of GetDMLRouting returns include the segment of *)
(* the row's shard key value.  Nothing is assumed of the other conjuncts, *)
(* of their order, or of which one comes first.                           *)
(***************************************************************************)
THEOREM RouteSound ==
  ASSUME NEW S, NEW filters \in Seq(S), NEW env \in Envs,
         \A j \in 1..Len(filters) : Matches(filters[j], ShardKey) =>
           /\ filters[j].kind = "in" => filters[j].vals \in Seq(Values)
           /\ Holds(filters[j], env)
  PROVE  ShardOf[env.col[ShardKey]] \in RouteFilters(ShardKey, filters)
  <1> DEFINE x == env.col[ShardKey]
             hits == {j \in 1..Len(filters) : Matches(filters[j], ShardKey)}
             f == filters[Min(hits)]
  <1>1. x \in Values
    BY RouteAssumption DEF Envs
  <1>2. CASE hits = {}
    <2>1. RouteFilters(ShardKey, filters) = Shards
      BY <1>2 DEF RouteFilters, LookupAll
    <2>. QED
      BY <1>1, <2>1, RouteAssumption
  <1>3. CASE hits # {}
    <2>0. hits \subseteq Nat
      OBVIOUS
    <2>1. Min(hits) \in hits
      <3>1. (CHOOSE i \in hits : \A k \in hits : i <= k) \in hits
        BY <1>3, <2>0, LeastIn
      <3>. QED
        BY <3>1 DEF Min
    <2>2. Matches(f, ShardKey) /\ Holds(f, env)
          /\ (f.kind = "in" => f.vals \in Seq(Values))
      BY <2>1
    <2>3. f.kind \in {"eq", "in"} /\ f.col = ShardKey /\ x \in ColVals(f)
      BY <2>2 DEF Matches, nameMatch, Holds
    <2>4. CASE f.kind = "eq"
      <3>1. RouteFilters(ShardKey, filters) = {ShardOf[f.val]}
        BY <1>3, <2>4 DEF RouteFilters, Lookup
      <3>2. x = f.val
        BY <2>3, <2>4 DEF ColVals
      <3>. QED
        BY <3>1, <3>2
    <2>5. CASE f.kind = "in"
      <3>1. RouteFilters(ShardKey, filters)
              = Range([i \in 1..Len(f.vals) |-> ShardOf[f.vals[i]]])
        BY <1>3, <2>5 DEF RouteFilters, GetSegments, GetIndex
      <3>2. x \in {f.vals[i] : i \in DOMAIN f.vals}
        BY <2>3, <2>5 DEF ColVals, Range
      <3>3. DOMAIN f.vals = 1..Len(f.vals)
        BY <2>2, <2>5
      <3>4. PICK i \in 1..Len(f.vals) : f.vals[i] = x
        BY <3>2, <3>3
      <3>. QED
        BY <3>1, <3>4 DEF Range
    <2>. QED
      BY <2>3, <2>4, <2>5
  <1>. QED
    BY <1>2, <1>3
=============================================================================
