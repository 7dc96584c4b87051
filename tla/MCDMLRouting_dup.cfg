CONSTANTS
  Columns = {"id"}
  Values = {1, 2, 3}
  Names = {"p", "q"}
  Atoms <- MCAtoms
  NDisjuncts = {2}
  MaxLen = 3
  MaxAtoms = 5
  AllowDup = TRUE
  MaxCommon = 1
  Shards = {"s1", "s2"}
  ShardOf <- MCShardOf
  ShardKey = "id"
  NConjuncts = 1
SPECIFICATION Spec
INVARIANTS RoutingCovers
