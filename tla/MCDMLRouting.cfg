CONSTANTS
  Columns = {"id"}
  Values = {1, 2, 3}
  Names = {"p", "q"}
  Atoms <- MCAtoms
  NDisjuncts = {2, 3}
  MaxLen = 2
  MaxAtoms = 4
  AllowDup = FALSE
  MaxCommon = 1
  Shards = {"s1", "s2"}
  ShardOf <- MCShardOf
  ShardKey = "id"
  NConjuncts = 2
SPECIFICATION Spec
INVARIANTS RoutingCovers
