CONSTANTS
  Columns = {"id"}
  Values = {1, 2, 3}
  Names = {"p", "q"}
  Atoms <- MCAtoms
  NDisjuncts = {2, 3}
  MaxLen = 3
  MaxAtoms = 5
  AllowDup = TRUE
  MaxCommon = 2
SPECIFICATION Spec
INVARIANT NoPanic
