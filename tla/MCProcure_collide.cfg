CONSTANTS
  Joins = {"j1", "j2"}
  Merges = {"m1", "m2", "m3"}
  Parent <- MCParent
  Tables = {"a", "a_b"}
  Columns = {"c", "b_c"}
  TableLeaf <- MCCollideLeaf
  Compliant <- MCCompliant
  InitFields <- MCCollideFields
SPECIFICATION Spec
INVARIANTS VarsResolve
