CONSTANTS
  Joins = {"j1", "j2"}
  Merges = {"m1", "m2", "m3"}
  Parent <- MCParent
  Tables = {"t1", "t2", "t3", "t4"}
  Columns = {"a", "b"}
  TableLeaf <- MCTableLeaf
  Compliant <- MCCompliant
  InitFields <- MCInitFields
SPECIFICATION Spec
INVARIANTS VarsResolve NoColumnPushedTwice
