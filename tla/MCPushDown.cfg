CONSTANTS
  j1 = j1
  j2 = j2
  j3 = j3
  m1 = m1
  m2 = m2
  m3 = m3
  m4 = m4
  t1 = t1
  t2 = t2
  t3 = t3
  t4 = t4
  t5 = t5
  Nil = Nil
  Joins <- MCJoins
  Merges <- MCMerges
  Root = j1
  Left <- MCLeft
  Right <- MCRight
  Strategy <- MCStrategy
  Tables <- MCTables
  TableLeaf <- MCTableLeaf
  Queries <- MCQueries
SPECIFICATION Spec
INVARIANTS PushedAtLowestCover RejectOnlyCrossShard
