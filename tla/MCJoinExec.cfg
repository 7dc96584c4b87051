CONSTANTS
  l1 = l1  l2 = l2  r1 = r1  r2 = r2  eL = eL  eR = eR
  NoErr = NoErr
  Null = Null
  LeftRows <- MCLeftRows
  RightRows <- MCRightRows
  Errors <- MCErrors
  Cols <- MCCols
  MaxRows = 2
  LeftWidth = 2
  RightWidth = 1
  Strategy = "Cartesian"
SPECIFICATION Spec
INVARIANTS TypeOK BarrierSafety ErrorsCollected ReturnCorrect
PROPERTIES Termination
