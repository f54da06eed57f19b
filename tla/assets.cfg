CONSTANTS
  a1 = a1  a2 = a2  i1 = i1  i2 = i2  i3 = i3  r1 = r1  r2 = r2
  Accounts <- TwoAccounts
  Images <- ThreeImages
  Requests <- TwoRequests
  MaxServed = 5
SPECIFICATION Spec
INVARIANTS TypeOK PageShowsAccounts ImagesInPlace
SYMMETRY Symmetry
CHECK_DEADLOCK FALSE
