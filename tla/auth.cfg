CONSTANTS
  p1 = p1  p2 = p2  x1 = x1  x2 = x2  r1 = r1  r2 = r2
  Phones <- TwoPhones
  AdminPhones <- OneAdmin
  Names <- TwoNames
  FirstName = x1
  Requests <- TwoRequests
  MaxServed = 6
  MaxCodes = 3
SPECIFICATION Spec
INVARIANTS TypeOK TokensProved UsedCodesGone LastCodeStands ProfilesKept
SYMMETRY Symmetry
CHECK_DEADLOCK FALSE
