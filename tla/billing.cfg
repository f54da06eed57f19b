CONSTANTS
  p1 = p1  p2 = p2  b1 = b1  b2 = b2  r1 = r1  r2 = r2
  People <- TwoPeople
  Bills <- TwoBills
  Requests <- TwoRequests
  Entries <- SomeEntries
  FeeConfigs <- SomeFees
  MaxServed = 5
  MaxFaults = 1
SPECIFICATION Spec
INVARIANTS TypeOK SettledAmounts PageNeverAboveShare TotalCoversBills ScopesPresent
SYMMETRY Symmetry
CHECK_DEADLOCK FALSE
