CONSTANTS
  p1 = p1  p2 = p2  r1 = r1  r2 = r2  f1 = f1  f2 = f2
  People <- TwoPeople
  Requests <- OneRequest
  Proofs <- TwoProofs
  MaxFaults = 1
SPECIFICATION Spec
PROPERTIES ImplementsRules
