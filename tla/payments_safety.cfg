CONSTANTS
  p1 = p1  p2 = p2  r1 = r1  r2 = r2  f1 = f1  f2 = f2
  People <- TwoPeople
  Requests <- TwoRequests
  Proofs <- TwoProofs
  MaxFaults = 1
SPECIFICATION Spec
INVARIANTS TypeOK EvidenceConsistent OneProofAccepted ApprovalsComplete CompletedMeansPaid
PROPERTIES RulesUntilLostUpdate
SYMMETRY Symmetry
