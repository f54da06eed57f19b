CONSTANTS
  p1 = p1  p2 = p2  r1 = r1  r2 = r2
  Participants <- TwoParticipants
  Requests <- TwoRequests
  MaxServed = 5
SPECIFICATION Spec
INVARIANTS TypeOK GateClosedMeansTold ReminderQuota CountsMissNobody
SYMMETRY Symmetry
CHECK_DEADLOCK FALSE
