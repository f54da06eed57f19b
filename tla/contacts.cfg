CONSTANTS
  c1 = c1  c2 = c2  g1 = g1  p1 = p1  p2 = p2  n1 = n1  n2 = n2
  x1 = x1  x2 = x2  y1 = y1  y2 = y2  r1 = r1  r2 = r2
  Ids <- TwoIds
  Groups <- OneGroup
  Participants <- TwoParticipants
  Numbers <- TwoNumbers
  Names <- TwoNames
  GroupNames <- TwoGroupNames
  Edits <- SomeEdits
  Batches <- SomeBatches
  DefaultLimit = 1
  Requests <- TwoRequests
  MaxServed = 5
SPECIFICATION Spec
INVARIANTS TypeOK EditsKept CheckedNumbersFit OnePerContact
SYMMETRY Symmetry
CHECK_DEADLOCK FALSE
