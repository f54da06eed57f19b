CONSTANTS
  l1 = l1  l2 = l2  w1 = w1  w2 = w2  h1 = h1  h2 = h2
  Logs <- OneLog
  Workers <- TwoWorkers
  Hooks <- TwoHooks
  BatchSize = 1
  MaxAttempts = 2
  MaxSends = 3
  MaxCauses = 2
  MaxFaults = 2
SPECIFICATION Spec
INVARIANTS TypeOK SendingIsLocked SendBudget
PROPERTIES SentNeverReopened UntracedDeadIsFinal
SYMMETRY Symmetry
