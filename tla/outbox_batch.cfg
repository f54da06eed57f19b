CONSTANTS
  l1 = l1  l2 = l2  w1 = w1  w2 = w2  h1 = h1  h2 = h2
  Logs <- TwoLogs
  Workers <- TwoWorkers
  Hooks <- OneHook
  BatchSize = 2
  MaxAttempts = 2
  MaxSends = 2
  MaxCauses = 1
  MaxFaults = 1
SPECIFICATION Spec
INVARIANT Attribution
PROPERTY ImplementsDelivery
SYMMETRY Symmetry
