CONSTANTS
  l1 = l1  l2 = l2  w1 = w1  w2 = w2  h1 = h1  h2 = h2
  Logs <- OneLog
  Workers <- TwoWorkers
  Hooks <- OneHook
  BatchSize = 1
  MaxAttempts = 2
  MaxSends = 2
  MaxCauses = 2
  MaxFaults = 2
SPECIFICATION FairSpec
PROPERTY EventuallySettled
