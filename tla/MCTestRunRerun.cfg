SPECIFICATION Spec
CONSTANTS
  NumJobs = 1
  MaxTries = 1
  MaxDeliveries = 2
  FaultKinds = {"die"}
  MaxFaults = 1
  MaxLive = 1
  Workers = {w1, w2}
  w1 = w1
  w2 = w2
SYMMETRY Symmetry
INVARIANT FinishedOnce
