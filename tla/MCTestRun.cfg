SPECIFICATION Spec
CONSTANTS
  NumJobs = 2
  MaxTries = 2
  MaxDeliveries = 2
  FaultKinds = {"die", "lose", "publish", "ack", "stray", "restart", "submit", "save", "read", "wipe"}
  MaxFaults = 1
  MaxLive = 1
  Workers = {w1, w2}
  w1 = w1
  w2 = w2
SYMMETRY Symmetry
INVARIANTS TypeOK FinishedTwiceNeedsLateLive FinishedMeansReported MarksFollowReports
