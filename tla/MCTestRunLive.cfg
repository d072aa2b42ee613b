SPECIFICATION FairSpec
CONSTANTS
  NumJobs = 2
  MaxTries = 2
  MaxDeliveries = 1
  FaultKinds = {"die", "lose", "publish", "ack", "stray", "restart", "submit", "save", "read", "wipe"}
  MaxFaults = 1
  MaxLive = 0
  Workers = {w1, w2}
  w1 = w1
  w2 = w2
PROPERTY EveryTestFinishes
