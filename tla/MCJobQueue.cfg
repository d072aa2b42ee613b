SPECIFICATION FairSpec
CONSTANTS
  NumJobs = 2
  Malformed = {2}
  LeaseRenewInterval = 1
  RenewLatency = 0
  StaleJobAfter = 2
  ClaimLatency = 1
  MaxDeliveries = 2
  PendingPage = 1
  MaxCrashes = 1
  MaxCuts = 1
  MaxWipes = 1
  NoWorker = NoWorker
  Workers = {w1, w2}
  w1 = w1
  w2 = w2
INVARIANTS RunsBounded AckedIsAccounted SoleRunner AckedIsReported
PROPERTIES NoHealthyRunIsStolen ImplementsQueue EveryJobIsAcked
