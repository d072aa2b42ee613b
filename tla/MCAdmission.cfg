SPECIFICATION Spec
CONSTANTS
  ann = ann
  bob = bob
  w1 = w1
  w2 = w2
  p1 = p1
  p2 = p2
  Owners = {ann, bob}
  Hosts = {"open", "own"}
  Allowlist = {"open"}
  Verified <- MCVerified
  MaxVUsPerTest = 3
  MaxDurationSeconds = 2
  MaxFanout = 2
  WorkerMaxVUs = 3
  WorkerMaxDuration = 2
  BeatLatency = 1
  HeartbeatInterval = 1
  HeartbeatTTL = 3
  MaxFaults = 2
  Posts = {p1, p2}
  Requests <- MCRequests
  TestCooldown = 2
  MaxRestarts = 1
  Workers = {w1, w2}
SYMMETRY Symmetry
INVARIANTS HealthyIsCounted SilentAgesOut JobsAreRunnable SplitIsComplete
INVARIANT SpacedUnlessOverlapping
PROPERTY FitsTheFleet
