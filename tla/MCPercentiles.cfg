SPECIFICATION Spec
CONSTANTS
  j1 = j1
  j2 = j2
  Jobs = {j1, j2}
  Latencies = {1, 2, 3}
  Bucket <- MCBucket
  MaxSamples = 2
SYMMETRY Symmetry
INVARIANTS TypeOK CombinedIsTrue
CHECK_DEADLOCK FALSE
