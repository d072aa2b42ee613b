SPECIFICATION FairSpec
CONSTANTS
  VUs = {v1, v2}
  v1 = v1
  v2 = v2
  Ramp = TRUE
  MinSamples = 2
  MaxRequests = 4
  MaxTicks = 2
INVARIANTS TypeOK FinalIsComplete AbortIsReported CountedInFull
PROPERTY RunEnds
CHECK_DEADLOCK FALSE
