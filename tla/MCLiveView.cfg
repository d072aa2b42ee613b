SPECIFICATION ViewFairSpec
CONSTANTS
  Viewers = {v1, v2}
  v1 = v1
  v2 = v2
  ChannelCap = 2
  MaxUpdates = 3
INVARIANTS ViewTypeOK CaughtUpIsCurrent OnlyOpenAreNotified
PROPERTY FinishedIsShown
CHECK_DEADLOCK FALSE
