SPECIFICATION Spec
CONSTANTS
  t1 = t1
  t2 = t2
  c1 = c1
  c2 = c2
  c3 = c3
  ann = ann
  bob = bob
  Tests = {t1, t2}
  Users = {ann, bob}
  Owner <- MCOwner
  Url <- MCUrl
  ListLimit = 1
  TrendLimit = 1
  Labels = {"none", "nightly"}
  Calls = {c1, c2, c3}
  MaxReports = 3
  MaxRestarts = 1
SYMMETRY Symmetry
INVARIANTS LinksDieOnlyByOverlap DeletedStaysGone
PROPERTIES FinishedIsDurable LatestIsShown
CHECK_DEADLOCK FALSE
