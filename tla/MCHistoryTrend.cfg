SPECIFICATION Spec
CONSTANTS
  t1 = t1
  t2 = t2
  c1 = c1
  c2 = c2
  c3 = c3
  ann = ann
  bob = bob
  Tests = {t1, t2}
  Users = {ann, bob}
  Owner <- MCOwner
  Url <- MCUrl
  ListLimit = 1
  TrendLimit = 1
  Labels = {"none"}
  Calls = {c1}
  MaxReports = 1
  MaxRestarts = 0
SYMMETRY Symmetry
INVARIANT RecentIsPlotted
CHECK_DEADLOCK FALSE
