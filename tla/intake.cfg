SPECIFICATION FairSpec
CONSTANTS
  Task = {t1, t2}
  a = a
  b = b
  c = c
  road = road
  pump = pump
  rescue = rescue
  Form <- MCForm
  Phone = {a, b, c}
  Spot = {road}
  Category <- MCCategory
  LifeSafety = {stranded}
  Compatible <- MCCompatible
  Capability <- MCCapability
  Base <- MCBase
  Nobody = Nobody
  flooded = flooded
  stranded = stranded
  PoolSizes = {3}
  MaxReports = 3
  MaxVerdicts = 1
  Scenarios = {{"overlap", "fails", "verdicts"}, {"ambiguous"}, {"resolve"}, {"officers"}, {"anonymous"}}
INVARIANTS NeedsCoverReports IncidentsFollowReports ConfirmedHasCompany
PROPERTIES EveryReportIsAnswered
CHECK_DEADLOCK FALSE
