SPECIFICATION FairSpec
CONSTANTS
  i1 = i1
  i2 = i2
  u1 = u1
  u2 = u2
  Incident = {i1, i2}
  Unit = {u1, u2}
  Want = 1
  MaxPlans = 3
  MaxReports = 2
  MaxTasks = 1
  Scenarios = {{"busy", "lazy"}, {"two", "lazy", "resolved"}, {"two", "lost"}, {"busy", "lost"}, {"drones", "refused"}, {"officer"}, {"approvals"}}
PROPERTIES EveryExpectationSettles UnitsNotPoached PlanningEnds
CHECK_DEADLOCK FALSE
