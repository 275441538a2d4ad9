SPECIFICATION FairSpec
CONSTANTS
  Replica = {r1, r2}
  City = {pune}
  EventClass <- OneClass
  NoHolder = NoHolder
  Dead = Dead
  NoPass = NoPass
  OldEvents = 1
  MaxEvents = 3
  PollLimit = 2
  Lookback = 5
  GraphEnabled = FALSE
  Disturbance = {"slow_leader"}
PROPERTIES ImplementsReactivePlanning
