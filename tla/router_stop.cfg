SPECIFICATION Spec
CONSTANTS
  Replica = {r1}
  City = {pune}
  EventClass <- TwoClasses
  NoHolder = NoHolder
  Dead = Dead
  NoPass = NoPass
  OldEvents = 1
  MaxEvents = 3
  PollLimit = 1
  Lookback = 5
  GraphEnabled = TRUE
  Disturbance = {"pause", "direct", "manual", "db_error", "reorder"}
PROPERTIES NothingForgotten PausedBeginsNoWrite
