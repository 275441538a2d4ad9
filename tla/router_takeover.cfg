SPECIFICATION Spec
CONSTANTS
  Replica = {r1, r2}
  City = {pune}
  EventClass <- OneClass
  NoHolder = NoHolder
  Dead = Dead
  NoPass = NoPass
  OldEvents = 1
  MaxEvents = 3
  PollLimit = 1
  Lookback = 5
  GraphEnabled = TRUE
  Disturbance = {"crash", "demo", "plan_error"}
INVARIANTS OnlyHolderPolls EveryEventRouted OneRePlanner
PROPERTIES HandedOverIsKept
