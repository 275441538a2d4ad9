CONSTANTS
  u1 = u1
  u2 = u2
  flood = flood
  fire = fire
  pump = pump
  medic = medic
  Unit = {u1, u2}
  Incident = {flood, fire}
  Capability = {pump, medic}
  Need <- MedicEach
  Skill <- Medics
  NoIncident = NoIncident
  NoPlan = NoPlan
  Overlap = FALSE
  Ops = {"redirect", "cancel", "hold", "pin", "expire", "crew", "offline"}
  MaxJobs = 2
SYMMETRY Alike
SPECIFICATION Spec
INVARIANTS OneJobPerUnit AvailableIsFree CancelledLeavesPhone
PROPERTIES NotMovedMidJob OrdersRespected
CHECK_DEADLOCK FALSE
