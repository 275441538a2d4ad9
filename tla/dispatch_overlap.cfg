CONSTANTS
  u1 = u1
  u2 = u2
  flood = flood
  fire = fire
  pump = pump
  medic = medic
  Unit = {u1}
  Incident = {flood, fire}
  Capability = {pump, medic}
  Need <- MedicEach
  Skill <- Medics
  NoIncident = NoIncident
  NoPlan = NoPlan
  Overlap = TRUE
  Ops = {"redirect", "cancel", "stage", "base", "preposition", "approve", "crew", "back", "task_complete", "task_patch"}
  MaxJobs = 3
SYMMETRY Alike
SPECIFICATION Spec
INVARIANT RedirectIsCurrent
PROPERTY RedirectStands
CHECK_DEADLOCK FALSE
