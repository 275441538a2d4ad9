SPECIFICATION FairSpec
CONSTANTS
  flood = flood
  leak = leak
  u1 = u1
  u2 = u2
  Plan <- Plans
  Incident = {flood, leak}
  Unit = {u1, u2}
  Severity <- Severities
  Threshold = 4
  MaxAttempts = 2
  MaxPerMinute = 1
  KeepRuns = 1
  MaxRuns = 2
  Officer = {o1, o2}
  MaxDecisions = 1
  Scenarios = {{"cycle", "pause"}, {"cycle", "solver_error"}, {"cycle", "run_fails"}, {"cycle", "run_timeout", "late_move"}, {"propose", "decide", "pause"}, {"propose", "execute"}}
INVARIANTS WrittenIsAuthorised ApprovedIsWritten NothingActsAlone
PROPERTIES RunsEnd
CHECK_DEADLOCK FALSE
