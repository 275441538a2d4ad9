SPECIFICATION FairSpec
CONSTANTS
  Agency = {ndrf, redcross, ward, swarm}
  Holder = {ndrf, redcross}
  External = {swarm}
  Quantity = {1, 2}
  MaxChain = 2
  MaxRoots = 1
  MaxAnswers = 1
  Worker = {w1, w2}
  Officer = {o1}
  Scenarios = {{"tasks_overlap", "life_safety"}, {"tasks_overlap"}, {"officer", "officer_races"}, {"officer", "life_safety"}, {"swarm", "db_fails"}, {"restart"}, {"clock_lags", "demo"}}
INVARIANTS NeedIsHeld SuppliedOnce
PROPERTIES EveryRequestCloses
CHECK_DEADLOCK FALSE
