SPECIFICATION FairSpec
CONSTANTS
  sos = sos
  reading = reading
  call = call
  level = level
  Replica = {r1, r2}
  Door = {r1}
  Item = {sos, call, reading, level}
  LaneOf <- Lanes
  Backends = {"memory", "redis"}
  Capacity <- OneEach
  BatchSize = 2
  MaxSubmits = 2
  MaxErrors = 1
  Scenarios = {{"redis_error", "crash"}, {"slow_worker", "batch_error", "crash"}, {"stop"}}
INVARIANTS AcceptedIsKept OncePerKey
PROPERTIES AcceptedIsAnswered
CHECK_DEADLOCK FALSE
