SPECIFICATION FairSpec
CONSTANTS
  Gateway = {g1, g2}
  Packet = {p1, p2, p3}
  Batch = 1
  Limit = 1
  MaxAttempts = 2
  MaxPost = 2
  MaxFaultySent = 2
  MaxEvents = 2
  MaxLost = 1
  Scenarios = {{"outbound", "nodes_ack"}, {"outbound", "drops"}, {"outbound", "refused"}, {"outbound", "any_time", "build_fails"}, {"inbound"}, {"inbound", "drops"}, {"inbound", "handler_fails"}, {"inbound", "server_stops"}}
INVARIANTS NothingSkipped AckedWasAired OneReport
PROPERTIES EveryMessageSettles HeardBecomesReport
CHECK_DEADLOCK FALSE
