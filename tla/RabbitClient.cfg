CONSTANTS
  c1 = c1  c2 = c2  m1 = m1  m2 = m2
  Consumers = {c1, c2}
  Msgs = {m1, m2}
  ViaExchange = {m2}
  Bound = TRUE
  MaxFaults = 2
SPECIFICATION FairSpec
INVARIANTS TypeOK AckedAfterHandled QueuedOnReturn
PROPERTIES NeverDropped StaysStalled Progress
CHECK_DEADLOCK FALSE
