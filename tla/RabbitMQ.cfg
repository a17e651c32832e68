CONSTANTS
  m1 = m1  m2 = m2  k1 = k1  k2 = k2  k3 = k3  k4 = k4
  Msgs = {m1, m2}
  Chans = {k1, k2}
  PushRetryTimes = 2
  MaxFaults = 2
SPECIFICATION FairSpec
INVARIANTS TypeOK AckedAfterHandled PublishOnce
PROPERTIES NeverDropped ConsumedWhileUp
CHECK_DEADLOCK FALSE
