CONSTANTS
  m1 = m1  m2 = m2  k1 = k1  k2 = k2  k3 = k3  k4 = k4
  Msgs = {m1}
  Chans = {k1, k2, k3}
  PushRetryTimes = 2
  MaxFaults = 1
SPECIFICATION FairSpec
PROPERTIES Consumed
CHECK_DEADLOCK FALSE
