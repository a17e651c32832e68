CONSTANTS
  s1 = s1  s2 = s2  m1 = m1  m2 = m2
  Streams = {s1, s2}
  Msgs = {m1, m2}
  Namespaces <- TwoNamespaces
  Topics <- MCTopics
  Dest <- TwoDest
  Window = 1
  MaxReq = 2
  MaxBreaks = 1
SPECIFICATION Spec
SYMMETRY Symmetry
INVARIANTS TypeOK TotalOrder NoSendAfterReturn PublishComplete Isolation
PROPERTIES Broadcasts
CHECK_DEADLOCK FALSE
