CONSTANTS
  s1 = s1  s2 = s2  m1 = m1  m2 = m2  c1 = c1  c2 = c2  h1 = h1  h2 = h2
  Streams = {s1, s2}
  Msgs = {m1, m2}
  Channels = {c1, c2}
  Handlers = {h1, h2}
  Namespaces <- TwoNamespaces
  Topics <- MCTopics
  Dest <- TwoDest
  Namespace <- TwoNamespace
  TopicOf <- MCTopicOf
  ChannelOf <- TwoChannels
  retryTimes = 0
  hasErrorHandler = TRUE
  Window = 1
  MaxReq = 1
  MaxBreaks = 0
SPECIFICATION ChanSpec
SYMMETRY Symmetry
INVARIANTS HandlerOrder
CHECK_DEADLOCK FALSE
