CONSTANTS
  s1 = s1  s2 = s2  m1 = m1  m2 = m2  c1 = c1  c2 = c2  h1 = h1  h2 = h2
  Streams = {s1}
  Msgs = {m1, m2}
  Channels = {c1}
  Handlers = {h1}
  Namespaces <- OneNamespaces
  Topics <- MCTopics
  Dest <- OneDest
  Namespace <- OneNamespace
  TopicOf <- MCTopicOf
  ChannelOf <- OneChannel
  retryTimes = 1
  hasErrorHandler = TRUE
  Window = 1
  MaxReq = 1
  MaxBreaks = 1
SPECIFICATION ChanFairSpec
PROPERTIES EventuallySettled PublishReturns BrokenRemoved
CHECK_DEADLOCK FALSE
