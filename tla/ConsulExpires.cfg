CONSTANTS
  a = a  b = b  p = p  q = q
  Keys = {a, b}
  NumShards = 2
  ShardOf <- MCShardOf
  Callers = {p}
  KeyOf <- MCKeyOf
  OptOf <- MCOptOf
  Child <- MCChild
  TimedKeys = {b}
  Gets <- MCGets
  Loops = {1, 2}
  MaxIndex = 2
SPECIFICATION FairSpec

PROPERTIES Expires
CHECK_DEADLOCK FALSE
