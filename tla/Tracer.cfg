CONSTANTS
  p = p  q = q  r = r  a = a  b = b  x = x
  Callers = {p, q, r}
  Configs = {a, b, x}
  Endpoint <- MCEndpoint
  Ops <- MCOps
  Valid = {a, x}
SPECIFICATION FairSpec
INVARIANTS TypeOK CreatedOnce ProviderReturned NeverLoadsEmpty
PROPERTIES NotPreempted InitReturns
CHECK_DEADLOCK FALSE
