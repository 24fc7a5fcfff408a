\* Two brokers, one watching, an event each of two tenants: clocks one unit
\* off, one unit of lag, polls of one unit, so that WideOverlap holds with
\* equality; one restart.
CONSTANTS
  b1 = b1
  b2 = b2
  e1 = e1
  e2 = e2
  t1 = t1
  t2 = t2
  Broker = {b1, b2}
  Watching = {b1}
  BrokerId <- MCBrokerId
  EventId = {e1, e2}
  Tenant = {t1, t2}
  TenantOf <- MCTwoTenants
  Overlap = 4
  MaxSkew = 1
  MaxLag = 1
  MaxPoll = 1
  MaxTime = 4
  MaxLives = 1
SPECIFICATION Spec
INVARIANTS TypeOK UnseenInWindow
PROPERTIES PromiseKept EventuallySettled
