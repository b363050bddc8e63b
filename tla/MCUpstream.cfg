CONSTANTS
  t1 = t1
  t2 = t2
  a1 = a1
  a2 = a2
  b1 = b1
  Tasks = {t1, t2}
  Query <- MCQuery
  Setups <- MCSetups
  V4 = {a1, a2}
  V6 = {b1}
  Found <- MCFound
  Limit = 2
  BootMax = 2
  Idle = 1
  Cap = 1
  Datagrams = 2
  MaxSent = 2
  MaxTime = 3
SPECIFICATION Spec
INVARIANTS TypeOK PoolClean OneHolder DestAgreed BootstrapPartial
PROPERTY ImplementsExchange
CHECK_DEADLOCK FALSE
