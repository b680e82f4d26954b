SPECIFICATION FairSpec
CONSTANTS
  None = None
  t1 = t1
  t2 = t2
  t3 = t3
  r1 = r1
  here = here
  T1 = {t1, t2, t3}
  Ref = {r1}
  Process = {here}
  ProcessOf <- MCProcessOf
  PoolSize = 2
INVARIANTS TurnsInv
PROPERTIES CallsEnd IdleChainIsForgotten
CHECK_DEADLOCK FALSE
