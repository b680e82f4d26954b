SPECIFICATION Spec
CONSTANTS
  None = None
  e1 = e1
  e2 = e2
  e3 = e3
  e4 = e4
  t1 = t1
  t2 = t2
  t3 = t3
  Entry = {e1, e2, e3, e4}
  TxOf <- MCTxOf
  Before <- MCBefore
  MaxClock = 2
INVARIANTS ChainVerifies
PROPERTY ImplementsLedger
