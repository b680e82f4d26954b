SPECIFICATION Spec
CONSTANTS
  None = None
  g1 = g1
  g2 = g2
  x1 = x1
  x2 = x2
  y1 = y1
  a = a
  b = b
  Group = {g1, g2}
  Op = {x1, x2, y1}
  CI = {a, b}
  Sweeper = {}
  GroupOf <- MCGroupOf
  CiOf <- MCCiOf
  Plans = {"write", "rekey", "hold", "settle"}
  MaxInflight = 3
INVARIANTS JournalInv GapCoversDivergence AnswersHold
PROPERTY ImplementsAtomicWrite
CHECK_DEADLOCK FALSE
