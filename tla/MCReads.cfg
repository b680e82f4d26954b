SPECIFICATION AdmissionSpec
CONSTANTS
  None = None
  g1 = g1
  g2 = g2
  x1 = x1
  x2 = x2
  y1 = y1
  a = a
  b = b
  single = single
  list = list
  writer = writer
  Sweeper = {}
  Plans = {"write"}
  MaxInflight = 3
  Group = {g1, g2}
  Op = {x1, x2, y1}
  CI = {a, b}
  GroupOf <- OverlapGroupOf
  CiOf <- OverlapCiOf
  Names <- MCNames
  Single = {single}
  List = {list}
  Writer = {writer}
  MaxActive = 1
  MaxPending = 2
INVARIANTS ListIsOneCut SlotsAreConserved SingleIsEvidenced NamedStayOutOfGap
PROPERTIES ImplementsAtomicReads
CONSTRAINT UnderWay
CHECK_DEADLOCK FALSE
