SPECIFICATION FairSpec
CONSTANTS
  None = None
  g1 = g1
  x1 = x1
  x2 = x2
  a = a
  b = b
  Group = {g1}
  Op = {x1, x2}
  CI = {a, b}
  Sweeper = {s1}
  GroupOf <- SlotsGroupOf
  CiOf <- SlotsCiOf
  Plans = {"write", "rekey", "hold", "settle"}
  MaxInflight = 3
INVARIANTS DecidedTogether DecisionMatchesGraph FailedIsReplayable FencesAgree
PROPERTY DecisionsAreFinal PendingIsDecided
CHECK_DEADLOCK FALSE
