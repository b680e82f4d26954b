SPECIFICATION FairSockets
CONSTANTS
  p1 = p1
  p2 = p2
  p3 = p3
  u1 = u1
  u2 = u2
  o1 = o1
  Peer = {p1, p2, p3}
  User = {u1, u2}
  Org = {o1}
  UserOf <- MCUserOf
  OrgOf <- MCOrgOf
  MaxVerifying = 2
  MaxConnections = 3
  MaxOrgConnections = 2
  MaxUserConnections = 1
  Concurrency = 1
  MaxGen = 1
INVARIANTS
  SocketsInv
  TicksAreDecisive
PROPERTY
  UnfitAreClosed
\* Closed, with the last lookups settled, nothing is left to do.
CHECK_DEADLOCK FALSE
