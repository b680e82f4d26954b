SPECIFICATION FairSpec
CONSTANTS
  q1 = q1
  q2 = q2
  n1 = n1
  n2 = n2
  qOrg = qOrg
  qAnn = qAnn
  qBob = qBob
  nOrg = nOrg
  nAnn = nAnn
  GraphQL = {q1, q2}
  Analysis = {n1, n2}
  Key = {qOrg, qAnn, qBob, nOrg, nAnn}
  OrgKey <- MCOrgKey
  UserKey <- MCUserKey
  StoreOf <- MCStoreOf
  MaxActive <- MCMaxActive
  MaxRate <- MCMaxRate
  MaxKeys = 2
INVARIANTS WorkSlotsInv RunningIsBounded
PROPERTY SlotsComeBack
CHECK_DEADLOCK FALSE
