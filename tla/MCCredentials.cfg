SPECIFICATION Spec
CONSTANTS
  None = None
  Default = Default
  Initial = {own, Default}
  Rotation = {r1}
  Resolver = {}
  Key = {k1}
  Change = {c1, c2}
  Login = {l1}
  Scan = {n1}
  Deletion = {d1}
INVARIANTS HashIsOfItsGeneration TokensAreOfTheirGeneration UsableKeysAreCurrent MarkedHoldsDefault
CONSTRAINT Few
CHECK_DEADLOCK FALSE
