SPECIFICATION Spec
CONSTANTS
  None = None
  Default = Default
  Initial = {own}
  Rotation = {r1}
  Resolver = {}
  Key = {}
  Change = {}
  Login = {l1}
  Scan = {}
  Deletion = {d1}
INVARIANT RotatedAccountStays
CHECK_DEADLOCK FALSE
