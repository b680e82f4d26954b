SPECIFICATION FairRotation
CONSTANTS
  None = None
  Default = Default
  Initial = {own}
  Rotation = {r1, r2}
  Resolver = {v1}
  Key = {}
  Change = {}
INVARIANT RotationInv
PROPERTIES ImplementsAtomicRotation IntentsResolve
CHECK_DEADLOCK FALSE
