\* Two releases, runs that may overlap and fail.
SPECIFICATION FairSpec
CONSTANTS
  r1 = r1  r2 = r2  m1 = m1
  Release = {r1, r2}
  Model = {m1}
  Pins <- PinsDef
  Run = {w1, w2}
  MaxTime = 2
  MaxFailures = 1
INVARIANT AiSyncInv
PROPERTIES CursorHoldsAgainstLag Converges
