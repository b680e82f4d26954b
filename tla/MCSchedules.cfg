SPECIFICATION Spec
CONSTANTS
  None = None
  c1 = c1
  c2 = c2
  w1 = w1
  s1 = s1
  nightly = nightly
  hourly = hourly
  Client = {c1, c2}
  Worker = {w1}
  Server = {s1}
  ServerOf <- MCServerOf
  Patches <- MCPatches
  Cron = {nightly, hourly}
  DefaultCron = nightly
INVARIANT SchedulesInv
PROPERTIES StartReconciles EditsTakeEffect
CHECK_DEADLOCK FALSE
