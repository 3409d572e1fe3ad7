SPECIFICATION Spec
CONSTANTS
  Client = {c1, c2}
  Key = {k1}
  NoKey = NoKey
  Session = {s1}
  NoSession = NoSession
  Sandbox = {x1}
  Meter <- MCMeter
  Cost <- MCCost
  Limits <- MCLimits
  MaxCost <- MCMaxCost
  MaxEntries = 1
  MaxCalls = 3
  Ageing = FALSE
  Faults = FALSE
  HangUps = FALSE
CHECK_DEADLOCK FALSE
INVARIANT RunsOnce
