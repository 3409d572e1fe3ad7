SPECIFICATION Spec
CONSTANTS
  Client = {c1, c2}
  Key = {k1, k2}
  NoKey = NoKey
  Session = {s1}
  NoSession = NoSession
  Sandbox = {x1}
  Meter <- MCMeter
  Cost <- MCCost
  Limits <- MCLimits
  MaxCost <- MCMaxCost
  MaxEntries = 1
  MaxCalls = 4
  Ageing = TRUE
  Faults = TRUE
  HangUps = TRUE
SYMMETRY Symmetry
CHECK_DEADLOCK FALSE
INVARIANTS TypeOK OvershootBound AllCharged KeyRunsBound
PROPERTY HistoryKept
